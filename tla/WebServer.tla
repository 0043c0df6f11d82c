------------------------------ MODULE WebServer ------------------------------
(***************************************************************************)
(* The handlers of the web server (web/web.go) over the directory order,    *)
(* the prefix index and the previews.  A browser opens a page, then follows *)
(* the links the server has put on it.  The remote does not change          *)
(* meanwhile; FileAccess is about that.                                     *)
(*                                                                          *)
(* A name is text, a directory the sequence of names that leads to it.      *)
(***************************************************************************)
EXTENDS SearchIndex, Previews

CONSTANTS
    Cases,          (* the configurations, remotes and first requests        *)
    NotANumber      (* a parameter that is missing or cannot be parsed       *)

VARIABLES
    remote,         (* what rclone serves: a set of entries                  *)
    request,
    response,       (* Nothing until the request has been handled            *)
    promise         (* history: what the link that was followed stands for   *)

vars == <<cfg, remote, request, response, promise>>

PathOf(e) == Append(e.dir, e.name)

(* The configurations that the flags allow, and the remotes that rclone can *)
(* serve: trees of files, whose sizes it knows.                             *)
IsConfig(c) ==
    c \in [mode : {"none", "original", "thumbnails"}, format : {"jpeg", "avif"},
           rawFiles : BOOLEAN, threshold : Int]

Name == {name \in Seq(Nat) : name # <<>> /\ \A k \in 1..Len(name) : name[k] # Slash}

IsTree(R) ==
    /\ IsFiniteSet(R)
    /\ R \subseteq [dir : Seq(Name), name : Name, isDir : BOOLEAN, size : Nat, modTime : Int]
    /\ \A e \in R : \A n \in 1..Len(e.dir) : \E d \in R : d.isDir /\ PathOf(d) = SubSeq(e.dir, 1, n)

ASSUME NumberAssumption == NotANumber \notin Int

ASSUME CasesAssumption ==
    \A c \in Cases :
      /\ IsConfig(c.cfg)
      /\ IsTree(c.remote)
      /\ c.request.handler \in {"ui", "dir"} => c.request.dir \in Seq(Name)
      /\ c.request.handler \in {"search", "search page"} =>
           c.request.search \in Seq(Nat) /\ c.request.limit \in Int \cup {NotANumber}

Nothing == [status |-> 0, page |-> "none"]

(* A panic of a handler: net/http closes the connection.                    *)
Aborted == [status |-> 0, page |-> "aborted"]

NoPromise == [made |-> FALSE]

(* A link stands for a directory, and maybe a file in it; the names that    *)
(* its URL was joined from, without escaping them.                          *)
Promise(dir, file, joined) == [made |-> TRUE, dir |-> dir, file |-> file, joined |-> joined]

Init ==
    /\ \E c \in Cases : cfg = c.cfg /\ remote = c.remote /\ request = c.request
    /\ response = Nothing
    /\ promise = NoPromise

Responds(r) == response' = r /\ UNCHANGED <<cfg, remote, request, promise>>

Error(status) == [status |-> status, page |-> "error"]

(* fileIDFromRequest.  The path it gets is never empty: the patterns of the *)
(* two handlers end in a slash, and the prefix that is cut off does not.    *)
IsFileID(id) == id.modTime # NotANumber /\ id.size # NotANumber

(* extractSearch *)
TooShort(text) == Len(text) < MinPrefixLen

(* What the handlers do not refuse as a bad request.                        *)
GoodRequest ==
    CASE request.handler = "file" -> IsFileID(request.id)
      [] request.handler = "thumbnail" ->
           /\ IsFileID(request.id)
           /\ request.size \in {"small", "medium", "large", ""}
           /\ Accepts(request.id)
      [] request.handler = "search" -> ~TooShort(request.search) /\ request.limit # NotANumber
      [] request.handler = "search page" -> ~TooShort(request.search)
      [] OTHER -> TRUE

BadRequest == response = Nothing /\ ~GoodRequest /\ Responds(Error(400))

Handles(handler) == request.handler = handler /\ response = Nothing /\ GoodRequest

(* The service behind a handler fails: rclone, or a search without an index;*)
(* a thumbnail that cannot be made ends in a cache miss or another error.   *)
Fails ==
    /\ response = Nothing
    /\ GoodRequest
    /\ \E status \in IF request.handler = "thumbnail" THEN {400, 404} ELSE {500} :
         Responds([status |-> status, page |-> "failed"])

-----------------------------------------------------------------------------
(* Listings *)

(* URL.JoinPath puts the names together as they are and takes what looks    *)
(* like an escape in them for one; if it is none, the URL stays without     *)
(* them.  (An escaped slash or dots, which would give other names again,    *)
(* are not told apart from other characters here.)                          *)
JoinPath(names) ==
    IF \A k \in DOMAIN names : IsEscaped(names[k])
      THEN [k \in DOMAIN names |-> PathUnescape(names[k])]
      ELSE <<>>

Exists(dir) == dir = <<>> \/ \E e \in remote : e.isDir /\ PathOf(e) = dir

FileID(e) == [dir |-> e.dir, name |-> e.name, modTime |-> e.modTime, size |-> e.size]

(* What rclone lists: the names of directories end in a slash, and          *)
(* getDirInfo sets their size to zero.                                      *)
Listed(e) ==
    [path |-> IF e.isDir THEN Append(e.name, Slash) ELSE e.name, of |-> e,
     isDir |-> e.isDir, modTime |-> e.modTime, size |-> IF e.isDir THEN 0 ELSE e.size]

ListingOf(dir) == {Listed(e) : e \in {x \in remote : x.dir = dir}}

Home == Txt("/")
Unknown == Txt("???")
SearchResults == Txt("Search Results")

SeededNotReversed(dir, texts) ==
    LET url == JoinPath(dir)
    IN  [k \in DOMAIN texts |-> [text |-> texts[k], link |-> SubSeq(url, 1, Len(url) - (k - 1))]]

(* The links of the breadcrumbs: the directory, its parent, and so on; the  *)
(* server leads to Home from what is above it.                              *)
Breadcrumbs(dir, texts) ==
    LET url == JoinPath(dir)
    IN  [k \in DOMAIN texts |->
           [text |-> texts[k], link |-> SubSeq(url, 1, Len(url) - (Len(texts) - k))]]

convertRcloneInfo(page, dir, texts, entries) ==
    [status |-> 200, page |-> page, dir |-> dir, entries |-> entries,
     breadcrumbs |-> Breadcrumbs(dir, texts)]

(* The directory that rclone is asked for.  Without its path the URL is     *)
(* that of rclone's list of remotes.                                        *)
Asked == JoinPath(request.dir)

DirPages ==
    IF Asked = <<>> /\ request.dir # <<>> THEN {[status |-> 200, page |-> "remotes"]}
    ELSE IF Exists(Asked)
      THEN {convertRcloneInfo("dir", Asked, <<Home>> \o Asked, entries) :
              entries \in GetDirInfo(ListingOf(Asked), request.sort, request.order)}
    ELSE {convertRcloneInfo("not found", request.dir, <<Home, Unknown>>, <<>>)}

handleUI == Handles("ui") /\ \E page \in DirPages : Responds(page)

handleDir ==
    /\ Handles("dir")
    /\ \E page \in DirPages :
         Responds(IF page.page = "not found" THEN Error(404) ELSE page)

-----------------------------------------------------------------------------
(* Files and thumbnails *)

(* ProxyFileRequest: rclone's answer, whose time and size must be the id's. *)
handleFile ==
    /\ Handles("file")
    /\ Responds(IF \E e \in remote : ~e.isDir /\ FileID(e) = request.id
                  THEN [status |-> 200, page |-> "file", ext |-> GetExt(request.id)]
                ELSE IF \E e \in remote : ~e.isDir /\ PathOf(e) = Append(request.id.dir, request.id.name)
                  THEN Error(500)
                ELSE Error(404))

handleThumbnail ==
    /\ Handles("thumbnail")
    /\ Responds([status |-> 200, page |-> "thumbnail",
                 ext |-> GetExt(ThumbnailID(request.id, request.size))])

-----------------------------------------------------------------------------
(* Search *)

(* GetAllFiles: every path with a slash in front, and one behind it for     *)
(* directories.                                                             *)
PathText(e) ==
    LET path == PathOf(e)
        text[k \in 0..Len(path)] ==
            IF k = 0 THEN <<>> ELSE text[k - 1] \o <<Slash>> \o path[k]
    IN  text[Len(path)] \o (IF e.isDir THEN <<Slash>> ELSE <<>>)

GetAllFiles ==
    {[path |-> PathText(e), isDir |-> e.isDir, modTime |-> e.modTime,
      size |-> IF e.isDir THEN 0 ELSE e.size] : e \in remote}

(* path.Clean, Dir and Base of a hit's path.                                *)
Elements(path) ==
    LET names[k \in 0..Len(path)] ==
            IF k = 0 THEN <<>>
            ELSE LET before == names[k - 1]
                 IN  IF path[k] = Slash THEN before
                     ELSE IF k = 1 \/ path[k - 1] = Slash THEN Append(before, <<path[k]>>)
                     ELSE Append(Front(before), Append(Last(before), path[k]))
    IN  names[Len(path)]

HitEntry(hit) ==
    LET names == Elements(hit.entry.path)
    IN  [dir |-> Front(names), name |-> Last(names), isDir |-> hit.entry.isDir,
         modTime |-> hit.entry.modTime, size |-> hit.entry.size]

handleSearch ==
    /\ Handles("search")
    /\ \E found \in Search(newPrefixIndex(GetAllFiles), request.search, request.limit) :
         Responds(IF found.panic THEN Aborted
                  ELSE IF request.ui /\ found.hits = <<>> THEN [status |-> 204, page |-> "empty"]
                  ELSE [status |-> 200, page |-> "search", hits |-> found.hits, total |-> found.total])

(* The page shows the hits like the entries of a directory, under their     *)
(* full paths.                                                              *)
handlePageWithSearchResults ==
    LET limit == IF request.limit \in {NotANumber, 0} THEN 100 ELSE request.limit
        ShownAs(hit) == [Listed(HitEntry(hit)) EXCEPT !.path = hit.entry.path]
        Shown(hits) == [k \in DOMAIN hits |-> ShownAs(hits[k])]
    IN  /\ Handles("search page")
        /\ \E found \in Search(newPrefixIndex(GetAllFiles), request.search, limit) :
             Responds(IF found.panic THEN Aborted
                      ELSE convertRcloneInfo("search page", <<SearchResults>>,
                                             <<Home, SearchResults>>, Shown(found.hits)))

-----------------------------------------------------------------------------
(* The browser *)

Page(pages) == response.page \in pages

Follows(req, prom) ==
    /\ request' = req
    /\ promise' = prom
    /\ response' = Nothing
    /\ UNCHANGED <<cfg, remote>>

UI(dir) == [handler |-> "ui", dir |-> dir, sort |-> "", order |-> ""]

(* A breadcrumb stands for the directory that the texts up to it name; the  *)
(* second one of a missing directory and of search results names none.      *)
FollowBreadcrumb ==
    /\ Page({"dir", "not found", "search page"})
    /\ \E k \in DOMAIN response.breadcrumbs :
         LET texts == [n \in 1..k |-> response.breadcrumbs[n].text]
         IN  Follows(UI(response.breadcrumbs[k].link),
                     IF Page({"dir"}) \/ k = 1
                       THEN Promise(Tail(texts), <<>>, response.dir) ELSE NoPromise)

FollowDir ==
    /\ Page({"dir", "search page"})
    /\ \E k \in DOMAIN response.entries :
         /\ response.entries[k].isDir
         /\ LET dir == PathOf(response.entries[k].of)
            IN  Follows(UI(JoinPath(dir)), Promise(dir, <<>>, dir))

(* The links of a file, and the image of its preview: fileIDToURL joins     *)
(* what GetEscapedPath has escaped.                                         *)
FollowFile ==
    /\ Page({"dir", "search page"})
    /\ \E k \in DOMAIN response.entries :
         LET e == response.entries[k].of
             id == FileID(e)
         IN  /\ ~e.isDir
             /\ \/ Follows([handler |-> "file", id |-> id], Promise(e.dir, e.name, <<>>))
                \/ /\ IsImage(id) /\ CanPreview(id)
                   /\ ImageOffer(id) = "thumbnail"
                   /\ \E size \in {"small", "medium", "large"} :
                        Follows([handler |-> "thumbnail", id |-> id, size |-> size],
                                Promise(e.dir, e.name, <<>>))

(* A hit leads to its directory, where its file is previewed.               *)
FollowHit ==
    /\ Page({"search"})
    /\ \E k \in DOMAIN response.hits :
         LET e == HitEntry(response.hits[k])
             dir == IF e.isDir THEN PathOf(e) ELSE e.dir
         IN  \E x \in remote :
               /\ PathText(x) = response.hits[k].entry.path
               /\ Follows(UI(JoinPath(dir)),
                          IF x.isDir THEN Promise(PathOf(x), <<>>, dir) ELSE Promise(x.dir, x.name, dir))

(* The browser stops anywhere, but not before it has got a response.        *)
Leave == response # Nothing /\ UNCHANGED vars

Next ==
    \/ handleUI \/ handleDir \/ handleFile \/ handleThumbnail
    \/ handleSearch \/ handlePageWithSearchResults
    \/ BadRequest \/ Fails
    \/ FollowBreadcrumb \/ FollowDir \/ FollowFile \/ FollowHit
    \/ Leave

Spec == Init /\ [][Next]_vars

-----------------------------------------------------------------------------
(* Properties of pages *)

(* A link to a directory has been followed, and rclone has not failed.      *)
LinkOpened == promise.made /\ request.handler = "ui" /\ ~Page({"none", "failed"})

(* The page that opens exists, is the directory the link stands for, and    *)
(* has the file to preview on it.                                           *)
LeadsThere ==
    /\ response.page = "dir"
    /\ response.dir = promise.dir
    /\ promise.file # <<>> =>
         \E k \in DOMAIN response.entries : response.entries[k].path = promise.file

NoPercent(names) == \A k \in DOMAIN names : ~Contains(names[k], Percent)

(* What leads elsewhere: a link joined from a name with a percent sign,     *)
(* since these names are not escaped, as the comment of GetEscapedPath says *)
(* they should be; and the "link to Home" on the page of a directory that   *)
(* does not exist, which is that of its parent.                             *)
Misled ==
    \/ ~NoPercent(promise.joined)
    \/ Len(promise.joined) > 1 /\ ~Exists(JoinPath(promise.joined))

(* Breadcrumbs, the directories on a page and the results of a search lead  *)
(* where they say.  Excepted are links joined from a name with a percent    *)
(* sign, and Home on the page of a missing directory below the first level. *)
LinksLead == LinkOpened /\ ~Misled => LeadsThere

(* Files and thumbnails that a page offers are not refused, and the images  *)
(* of previews are in formats that browsers show.  An empty image is        *)
(* offered, and refused; originals are shown in the format they have.       *)
OfferedOpens ==
    promise.made /\ request.handler \in {"file", "thumbnail"} /\ ~Page({"none", "failed"}) =>
      \/ response.status = 200 /\ (request.handler = "thumbnail" => response.ext \in BrowserExts)
      \/ request.handler = "thumbnail" /\ request.id.size = 0

(* Two images on a page share a thumbnail in the cache only if they have    *)
(* the same time and size, and the name of one begins with the name of the  *)
(* other, as it does when that name has an extension more.                  *)
OnlyTwinsShare ==
    Page({"dir"}) =>
      \A j, k \in DOMAIN response.entries :
        LET Id(n) == FileID(response.entries[n].of)
            Image(n) == ~response.entries[n].isDir /\ Accepts(Id(n))
        IN  j # k /\ Image(j) /\ Image(k) =>
              \A size \in {"small", "medium"} :
                ThumbnailID(Id(j), size) = ThumbnailID(Id(k), size) =>
                  \/ IsStrictPrefix(Id(j).name, Id(k).name)
                  \/ IsStrictPrefix(Id(k).name, Id(j).name)

AllPlain(entries) == \A k \in DOMAIN entries : Plain(entries[k].of.name)

AllComparable(entries) ==
    \A j, k \in DOMAIN entries : Comparable(entries[j].of.name, entries[k].of.name)

(* Directories first, then character by character with numbers by their     *)
(* value.                                                                   *)
IsNatural(entries) ==
    \A j, k \in DOMAIN entries : j < k =>
      /\ entries[k].isDir => entries[j].isDir
      /\ entries[j].isDir = entries[k].isDir =>
           ~NaturallyBefore(entries[k].of.name, entries[j].of.name)

ListedByName == Page({"dir"}) /\ SortName(request.sort) = "namedirfirst"

InOrder(entries) == IF request.order = "desc" THEN Reverse(entries) ELSE entries

(* A listing by name is in natural order, leading zeros or not: numbers     *)
(* below the largest int go by their value, whatever their length and place.*)
(* Excepted are listings with two names that have the same number with more *)
(* leading zeros in one, and then first differ in a character or the end:   *)
(* compareStrings puts 01b before 1a, and 01a and 1aa in any order.         *)
ListingIsNatural ==
    ListedByName /\ AllPlain(response.entries) /\ AllComparable(response.entries) =>
      IsNatural(InOrder(response.entries))

(* The order of a listing does not depend on the order in which rclone has  *)
(* sent the entries, or on the sorting algorithm: only names that are as    *)
(* long, and differ in case or in where they have leading zeros, may change *)
(* places.  The exception is that of ListingIsNatural.                      *)
ListingDetermined ==
    Page({"dir"}) /\ AllPlain(response.entries) /\ AllComparable(response.entries) =>
      \A other \in GetDirInfo(ListingOf(response.dir), request.sort, request.order) :
        \A k \in DOMAIN other :
          /\ other[k].isDir = response.entries[k].isDir
          /\ SameReading(other[k].of.name, response.entries[k].of.name)

-----------------------------------------------------------------------------
(* Properties of searches, against the terms the search was written from    *)

(* The text in lower case, without the characters that are neither letters, *)
(* digits nor separators.                                                   *)
Bare(path) ==
    LET bare[k \in 0..Len(path)] ==
            IF k = 0 THEN <<>>
            ELSE IF isDigit(path[k]) \/ IsLetter(path[k]) \/ IsSeparator(path[k])
                   THEN Append(bare[k - 1], Lower(path[k]))
            ELSE bare[k - 1]
    IN  bare[Len(path)]

WordBegins(text, letters) ==
    \E k \in 0..(Len(text) - Len(letters)) :
      /\ SubSeq(text, k + 1, k + Len(letters)) = letters
      /\ k = 0 \/ IsSeparator(text[k])

(* Does a word of the path begin with these letters?                        *)
BeginsWord(path, letters) == WordBegins(Bare(path), letters)

(* The terms: words in their order, parts of text to have and not to have.  *)
WordsOf(terms) ==
    LET long == SelectSeq(terms, LAMBDA t : t.kind = "word" /\ Len(t.text) >= MinPrefixLen)
    IN  [k \in DOMAIN long |-> long[k].text]

PartsOf(terms, kind) == {t.text : t \in {x \in ToSet(terms) : x.kind = kind}}

Words == WordsOf(request.terms)

Parts(kind) == PartsOf(request.terms, kind)

Matches(e) ==
    /\ \A k \in DOMAIN Words : BeginsWord(PathText(e), SubSeq(Words[k], 1, MinPrefixLen))
    /\ \A text \in Parts("exact") : StringsContains(ToLower(PathText(e)), text)
    /\ \A text \in Parts("exclude") : ~StringsContains(ToLower(PathText(e)), text)

AllMatches ==
    IF Words = <<>> /\ Parts("exact") = {} /\ Parts("exclude") = {} THEN {}
    ELSE {e \in remote : Matches(e)}

(* How much of the words the path has: the lengths of the longest parts.    *)
Longest(e, word) ==
    Max({0} \cup {len \in MinPrefixLen..Min({MaxPrefixLen, Len(word)}) :
                   BeginsWord(PathText(e), SubSeq(word, 1, len))})

Likeness(e) ==
    LET sum[k \in 0..Len(Words)] == IF k = 0 THEN 0 ELSE sum[k - 1] + Longest(e, Words[k])
    IN  sum[Len(Words)]

(* Is the search read as the terms it was written from?                     *)
ReadAs(text, terms) ==
    newSearchRequest(text) = [words |-> WordsOf(terms), exactMatches |-> PartsOf(terms, "exact"),
                              toExclude |-> PartsOf(terms, "exclude")]

(* Remotes whose paths are those of one entry each; directories have no     *)
(* size.                                                                    *)
OnePathEach(R) ==
    \A e \in R :
      /\ e.isDir => e.size = 0
      /\ \A d \in R : PathOf(d) = PathOf(e) /\ d.isDir = e.isDir => d = e

Under(e, d) == d.isDir /\ IsStrictPrefix(PathOf(d), PathOf(e))

(* A directory stands for what lies under it and matches as well.           *)
StandsFor(d, e) == d = e \/ (Under(e, d) /\ Likeness(d) = Likeness(e))

Returned == {HitEntry(response.hits[k]) : k \in DOMAIN response.hits}

(* A search finds what its terms say and nothing else, a directory standing *)
(* for what lies under it and matches as well: no result lies under another *)
(* one that stands for it, total counts the results there would be without  *)
(* a limit, and without a cut they are all there.                           *)
SearchFindsExactly ==
    Page({"search"}) =>
      LET expected == {e \in AllMatches : \A d \in AllMatches : StandsFor(d, e) => d = e}
      IN  /\ Returned \subseteq expected
          /\ response.total = Cardinality(expected)
          /\ response.total <= request.limit => Returned = expected

(* The best matches come first, and a limit never cuts a match that is      *)
(* better than one it keeps.                                                *)
BestFirst ==
    Page({"search"}) =>
      /\ \A j, k \in DOMAIN response.hits :
           j < k => Likeness(HitEntry(response.hits[j])) >= Likeness(HitEntry(response.hits[k]))
      /\ response.hits # <<>> =>
           \A e \in AllMatches :
             \/ \E d \in Returned : StandsFor(d, e)
             \/ \A d \in Returned : Likeness(d) >= Likeness(e)

=============================================================================
