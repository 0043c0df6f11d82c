----------------------------- MODULE MCWebServer -----------------------------
(* Small instances of WebServer for TLC: listings, previews and searches.   *)
EXTENDS WebServer

Config(mode, format, rawFiles) ==
    [mode |-> mode, format |-> format, rawFiles |-> rawFiles, threshold |-> 2]

Plainest == Config("none", "jpeg", FALSE)

Configs == {Config(mode, format, rawFiles) :
              mode \in {"none", "original", "thumbnails"}, format \in {"jpeg", "avif"}, rawFiles \in BOOLEAN}

Entry(dir, name, isDir, size, modTime) ==
    [dir |-> dir, name |-> Txt(name), isDir |-> isDir, size |-> size, modTime |-> modTime]

File(name) == Entry(<<>>, name, FALSE, 3, 1)
Dir(name) == Entry(<<>>, name, TRUE, 0, 1)

(* Listings of one to three of these, in every order.                        *)
Listable ==
    {File("a1"), File("a2"), File("A10"), File("a1b2"), File("a1b10"), File("2"),
     File("a-2"), File("a"), File("A"), File("1a"), File("120"), File("121"),
     File("01"), File("001"), File("01a"), File("1aa"), File("01b"), File("a002"), File("a01b2"), File("a001b10"),
     Entry(<<>>, "b", FALSE, 9, 0), Dir("a"), Dir("a 1"), Entry(<<>>, "b2", TRUE, 5, 2), Dir("b10")}

ListingCases ==
    {[cfg |-> Plainest, remote |-> S,
      request |-> [handler |-> "dir", dir |-> <<>>, sort |-> sort, order |-> order]] :
       S \in {{x, y, z} : x, y, z \in Listable}, sort \in {"", "size", "time"},
       order \in {"asc", "desc"}}

(* A tree with a file of every kind, browsed under every configuration.     *)
Sub == <<Txt("a b")>>
SubSub == <<Txt("a b"), Txt("c")>>

Tree ==
    {Dir("a b"), Dir("d"), Dir("d%20"), Dir("9%"), Entry(Sub, "c", TRUE, 0, 1), File("x.txt"), Entry(<<>>, "y", FALSE, 0, 1)}
      \cup {Entry(SubSub, name, FALSE, 3, 1) : name \in {"i.JPG", "i.heic", "i.heic.jpeg"}}

Pictures ==
    {{Entry(<<>>, name, FALSE, size, 1), Entry(<<>>, "p.jpg", FALSE, 3, 1)} :
       name \in {"i.JPG", "i.png", "i.gif", "i.webp", "i.heic", "i.avif", "i.arw", "i.bmp", "i.mp3", "i.mkv",
                 "p.jpg.avif", "p.png", "p"},
       size \in {0, 1, 3}}

TreeCases ==
    {[cfg |-> c, remote |-> Tree, request |-> UI(dir)] :
       c \in Configs, dir \in {<<>>, Sub, <<Txt("no")>>, <<Txt("d"), Txt("no")>>}}
    \cup {[cfg |-> c, remote |-> P, request |-> UI(<<>>)] : c \in Configs, P \in Pictures}

(* Names with percent signs, in listings, breadcrumbs and searches.         *)
Percents == {Dir("a%20b"), Dir("100%"), Entry(<<Txt("a%20b")>>, "c", TRUE, 0, 1)}

PercentCases ==
    {[cfg |-> Plainest, remote |-> Percents, request |-> UI(dir)] :
       dir \in {<<>>, <<Txt("100%")>>, <<Txt("a%2520b")>>, <<Txt("a%2520b"), Txt("c")>>}}

(* Requests that no page offers.                                            *)
OddID == [dir |-> SubSub, name |-> Txt("i.JPG"), modTime |-> 1, size |-> 4]

OddCases ==
    {[cfg |-> Config("thumbnails", "jpeg", FALSE), remote |-> Tree, request |-> r] :
       r \in {[handler |-> "dir", dir |-> <<Txt("no")>>, sort |-> "", order |-> ""],
              [handler |-> "file", id |-> OddID],
              [handler |-> "file", id |-> [OddID EXCEPT !.name = Txt("no")]],
              [handler |-> "file", id |-> [OddID EXCEPT !.modTime = NotANumber]],
              [handler |-> "thumbnail", id |-> [OddID EXCEPT !.size = NotANumber], size |-> ""],
              [handler |-> "thumbnail", id |-> OddID, size |-> "huge"]}}

(* Searches of one or two terms in every part of a small remote.            *)
Term(kind, text) == [kind |-> kind, text |-> Txt(text)]

SomeTerms ==
    {Term("word", "ab"), Term("word", "abb"), Term("word", "ba"), Term("word", "a"),
     Term("exact", "b/"), Term("exact", "ab b"), Term("exclude", "abb"), Term("exclude", "b a")}

Written(t) ==
    CASE t.kind = "word" -> t.text
      [] t.kind = "exact" -> <<Quote>> \o t.text \o <<Quote>>
      [] t.kind = "exclude" ->
           IF Contains(t.text, Space) THEN <<Minus, Quote>> \o t.text \o <<Quote>> ELSE <<Minus>> \o t.text

WrittenAll(terms) ==
    IF Len(terms) = 1 THEN Written(terms[1]) ELSE Written(terms[1]) \o <<Space>> \o Written(terms[2])

(* The last quote of a search may be left out.                              *)
TextsOf(terms) ==
    {WrittenAll(terms)} \cup {TrimSuffix(WrittenAll(terms), <<Quote>>)}

Searchable ==
    {Dir("ab"), Dir("ab b"), Entry(<<Txt("ab")>>, "Abb", FALSE, 3, 1), Entry(<<Txt("ab")>>, "Abb.ba", FALSE, 3, 1),
     Entry(<<Txt("ab b")>>, "ab.ba", FALSE, 3, 1), File("ab&b")}

(* Remotes in which every entry has its directory.                          *)
Remotes == {S \in SUBSET Searchable : \A e \in S : e.dir = <<>> \/ \E d \in S : d.isDir /\ PathOf(d) = e.dir}

TermLists == SeqOf(SomeTerms, 2) \ {<<>>}

(* What the theorems about searches are about.                              *)
ASSUME SearchesAreRead == \A terms \in TermLists : \A text \in TextsOf(terms) : ReadAs(text, terms)

ASSUME RemotesAreSimple == \A R \in Remotes : OnePathEach(R)

SearchCases ==
    UNION {{[cfg |-> Plainest, remote |-> S,
             request |-> [handler |-> "search", search |-> text, terms |-> terms, limit |-> limit, ui |-> FALSE]] :
              S \in Remotes, text \in TextsOf(terms), limit \in {1, 2, 9}} :
             terms \in TermLists}

OtherSearches ==
    {[cfg |-> Plainest, remote |-> Searchable,
      request |-> [handler |-> handler, search |-> Txt(text), terms |-> <<Term("word", text)>>,
                   limit |-> limit, ui |-> TRUE]] :
       handler \in {"search", "search page"}, text \in {"a", "ab", "zz"}, limit \in {NotANumber, 0 - 1, 0, 2}}

MCCases == ListingCases \cup TreeCases \cup PercentCases \cup OddCases \cup SearchCases \cup OtherSearches

=============================================================================
