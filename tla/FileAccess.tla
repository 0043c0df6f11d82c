----------------------------- MODULE FileAccess -----------------------------
(***************************************************************************)
(* Reading a file that a listing has offered: Rclone.ProxyFileRequest,      *)
(* OpenFile and RequestFileRange (rclone/rclone.go), as handleFile and the  *)
(* thumbnail service use them.  The link of a file carries the modification *)
(* time and the size the listing had; the listing may be old, and the file  *)
(* may change between two requests for it.                                  *)
(*                                                                          *)
(* Each directory has one file, whose version is the directory's content.   *)
(***************************************************************************)
EXTENDS DirCache

CONSTANT Readers    (* the calls whose listing is used to read the file      *)

ASSUME ReadersAssumption == Readers \subseteq Calls

VARIABLES
    rpc,            (* of each reader: what it has come to,                  *)
    pieces          (* and the versions that what it has read is made of     *)

fileVars == <<rpc, pieces>>
allVars == <<vars, fileVars>>

(* Changes touch the time and the size in turn: a version differs from its  *)
(* neighbours in one of them.                                               *)
ModTime(v) == v \div 2
Size(v) == (v + 1) \div 2

(* The file's id is the listed one; v is the version rclone answers with.   *)
checkModTime(c, v) == ModTime(v) = ModTime(info[c])

(* checkContentLength, and checkContentRange, which looks at the size of    *)
(* the whole file too.                                                      *)
checkSize(c, v) == Size(v) = Size(info[c])

FileInit ==
    /\ Init
    /\ rpc = [c \in Readers |-> "idle"]
    /\ pieces = [c \in Readers |-> {}]

(* rclone answers with the file as it is now.                               *)
Answer(c) == content[dir[c]]

Reads(c, place, v) ==
    /\ rpc' = [rpc EXCEPT ![c] = place]
    /\ pieces' = [pieces EXCEPT ![c] = @ \cup {v}]

Refuses(c) == rpc' = [rpc EXCEPT ![c] = "refused"] /\ UNCHANGED pieces

ReadsChecked(c, place) ==
    IF checkModTime(c, Answer(c)) /\ checkSize(c, Answer(c))
      THEN Reads(c, place, Answer(c)) ELSE Refuses(c)

Follows(c) == pc[c] = "done" /\ rpc[c] = "idle"

(* handleFile: the whole file is proxied.                                   *)
ProxyFileRequest(c) == Follows(c) /\ ReadsChecked(c, "proxied")

(* The browser asks for a range: only responses of status 200 are checked.  *)
ProxyRange(c) == Follows(c) /\ Reads(c, "range", Answer(c))

(* openImage: the original goes to the cache, or to exiftool as a whole.    *)
OpenFile(c) == Follows(c) /\ ReadsChecked(c, "opened")

(* extractPreviewFromRawImage: the head of the file says where the preview  *)
(* is, a second request gets it.                                            *)
RequestHeader(c) == Follows(c) /\ ReadsChecked(c, "header")

SeededUncheckedPreview(c) == rpc[c] = "header" /\ Reads(c, "opened", Answer(c))

RequestPreview(c) == rpc[c] = "header" /\ ReadsChecked(c, "opened")

(* rclone or exiftool fails.                                                *)
ReadFails(c) ==
    /\ Failures
    /\ Follows(c) \/ rpc[c] = "header"
    /\ Refuses(c)

ReadStep(c) ==
    \/ ProxyFileRequest(c) \/ ProxyRange(c) \/ OpenFile(c)
    \/ RequestHeader(c) \/ RequestPreview(c) \/ ReadFails(c)

FileNext ==
    \/ Next /\ UNCHANGED fileVars
    \/ (\E c \in Readers : ReadStep(c)) /\ UNCHANGED vars

FileSpec == FileInit /\ [][FileNext]_allVars

(* As in DirCache.                                                          *)
FairFileSpec ==
    FileSpec /\ \A c \in Calls : WF_allVars(CallStep(c) /\ UNCHANGED <<ttl, fileVars>>)

-----------------------------------------------------------------------------
(* Properties *)

(* A file that is delivered whole, and an original or a RAW preview that is *)
(* stored under the listed id, is of the listed version and of no other,    *)
(* however old the listing is and whenever the file changes.                *)
ReadAsListed ==
    \A c \in Readers : rpc[c] \in {"proxied", "opened"} => pieces[c] = {info[c]}

=============================================================================
