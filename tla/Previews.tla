------------------------------ MODULE Previews ------------------------------
(***************************************************************************)
(* Which files are offered with a preview (web/web.go, rview/file_types.go) *)
(* and what the thumbnail service makes of them (thumbnails/service.go,     *)
(* noop.go).  A file id is the file's path, modification time and size; the *)
(* path's last element is enough here.                                      *)
(***************************************************************************)
EXTENDS Text

VARIABLE cfg    (* the configuration: mode, format, rawFiles, threshold      *)

Exts(strs) == {Txt(str) : str \in strs}

JpegExts == Exts({".jpg", ".jpeg"})
RawExts == Exts({".arw", ".rw2", ".nef", ".cr3"})
ResizedExts == JpegExts \cup Exts({".png", ".webp", ".heic", ".avif"})
BrowserExts == JpegExts \cup Exts({".png", ".gif", ".webp", ".avif"})

(* A dot and no other one.                                                  *)
IsExt(ext) ==
    ext \in Seq(Nat) /\ ext # <<>> /\ \A k \in 1..Len(ext) : ext[k] = Dot <=> k = 1

ASSUME ExtsAssumption ==
    \A ext \in RawExts \cup ResizedExts \cup BrowserExts : IsExt(ext) /\ ToLower(ext) = ext

(* GetExt: the extension in lower case.                                     *)
GetExt(id) == ToLower(PathExt(id.name))

(* The map of extensions, with samples of the several hundred kinds of text.*)
GetFileType(ext) ==
    CASE ext \in ResizedExts \cup Exts({".bmp", ".gif", ".ico"}) -> "image"
      [] ext \in RawExts -> "raw_image"
      [] ext \in Exts({".flac", ".aif", ".mpa", ".wma", ".wpl", ".ogg", ".wav", ".mp3"}) -> "audio"
      [] ext \in Exts({".avi", ".mkv", ".mov", ".mpg", ".mpeg", ".mp4", ".webm"}) -> "video"
      [] ext \in Exts({".txt", ".cfg", ".m"}) -> "text"
      [] OTHER -> ""

getImageType(id) ==
    LET ext == GetExt(id)
    IN  CASE ext \in JpegExts -> "jpeg"
          [] ext = Txt(".png") -> "png"
          [] ext = Txt(".gif") -> "gif"
          [] ext = Txt(".webp") -> "webp"
          [] ext = Txt(".heic") -> "heic"
          [] ext = Txt(".avif") -> "avif"
          [] ext \in RawExts -> "raw"
          [] OTHER -> "unsupported"

-----------------------------------------------------------------------------
(* The thumbnail service; without thumbnails it is the no-op service.       *)

ThumbnailsEnabled == cfg.mode = "thumbnails"

CanGenerateThumbnail(id) ==
    /\ ThumbnailsEnabled
    /\ getImageType(id) # "unsupported"
    /\ getImageType(id) = "raw" => cfg.rawFiles

SeededHeicToo(id) ==
    getImageType(id) # "raw" /\ (getImageType(id) = "gif" \/ id.size < cfg.threshold)

shouldUseOriginalImage(id) ==
    \/ getImageType(id) = "gif"
    \/ getImageType(id) \notin {"gif", "heic", "raw"} /\ id.size < cfg.threshold

(* The extension to append; the empty one stands for "keep the format".     *)
getThumbnailExt(id) ==
    CASE cfg.format = "jpeg" /\ getImageType(id) \in {"png", "heic", "raw"} -> Txt(".jpeg")
      [] cfg.format = "avif" /\ getImageType(id) \in {"jpeg", "png", "heic", "raw"} -> Txt(".avif")
      [] OTHER -> <<>>

Suffix(size) ==
    IF size = "small" THEN Txt(".thumbnail-small")
    ELSE IF size = "large" THEN Txt(".thumbnail-large") ELSE Txt(".thumbnail-medium")

ASSUME SuffixAssumption == \A size \in {"small", "medium", "large"} : Suffix(size) \in Seq(Nat)

SeededNoFormat(id, size) ==
    [id EXCEPT !.name = TrimSuffix(@, PathExt(@)) \o Suffix(size) \o
                        (IF getThumbnailExt(id) = <<>> THEN PathExt(@) ELSE getThumbnailExt(id))]

(* The id of the thumbnail: time and size of the image, and another name.   *)
newThumbnailID(id, size) ==
    LET ext == PathExt(id.name)
    IN  [id EXCEPT !.name = IF getThumbnailExt(id) = <<>>
                              THEN TrimSuffix(@, ext) \o Suffix(size) \o ext
                              ELSE @ \o Suffix(size) \o getThumbnailExt(id)]

ThumbnailID(id, size) == IF shouldUseOriginalImage(id) THEN id ELSE newThumbnailID(id, size)

(* What OpenThumbnail accepts; the rest of it is the module Thumbnails.     *)
Accepts(id) == ThumbnailsEnabled /\ getImageType(id) # "unsupported" /\ id.size > 0

-----------------------------------------------------------------------------
(* What convertRcloneInfo offers for a file *)

(* Where the image of a preview comes from.                                 *)
ImageOffer(id) ==
    CASE cfg.mode = "none" -> "nothing"
      [] cfg.mode = "original" ->
           IF GetFileType(GetExt(id)) = "raw_image" THEN "nothing" ELSE "original"
      [] cfg.mode = "thumbnails" ->
           IF CanGenerateThumbnail(id) THEN "thumbnail" ELSE "nothing"

IsImage(id) == GetFileType(GetExt(id)) \in {"image", "raw_image"}

CanPreview(id) ==
    CASE IsImage(id) -> ImageOffer(id) # "nothing"
      [] GetFileType(GetExt(id)) = "audio" -> GetExt(id) \in Exts({".mp3", ".ogg", ".wav"})
      [] GetFileType(GetExt(id)) = "video" -> GetExt(id) \in Exts({".mp4", ".webm"})
      [] OTHER -> GetFileType(GetExt(id)) = "text"

=============================================================================
