------------------------------ MODULE DiskCache ------------------------------
(***************************************************************************)
(* The files of rview's disk caches (pkg/cache/disk.go), seen through the   *)
(* operating system: a directory entry points at an inode, an open file     *)
(* keeps its inode when the entry is removed, and os.Create of an existing  *)
(* path truncates the inode in place, under everyone who has it open.       *)
(*                                                                          *)
(* A path is the cache file of one FileID.  generateFilepath builds it from *)
(* the modification time, the size and the hash of the FileID's path, so    *)
(* two FileIDs share a file exactly when they are equal; a path is named by *)
(* its id here.  Contents are kept only as far as a reader can tell them    *)
(* apart:                                                                   *)
(*   "torn"     created and not completely written                          *)
(*   "whole"    the complete and correct content                            *)
(*   "damaged"  complete, but computed from a torn source                   *)
(***************************************************************************)
EXTENDS Integers, FiniteSets

CONSTANTS
    Inodes,     (* the inodes the caches' directories may use   *)
    NoInode     (* a missing directory entry or a closed handle *)

ASSUME InodesAssumption == NoInode \notin Inodes

VARIABLES
    link,       (* link[p]: the inode the directory entry p points at *)
    data,       (* data[i]: what has been written to inode i          *)
    unremoved   (* history: the entries that could not be removed     *)

cacheVars == <<link, data, unremoved>>

Contents == {"torn", "whole", "damaged"}

CacheTypeOK(paths) ==
    /\ link \in [paths -> Inodes \cup {NoInode}]
    /\ data \in [Inodes -> Contents]
    /\ unremoved \in SUBSET paths

CacheInit(paths) ==
    /\ link = [p \in paths |-> NoInode]
    /\ data = [i \in Inodes |-> "torn"]
    /\ unremoved = {}

(* DiskCache.Open: a file that exists is a hit, whatever its content is.    *)
Cached(p) == link[p] # NoInode

(* What a reader of path p would get.                                       *)
Holds(p, content) == Cached(p) /\ data[link[p]] = content

(* The inodes a new file may get: neither linked nor held open.             *)
FreeInodes(held) == Inodes \ (held \cup {link[p] : p \in DOMAIN link})

(* The inode os.Create hands out: the existing one, or a free one.          *)
CreatedInode(p, held) ==
    IF Cached(p) THEN link[p] ELSE CHOOSE i \in FreeInodes(held) : TRUE

(* os.Create, in DiskCache.Write and for the files the thumbnail service    *)
(* writes itself; held are the inodes that are open.  Whoever instantiates  *)
(* the module provides enough inodes for the guard never to fail.           *)
CreateFile(p, held) ==
    /\ Cached(p) \/ FreeInodes(held) # {}
    /\ link' = [link EXCEPT ![p] = CreatedInode(p, held)]
    /\ data' = [data EXCEPT ![CreatedInode(p, held)] = "torn"]
    /\ unremoved' = unremoved \ {p}

(* The last write through a handle on inode i.                              *)
FillFile(i, content) ==
    /\ data' = [data EXCEPT ![i] = content]
    /\ UNCHANGED <<link, unremoved>>

(* os.Remove: DiskCache.Remove, the clean-up of a failed DiskCache.Write    *)
(* and the cleaner.  Handles keep the inode; a missing entry is only logged.*)
RemoveFile(p) ==
    /\ link' = [link EXCEPT ![p] = NoInode]
    /\ data' = data
    /\ unremoved' = unremoved \ {p}

(* os.Remove fails: the error is only logged, and the file stays.           *)
RemoveFails(p) ==
    /\ Cached(p)
    /\ unremoved' = unremoved \cup {p}
    /\ UNCHANGED <<link, data>>

==============================================================================
