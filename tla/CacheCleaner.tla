---------------------------- MODULE CacheCleaner ----------------------------
(***************************************************************************)
(* The goroutine that keeps a disk cache under its size limit: Cleaner in   *)
(* pkg/cache/cleaner.go.  A round walks the directory file by file, picks   *)
(* the oldest files until the rest is below the limit, and removes them by  *)
(* path, while the thumbnail workers write and remove files of their own.   *)
(*                                                                          *)
(* The cache directory holds one directory per month and those the files    *)
(* (DiskCache.generateFilepath).  The order in which filepath.Walk visits   *)
(* them depends on the names alone and is arbitrary here.                   *)
(***************************************************************************)
EXTENDS Integers, FiniteSets, FiniteSetsExt, Functions, SequencesExt

CONSTANTS
    Months,             (* the directories                                   *)
    FilesOf,            (* the paths in each of them                         *)
    maxTotalFileSize,
    MaxSize,            (* bound on the size of a file                       *)
    MaxEvents,          (* bound on the writes and removals of the workers   *)
                        (* and on the errors of the cleaner                  *)
    Events              (* what may happen: "remove", "io", "shutdown"       *)

Paths == UNION {FilesOf[m] : m \in Months}

ASSUME CleanerAssumption ==
    /\ FilesOf \in [Months -> SUBSET Paths]
    /\ \A m, n \in Months : m # n => FilesOf[m] \cap FilesOf[n] = {}
    /\ IsFiniteSet(Paths)
    /\ maxTotalFileSize \in Nat
    /\ MaxSize \in Nat \ {0}
    /\ MaxEvents \in Nat
    /\ Events \subseteq {"remove", "io", "shutdown"}

VARIABLES
    files,       (* what is on disk: path -> size and modification time      *)
    made,        (* the months whose directory has been created              *)
    clock,       (* the number of these events so far                        *)
    pc,          (* where the goroutine is                                   *)
    months,      (* the directories and                                      *)
    names,       (* the names still to be visited by Walk                    *)
    allFiles,    (* the files Walk has found                                 *)
    victims,     (* filesToRemove                                            *)
    ticked,      (* is there a tick in the ticker's channel?                 *)
    stopped,     (* is stopCh closed?                                        *)
    shutdownPc,
    quiet        (* history: no event since the round began                  *)

walkVars == <<months, names, allFiles>>
vars == <<files, made, clock, pc, walkVars, victims, ticked, stopped, shutdownPc, quiet>>

Total(f) == MapThenSumSet(LAMBDA p : f[p].size, DOMAIN f)

NoFiles == [p \in {} |-> 0]

(* NewCleaner starts the goroutine; the months are there from earlier runs, *)
(* with what they have left, or not at all.                                 *)
Init ==
    /\ made \in SUBSET Months
    /\ files \in UNION {[P -> [size : 1..MaxSize, modTime : {0}]]
                          : P \in SUBSET UNION {FilesOf[m] : m \in made}}
    /\ clock = 0
    /\ pc = "start"
    /\ months = {} /\ names = {} /\ allFiles = NoFiles
    /\ victims = <<>>
    /\ ticked = FALSE
    /\ stopped = FALSE
    /\ shutdownPc = "none"
    /\ quiet = TRUE

(* One of the bounded events happens.                                       *)
Disturb ==
    /\ clock < MaxEvents
    /\ clock' = clock + 1
    /\ quiet' = FALSE

-----------------------------------------------------------------------------
(* loadAllFiles *)

(* Walk reads the names in the cache directory, which is not there before   *)
(* the first file is.                                                       *)
ReadRoot ==
    /\ pc = "start"
    /\ quiet' = TRUE
    /\ allFiles' = NoFiles
    /\ names' = {}
    /\ months' = made
    /\ pc' = IF made = {} THEN "notExist" ELSE "walk"
    /\ UNCHANGED <<files, made, clock, victims, ticked, stopped, shutdownPc>>

ReadMonth(m) ==
    /\ pc = "walk" /\ names = {}
    /\ m \in months
    /\ months' = months \ {m}
    /\ names' = FilesOf[m] \cap DOMAIN files
    /\ UNCHANGED <<files, made, clock, pc, allFiles, victims, ticked, stopped, shutdownPc, quiet>>

(* Lstat of one name.  Walk hands the error of a file that is gone to the   *)
(* callback, which returns it: the walk ends with os.ErrNotExist.           *)
VisitFile(p) ==
    /\ pc = "walk"
    /\ p \in names
    /\ names' = names \ {p}
    /\ IF p \in DOMAIN files
         THEN /\ allFiles' = [q \in DOMAIN allFiles \cup {p} |->
                                IF q = p THEN files[p] ELSE allFiles[q]]
              /\ UNCHANGED pc
         ELSE pc' = "notExist" /\ UNCHANGED allFiles
    /\ UNCHANGED <<files, made, clock, months, victims, ticked, stopped, shutdownPc, quiet>>

(* Any other error of the walk: the round ends.                             *)
WalkFails ==
    /\ "io" \in Events /\ Disturb
    /\ pc = "walk"
    /\ pc' = "wait"
    /\ UNCHANGED <<files, made, walkVars, victims, ticked, stopped, shutdownPc>>

(* os.ErrNotExist: no files and no error, so nothing to remove.             *)
NotExist ==
    /\ pc = "notExist"
    /\ pc' = "wait"
    /\ UNCHANGED <<files, made, clock, walkVars, victims, ticked, stopped, shutdownPc, quiet>>

-----------------------------------------------------------------------------
(* getFilesToRemove *)

(* slices.SortFunc by modTime; files of the same age stay in any order.     *)
Sorted(s) ==
    \A i, j \in DOMAIN s : i < j => allFiles[s[i]].modTime <= allFiles[s[j]].modTime

SizeOf(S) == Total(Restrict(allFiles, S))

(* What the loop has left over after i files.                               *)
Left(s, i) == SizeOf({s[j] : j \in (i + 1)..Len(s)})

SeededOneLess(s) ==
    LET enough == {i \in 1..Len(s) : Left(s, i) < maxTotalFileSize}
    IN  IF enough = {} THEN Len(s) ELSE Min(enough) - 1

SeededOneMore(s) ==
    LET enough == {i \in 1..Len(s) : Left(s, i) < maxTotalFileSize}
    IN  IF enough = {} \/ Min(enough) = Len(s) THEN Len(s) ELSE Min(enough) + 1

(* The first i at which the rest is below the limit, or all files.          *)
Index(s) ==
    LET enough == {i \in 1..Len(s) : Left(s, i) < maxTotalFileSize}
    IN  IF enough = {} THEN Len(s) ELSE Min(enough)

FilesToRemove ==
    IF SizeOf(DOMAIN allFiles) < maxTotalFileSize
      THEN {<<>>}
      ELSE {SubSeq(s, 1, Index(s)) : s \in {t \in SetToSeqs(DOMAIN allFiles) : Sorted(t)}}

GetFilesToRemove ==
    /\ pc = "walk" /\ months = {} /\ names = {}
    /\ victims' \in FilesToRemove
    /\ pc' = IF victims' = <<>> THEN "wait" ELSE "remove"
    /\ UNCHANGED <<files, made, clock, walkVars, ticked, stopped, shutdownPc, quiet>>

-----------------------------------------------------------------------------
(* removeFiles, and the loop around the rounds *)

(* os.Remove of the next path, whatever is there now.  An error, such as a  *)
(* file that is gone already, is logged and the loop goes on.               *)
RemoveNext ==
    /\ pc = "remove"
    /\ \/ files' = Restrict(files, DOMAIN files \ {Head(victims)}) /\ UNCHANGED <<clock, quiet>>
       \/ "io" \in Events /\ Disturb /\ UNCHANGED files
    /\ victims' = Tail(victims)
    /\ pc' = IF Len(victims) = 1 THEN "wait" ELSE "remove"
    /\ UNCHANGED <<made, walkVars, ticked, stopped, shutdownPc>>

(* The select: another round, or the end.  With both channels ready either  *)
(* is taken.                                                                *)
NextRound ==
    /\ pc = "wait"
    /\ ticked
    /\ ticked' = FALSE
    /\ pc' = "start"
    /\ UNCHANGED <<files, made, clock, walkVars, victims, stopped, shutdownPc, quiet>>

SeededStop == FALSE

SeesStop == stopped

Stop ==
    /\ pc = "wait"
    /\ SeesStop
    /\ pc' = "finished"
    /\ UNCHANGED <<files, made, clock, walkVars, victims, ticked, stopped, shutdownPc, quiet>>

(* The ticker drops ticks while one is waiting in its channel.              *)
Tick ==
    /\ pc # "finished"
    /\ ~ticked
    /\ ticked' = TRUE
    /\ UNCHANGED <<files, made, clock, pc, walkVars, victims, stopped, shutdownPc, quiet>>

BeginShutdown ==
    /\ "shutdown" \in Events
    /\ shutdownPc = "none"
    /\ shutdownPc' = "waiting"
    /\ stopped' = TRUE
    /\ UNCHANGED <<files, made, clock, pc, walkVars, victims, ticked, quiet>>

SeededNoWait == TRUE

CleanupFinished == pc = "finished"

ShutdownOk ==
    /\ shutdownPc = "waiting"
    /\ CleanupFinished
    /\ shutdownPc' = "ok"
    /\ UNCHANGED <<files, made, clock, pc, walkVars, victims, ticked, stopped, quiet>>

(* The context of Shutdown expires while a round is going on.               *)
ShutdownExpired ==
    /\ shutdownPc = "waiting"
    /\ shutdownPc' = "expired"
    /\ UNCHANGED <<files, made, clock, pc, walkVars, victims, ticked, stopped, quiet>>

-----------------------------------------------------------------------------
(* The workers, as far as the cleaner can see *)

(* GetFilepath, create and write: a file appears or is written anew.        *)
Write(m, p, s) ==
    /\ Disturb
    /\ made' = made \cup {m}
    /\ files' = [q \in DOMAIN files \cup {p} |->
                   IF q = p THEN [size |-> s, modTime |-> clock + 1] ELSE files[q]]
    /\ UNCHANGED <<pc, walkVars, victims, ticked, stopped, shutdownPc>>

(* A failed write or a failed thumbnail removes its file.                   *)
RemoveFailed(p) ==
    /\ "remove" \in Events /\ Disturb
    /\ p \in DOMAIN files
    /\ files' = Restrict(files, DOMAIN files \ {p})
    /\ UNCHANGED <<made, pc, walkVars, victims, ticked, stopped, shutdownPc>>

Cleanup ==
    \/ ReadRoot
    \/ \E m \in Months : ReadMonth(m)
    \/ \E p \in Paths : VisitFile(p)
    \/ WalkFails \/ NotExist \/ GetFilesToRemove \/ RemoveNext \/ NextRound \/ Stop

Next ==
    \/ Cleanup
    \/ Tick
    \/ BeginShutdown \/ ShutdownOk \/ ShutdownExpired
    \/ \E m \in Months, s \in 1..MaxSize : \E p \in FilesOf[m] : Write(m, p, s)
    \/ \E p \in Paths : RemoveFailed(p)

Spec == Init /\ [][Next]_vars

(* The goroutine runs, the ticker ticks, and a select that finds stopCh     *)
(* closed time and again takes it in the end: Go chooses at random.         *)
Fairness == WF_vars(Cleanup) /\ WF_vars(Tick) /\ SF_vars(Stop)

FairSpec == Spec /\ Fairness

-----------------------------------------------------------------------------
(* Properties *)

Pcs == {"start", "walk", "notExist", "remove", "wait", "finished"}

FileRecords == [size : 1..MaxSize, modTime : 0..MaxEvents]

(* Every variable keeps its type.                                           *)
TypeOK ==
    /\ files \in UNION {[P -> FileRecords] : P \in SUBSET Paths}
    /\ allFiles \in UNION {[P -> FileRecords] : P \in SUBSET Paths}
    /\ made \subseteq Months /\ months \subseteq made
    /\ clock \in 0..MaxEvents
    /\ pc \in Pcs
    /\ names \subseteq Paths
    /\ victims \in UNION {[1..n -> Paths] : n \in 0..Cardinality(Paths)}
    /\ {ticked, stopped, quiet} \subseteq BOOLEAN
    /\ shutdownPc \in {"none", "waiting", "ok", "expired"}

Removed == DOMAIN files \ DOMAIN files'

(* In an undisturbed round the cleaner takes a file only as long as the     *)
(* cache is at its limit, so that it never removes more than it has to, and *)
(* no older file outlives a removed one ("Remove old files first"),         *)
(* whatever order files of one age are sorted in.                           *)
RemovesOldestExcess ==
    [][RemoveNext /\ Removed # {} =>
         /\ quiet => ~(Total(files) < maxTotalFileSize)
         /\ quiet' => \A p \in Removed, q \in DOMAIN files' : files[p].modTime <= files[q].modTime]_vars

BelowLimit == Total(files) < maxTotalFileSize \/ files = NoFiles

(* Once Shutdown has returned without an error the cleaner removes nothing  *)
(* any more, although a tick may be waiting and a round was going on.       *)
QuietAfterShutdown ==
    [][shutdownPc = "ok" /\ clock' = clock => UNCHANGED files]_vars

(* Once the workers are quiet and removals succeed the cache goes below its *)
(* limit and stays there, also after rounds that failed, were cut short or  *)
(* worked on old sizes, unless the cleaner is stopped before.               *)
LimitReached == <>[](BelowLimit \/ stopped)

(* The goroutine ends once stopCh is closed, though it looks at it between  *)
(* rounds only and may prefer the ticker.                                   *)
CleanupEnds == stopped ~> pc = "finished"

=============================================================================
