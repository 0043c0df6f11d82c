----------------------------- MODULE Thumbnails -----------------------------
(***************************************************************************)
(* The thumbnail service (thumbnails/service.go) with its two disk caches.  *)
(*                                                                          *)
(* A request is one call of OpenThumbnail: look the thumbnail up, register  *)
(* a task unless one is in progress, send it to the workers, poll until it  *)
(* is no longer in progress, open the cache file and stream it.  A worker   *)
(* takes tasks from the channel, obtains the original image under a lock    *)
(* per file (from the cache of originals or from rclone) and writes the     *)
(* thumbnail in place.  Beside them run the cleaners of the caches, which   *)
(* may unlink any file at any moment, the shutdown of the service, and the  *)
(* end of the process, which keeps only the files.                          *)
(***************************************************************************)
EXTENDS DiskCache, Sequences

CONSTANTS
    Requests,    (* the calls of OpenThumbnail, each made once           *)
    Workers,     (* the goroutines of startWorkers                       *)
    NoWorker,
    NoTask,
    Files,       (* the ids of the images                                *)
    ImageType,   (* getImageType of each file                            *)
    FileSize,    (* GetSize of each file                                 *)
    Threshold,   (* useOriginalImageThresholdSize                        *)
    Sizes,       (* the thumbnail sizes the callers ask for              *)
    Cap,         (* the capacity of tasksCh; 10_000 in the code          *)
    Events,      (* what may happen: "io" (an operation on files, rclone *)
                 (* or a command fails), "open" and "remove" (a file     *)
                 (* that exists cannot be opened, or removed), "evict"   *)
                 (* and "shutdown"                                       *)
    MaxRestarts  (* bound on the number of times the process dies        *)

-----------------------------------------------------------------------------
(* Thumbnail ids *)

(* gifs cannot be resized; heic and RAW images always are.                  *)
shouldUseOriginalImage(f) ==
    \/ ImageType[f] = "gif"
    \/ ImageType[f] \notin {"gif", "heic", "raw"} /\ FileSize[f] < Threshold

(* The id of the thumbnail of f; an empty size means medium.  The thumbnail *)
(* that is a copy of the original does not depend on the size.              *)
newThumbnailID(f, size) ==
    [file |-> f,
     size |-> IF shouldUseOriginalImage(f) THEN "original"
              ELSE IF size = "" THEN "medium" ELSE size]

ThumbnailIDs == {newThumbnailID(f, size) : f \in Files, size \in Sizes}

useOriginal(t) == t.size = "original"

(* The cache of originals names its files by the image, the cache of        *)
(* thumbnails by the thumbnail.                                             *)
Paths == Files \cup ThumbnailIDs

(* A request holds one file open, a worker at most two.                     *)
ASSUME ThumbnailsAssumption ==
    /\ Files \cap ThumbnailIDs = {}
    /\ NoTask \notin ThumbnailIDs
    /\ NoWorker \notin Workers
    /\ Cap \in Nat
    /\ MaxRestarts \in Nat
    /\ IsFiniteSet(Inodes)
    /\ Cardinality(Inodes) >=
         Cardinality(Paths) + Cardinality(Requests) + 2 * Cardinality(Workers)

-----------------------------------------------------------------------------

VARIABLES
    stopped,          (* the atomic flag Shutdown sets                     *)
    tasksCh,          (* the buffered channel of tasks, oldest first       *)
    chClosed,         (* close(tasksCh) has been called                    *)
    inProgressTasks,  (* the thumbnails someone is responsible for         *)
    openImageLocks,   (* who holds the mutex of each file                  *)
    reqPc,            (* where each request is, or how it ended            *)
    reqThumb,         (* the thumbnail it wants                            *)
    reqFd,            (* the file it streams                               *)
    wPc,              (* where each worker is                              *)
    wTask,            (* its task                                          *)
    wSrc,             (* the original image it has open                    *)
    wTemp,            (* the content of its temp file                      *)
    wOut,             (* the file it writes                                *)
    shutdownPc,       (* where Shutdown is                                 *)
    restarts          (* how often the process has died                    *)

serviceVars  == <<stopped, tasksCh, chClosed, inProgressTasks>>
requestVars  == <<reqPc, reqThumb, reqFd>>
workerVars   == <<wPc, wTask, wSrc, wTemp, wOut>>
vars == <<serviceVars, openImageLocks, requestVars, workerVars, shutdownPc, restarts,
          cacheVars>>

(* How a request may end: refused by a stopped service, rejected because of *)
(* its arguments, a panic (send on a closed channel, recovered by the HTTP  *)
(* server), canceled by its context, no thumbnail (404), lost with the      *)
(* process, or served with some content.                                    *)
Answers == {"refused", "rejected", "panicked", "canceled", "missing", "lost"} \cup Contents

RequestPcs == {"new", "lookup", "register", "send", "wait", "reopen", "serve"} \cup Answers

(* The worker's places between openImage's Lock and its Unlock.             *)
LockedPcs == {"open", "download", "copy", "undo", "reopen"}

WorkerPcs == {"idle", "start", "use", "write", "resize", "vips", "unmake", "release", "exited"}
             \cup LockedPcs

(* A worker between receiving a task and deleting it from inProgressTasks.  *)
Busy(w) == wPc[w] \notin {"idle", "exited"}

(* The inodes that are open in some process.                                *)
Held == {reqFd[r] : r \in Requests} \cup {wSrc[w] : w \in Workers} \cup {wOut[w] : w \in Workers}

(* Does this happen in the instance?                                        *)
May(event) == event \in Events

Init ==
    /\ stopped = FALSE
    /\ tasksCh = <<>>
    /\ chClosed = FALSE
    /\ inProgressTasks = {}
    /\ openImageLocks = [f \in Files |-> NoWorker]
    /\ reqPc = [r \in Requests |-> "new"]
    /\ reqThumb = [r \in Requests |-> NoTask]
    /\ reqFd = [r \in Requests |-> NoInode]
    /\ wPc = [w \in Workers |-> "idle"]
    /\ wTask = [w \in Workers |-> NoTask]
    /\ wSrc = [w \in Workers |-> NoInode]
    /\ wTemp = [w \in Workers |-> "torn"]
    /\ wOut = [w \in Workers |-> NoInode]
    /\ shutdownPc = "running"
    /\ restarts = 0
    /\ CacheInit(Paths)


-----------------------------------------------------------------------------
(* OpenThumbnail *)

requestUnchanged ==
    UNCHANGED <<openImageLocks, workerVars, shutdownPc, restarts, cacheVars>>

GoTo(r, pc) == reqPc' = [reqPc EXCEPT ![r] = pc]

(* The image formats and sizes the service accepts.                         *)
Acceptable(f) == ImageType[f] # "unsupported" /\ FileSize[f] > 0

(* Entry: a stopped service refuses, invalid arguments are rejected.        *)
Call(r) ==
    /\ reqPc[r] = "new"
    /\ \E f \in Files, size \in Sizes :
         IF stopped
           THEN GoTo(r, "refused") /\ UNCHANGED reqThumb
         ELSE IF ~Acceptable(f)
           THEN GoTo(r, "rejected") /\ UNCHANGED reqThumb
         ELSE /\ GoTo(r, "lookup")
              /\ reqThumb' = [reqThumb EXCEPT ![r] = newThumbnailID(f, size)]
    /\ UNCHANGED <<serviceVars, reqFd>>
    /\ requestUnchanged

(* cache.Open found the file: it is streamed, whoever else has it open.     *)
OpenHit(r, from) ==
    /\ reqPc[r] = from
    /\ Cached(reqThumb[r])
    /\ reqFd' = [reqFd EXCEPT ![r] = link[reqThumb[r]]]
    /\ GoTo(r, "serve")
    /\ UNCHANGED <<serviceVars, reqThumb>>
    /\ requestUnchanged

(* cache.Open failed: the file does not exist, or could not be opened.      *)
OpenMiss(r, from, to) ==
    /\ reqPc[r] = from
    /\ ~Cached(reqThumb[r]) \/ May("open")
    /\ GoTo(r, to)
    /\ UNCHANGED <<serviceVars, reqThumb, reqFd>>
    /\ requestUnchanged

Lookup(r) == OpenHit(r, "lookup") \/ OpenMiss(r, "lookup", "register")

SeededForgetTask(t) == inProgressTasks' = inProgressTasks

AddTask(t) == inProgressTasks' = inProgressTasks \cup {t}

(* isInProgress(true): under the mutex, join the task or become its owner.  *)
Register(r) ==
    /\ reqPc[r] = "register"
    /\ IF reqThumb[r] \in inProgressTasks
         THEN GoTo(r, "wait") /\ UNCHANGED inProgressTasks
         ELSE GoTo(r, "send") /\ AddTask(reqThumb[r])
    /\ UNCHANGED <<stopped, tasksCh, chClosed, reqThumb, reqFd>>
    /\ requestUnchanged

SeededUnbounded == TRUE

ChannelHasRoom == Len(tasksCh) < Cap

(* Send the task.  The send blocks while the channel is full, whatever the  *)
(* context says, and panics once the channel is closed.                     *)
SendTask(r) ==
    /\ reqPc[r] = "send"
    /\ IF chClosed
         THEN GoTo(r, "panicked") /\ UNCHANGED tasksCh
         ELSE /\ ChannelHasRoom
              /\ tasksCh' = Append(tasksCh, reqThumb[r])
              /\ GoTo(r, "wait")
    /\ UNCHANGED <<stopped, chClosed, inProgressTasks, reqThumb, reqFd>>
    /\ requestUnchanged

(* The polling loop: at once and then every 50 milliseconds.                *)
Poll(r) ==
    /\ reqPc[r] = "wait"
    /\ reqThumb[r] \notin inProgressTasks
    /\ GoTo(r, "reopen")
    /\ UNCHANGED <<serviceVars, reqThumb, reqFd>>
    /\ requestUnchanged

(* ctx.Done: the client went away; the task goes on without it.  The select *)
(* may see the context even when the task has ended since the last check.   *)
Cancel(r) ==
    /\ reqPc[r] = "wait"
    /\ GoTo(r, "canceled")
    /\ UNCHANGED <<serviceVars, reqThumb, reqFd>>
    /\ requestUnchanged

(* The final cache.Open.  A missing file becomes a 404 in handleThumbnail,  *)
(* any other error a 400; both leave the client without a thumbnail.        *)
Reopen(r) == OpenHit(r, "reopen") \/ OpenMiss(r, "reopen", "missing")

(* handleThumbnail copies the file to the client: the client gets what the  *)
(* inode holds when the copy reaches its end.                               *)
Serve(r) ==
    /\ reqPc[r] = "serve"
    /\ GoTo(r, data[reqFd[r]])
    /\ reqFd' = [reqFd EXCEPT ![r] = NoInode]
    /\ UNCHANGED <<serviceVars, reqThumb>>
    /\ requestUnchanged

(* What a call does by itself once it has been accepted.                    *)
RequestStep(r) ==
    Lookup(r) \/ Register(r) \/ SendTask(r) \/ Poll(r) \/ Reopen(r) \/ Serve(r)

-----------------------------------------------------------------------------
(* startWorkers and processTask *)

workerUnchanged == UNCHANGED <<stopped, chClosed, requestVars, shutdownPc, restarts>>

Goes(w, pc) == wPc' = [wPc EXCEPT ![w] = pc]

source(w) == wTask[w].file

(* A step inside processTask, which leaves the queue and the set of tasks   *)
(* in progress alone.                                                       *)
Processing == workerUnchanged /\ UNCHANGED <<tasksCh, inProgressTasks, wTask>>

(* The range over tasksCh receives the next task.                           *)
TakeTask(w) ==
    /\ wPc[w] = "idle"
    /\ tasksCh # <<>>
    /\ wTask' = [wTask EXCEPT ![w] = Head(tasksCh)]
    /\ tasksCh' = Tail(tasksCh)
    /\ Goes(w, "start")
    /\ UNCHANGED <<inProgressTasks, openImageLocks, wSrc, wTemp, wOut, cacheVars>>
    /\ workerUnchanged

(* cache.GetFilepath could not create the directory.                        *)
PrepareFails(w) ==
    /\ wPc[w] = "start" /\ May("io")
    /\ Goes(w, "release")
    /\ UNCHANGED <<openImageLocks, wSrc, wTemp, wOut, cacheVars>>
    /\ Processing

SeededNoLock(f) == TRUE

LockFree(f) == openImageLocks[f] = NoWorker

(* openImage: acquire the mutex of the file.                                *)
LockImage(w) ==
    /\ wPc[w] = "start"
    /\ LockFree(source(w))
    /\ openImageLocks' = [openImageLocks EXCEPT ![source(w)] = w]
    /\ Goes(w, "open")
    /\ UNCHANGED <<wSrc, wTemp, wOut, cacheVars>>
    /\ Processing

UnlockImage(w) == openImageLocks' = [openImageLocks EXCEPT ![source(w)] = NoWorker]

(* openImage returns an open original, found at once or after a download.   *)
OpenOriginal(w) ==
    /\ wPc[w] \in {"open", "reopen"}
    /\ Cached(source(w))
    /\ wSrc' = [wSrc EXCEPT ![w] = link[source(w)]]
    /\ UnlockImage(w)
    /\ Goes(w, "use")
    /\ UNCHANGED <<wTemp, wOut, cacheVars>>
    /\ Processing

(* The original is not in the cache, or cannot be opened.                   *)
MissOriginal(w) ==
    /\ wPc[w] = "open"
    /\ ~Cached(source(w)) \/ May("open")
    /\ Goes(w, "download")
    /\ UNCHANGED <<openImageLocks, wSrc, wTemp, wOut, cacheVars>>
    /\ Processing

(* openImage fails before the cache file exists (rclone, exiftool, mkdir or *)
(* create), or cannot open it after it was written: it may have been        *)
(* evicted in between.                                                      *)
OpenImageFails(w) ==
    /\ \/ wPc[w] = "download" /\ May("io")
       \/ wPc[w] = "reopen" /\ (~Cached(source(w)) \/ May("open"))
    /\ UnlockImage(w)
    /\ Goes(w, "release")
    /\ UNCHANGED <<wSrc, wTemp, wOut, cacheVars>>
    /\ Processing

(* rclone, or exiftool for a RAW image, returned a reader and               *)
(* DiskCache.Write has created the file of the original.                    *)
CreateOriginal(w) ==
    /\ wPc[w] = "download"
    /\ CreateFile(source(w), Held)
    /\ wOut' = [wOut EXCEPT ![w] = CreatedInode(source(w), Held)]
    /\ Goes(w, "copy")
    /\ UNCHANGED <<openImageLocks, wSrc, wTemp>>
    /\ Processing

(* DiskCache.Write copied everything.  OpenFile has checked the size and    *)
(* the modification time of the response.                                   *)
CopyOriginal(w) ==
    /\ wPc[w] = "copy"
    /\ FillFile(wOut[w], "whole")
    /\ wOut' = [wOut EXCEPT ![w] = NoInode]
    /\ Goes(w, "reopen")
    /\ UNCHANGED <<openImageLocks, wSrc, wTemp>>
    /\ Processing

(* The copy failed: DiskCache.Write will remove the file.                   *)
CopyOriginalFails(w) ==
    /\ wPc[w] = "copy" /\ May("io")
    /\ Goes(w, "undo")
    /\ UNCHANGED <<openImageLocks, wSrc, wTemp, wOut, cacheVars>>
    /\ Processing

(* The clean-up after an error, which may fail as well.                     *)
CleanUp(p) == RemoveFile(p) \/ (May("remove") /\ RemoveFails(p))

(* The deferred os.Remove of DiskCache.Write.                               *)
UndoOriginal(w) ==
    /\ wPc[w] = "undo"
    /\ CleanUp(source(w))
    /\ wOut' = [wOut EXCEPT ![w] = NoInode]
    /\ UnlockImage(w)
    /\ Goes(w, "release")
    /\ UNCHANGED <<wSrc, wTemp>>
    /\ Processing

(* A small image or a gif: createCacheFileFromReader creates the thumbnail. *)
CreateCopy(w) ==
    /\ wPc[w] = "use"
    /\ useOriginal(wTask[w])
    /\ CreateFile(wTask[w], Held)
    /\ wOut' = [wOut EXCEPT ![w] = CreatedInode(wTask[w], Held)]
    /\ Goes(w, "write")
    /\ UNCHANGED <<openImageLocks, wSrc, wTemp>>
    /\ Processing

(* All of the original was copied.                                          *)
WriteCopy(w) ==
    /\ wPc[w] = "write"
    /\ data[wSrc[w]] = "whole"
    /\ FillFile(wOut[w], "whole")
    /\ wOut' = [wOut EXCEPT ![w] = NoInode]
    /\ Goes(w, "release")
    /\ UNCHANGED <<openImageLocks, wSrc, wTemp>>
    /\ Processing

(* The copy failed, or the original was shorter than the file's size: the   *)
(* error is returned and the file stays.                                    *)
WriteCopyFails(w) ==
    /\ wPc[w] = "write"
    /\ May("io") \/ data[wSrc[w]] # "whole"
    /\ wOut' = [wOut EXCEPT ![w] = NoInode]
    /\ Goes(w, "release")
    /\ UNCHANGED <<openImageLocks, wSrc, wTemp, cacheVars>>
    /\ Processing

SeededNoSizeCheck(w) == TRUE

(* The size of a RAW image's preview is not known, so it is not checked.    *)
SizeMatches(w) == ImageType[source(w)] = "raw" \/ data[wSrc[w]] = "whole"

(* The original is copied to a temp file for vips and not read again.       *)
LoadTemp(w) ==
    /\ wPc[w] = "use"
    /\ ~useOriginal(wTask[w])
    /\ SizeMatches(w)
    /\ wTemp' = [wTemp EXCEPT ![w] = data[wSrc[w]]]
    /\ wSrc' = [wSrc EXCEPT ![w] = NoInode]
    /\ Goes(w, "resize")
    /\ UNCHANGED <<openImageLocks, wOut, cacheVars>>
    /\ Processing

(* No temp file, no cache file, or a temp file of the wrong size.           *)
UseFails(w) ==
    /\ wPc[w] = "use"
    /\ May("io") \/ (~useOriginal(wTask[w]) /\ ~SizeMatches(w))
    /\ Goes(w, "release")
    /\ UNCHANGED <<openImageLocks, wSrc, wTemp, wOut, cacheVars>>
    /\ Processing

(* vipsthumbnail opens its output, the cache file itself.                   *)
StartResize(w) ==
    /\ wPc[w] = "resize"
    /\ CreateFile(wTask[w], Held)
    /\ wOut' = [wOut EXCEPT ![w] = CreatedInode(wTask[w], Held)]
    /\ Goes(w, "vips")
    /\ UNCHANGED <<openImageLocks, wSrc, wTemp>>
    /\ Processing

(* vips succeeded, from a torn image with a warning.  The os.Stat that      *)
(* follows only decides what is logged.                                     *)
FinishResize(w) ==
    /\ wPc[w] = "vips"
    /\ FillFile(wOut[w], IF wTemp[w] = "whole" THEN "whole" ELSE "damaged")
    /\ wOut' = [wOut EXCEPT ![w] = NoInode]
    /\ Goes(w, "release")
    /\ UNCHANGED <<openImageLocks, wSrc, wTemp>>
    /\ Processing

(* vips failed, before or after it created its output.                      *)
ResizeFails(w) ==
    /\ wPc[w] \in {"resize", "vips"}
    /\ May("io") \/ wTemp[w] # "whole"
    /\ Goes(w, "unmake")
    /\ UNCHANGED <<openImageLocks, wSrc, wTemp, wOut, cacheVars>>
    /\ Processing

SeededKeepThumbnail(t) == UNCHANGED cacheVars

(* cache.Remove after a resize error.                                       *)
RemoveThumbnail(t) == CleanUp(t)

Unmake(w) ==
    /\ wPc[w] = "unmake"
    /\ RemoveThumbnail(wTask[w])
    /\ wOut' = [wOut EXCEPT ![w] = NoInode]
    /\ Goes(w, "release")
    /\ UNCHANGED <<openImageLocks, wSrc, wTemp>>
    /\ Processing

SeededKeepTask(t) == inProgressTasks' = inProgressTasks

DeleteTask(t) == inProgressTasks' = inProgressTasks \ {t}

(* processTask returned, with or without an error: its defers have closed   *)
(* the original and removed the temp file; the task is over.                *)
Release(w) ==
    /\ wPc[w] = "release"
    /\ DeleteTask(wTask[w])
    /\ wTask' = [wTask EXCEPT ![w] = NoTask]
    /\ wSrc' = [wSrc EXCEPT ![w] = NoInode]
    /\ wTemp' = [wTemp EXCEPT ![w] = "torn"]
    /\ Goes(w, "idle")
    /\ UNCHANGED <<tasksCh, openImageLocks, wOut, cacheVars>>
    /\ workerUnchanged

(* The channel is closed and empty: the worker's range ends.                *)
WorkerExit(w) ==
    /\ wPc[w] = "idle"
    /\ chClosed
    /\ tasksCh = <<>>
    /\ Goes(w, "exited")
    /\ UNCHANGED <<openImageLocks, wSrc, wTemp, wOut, cacheVars>>
    /\ Processing

WorkerStep(w) ==
    \/ TakeTask(w) \/ PrepareFails(w) \/ LockImage(w) \/ OpenOriginal(w) \/ MissOriginal(w)
    \/ OpenImageFails(w) \/ CreateOriginal(w) \/ CopyOriginal(w) \/ CopyOriginalFails(w)
    \/ UndoOriginal(w) \/ CreateCopy(w) \/ WriteCopy(w) \/ WriteCopyFails(w) \/ LoadTemp(w)
    \/ UseFails(w) \/ StartResize(w) \/ FinishResize(w) \/ ResizeFails(w) \/ Unmake(w)
    \/ Release(w) \/ WorkerExit(w)

-----------------------------------------------------------------------------
(* Shutdown *)

shutdownUnchanged ==
    UNCHANGED <<inProgressTasks, openImageLocks, requestVars, workerVars, restarts, cacheVars>>

StopService ==
    /\ May("shutdown")
    /\ shutdownPc = "running"
    /\ stopped' = TRUE
    /\ shutdownPc' = "closing"
    /\ UNCHANGED <<tasksCh, chClosed>>
    /\ shutdownUnchanged

SeededLeaveOpen == UNCHANGED chClosed

closeTasksCh == chClosed' = TRUE

CloseTasks ==
    /\ shutdownPc = "closing"
    /\ closeTasksCh
    /\ shutdownPc' = "draining"
    /\ UNCHANGED <<stopped, tasksCh>>
    /\ shutdownUnchanged

(* The empty range over the closed channel, in competition with the         *)
(* workers.  A dropped task stays in inProgressTasks.                       *)
DropTask ==
    /\ shutdownPc = "draining"
    /\ tasksCh # <<>>
    /\ tasksCh' = Tail(tasksCh)
    /\ UNCHANGED <<stopped, chClosed, shutdownPc>>
    /\ shutdownUnchanged

EndDrain ==
    /\ shutdownPc = "draining"
    /\ chClosed
    /\ tasksCh = <<>>
    /\ shutdownPc' = "waiting"
    /\ UNCHANGED <<stopped, tasksCh, chClosed>>
    /\ shutdownUnchanged

SeededNoWait == TRUE

(* startWorkers closes workersDoneCh when every worker has left its loop.   *)
workersDone == \A w \in Workers : wPc[w] = "exited"

(* Shutdown returns nil, or the error of a context that expired first.      *)
ShutdownOk ==
    /\ shutdownPc = "waiting"
    /\ workersDone
    /\ shutdownPc' = "ok"
    /\ UNCHANGED <<stopped, tasksCh, chClosed>>
    /\ shutdownUnchanged

ShutdownExpired ==
    /\ shutdownPc = "waiting"
    /\ shutdownPc' = "expired"
    /\ UNCHANGED <<stopped, tasksCh, chClosed>>
    /\ shutdownUnchanged

ShutdownStep == CloseTasks \/ DropTask \/ EndDrain \/ ShutdownOk

-----------------------------------------------------------------------------
(* The environment *)

(* A cleaner removes a file of its cache, in use or not.                    *)
Evict ==
    /\ May("evict")
    /\ \E p \in Paths : Cached(p) /\ RemoveFile(p)
    /\ UNCHANGED <<serviceVars, openImageLocks, requestVars, workerVars, shutdownPc, restarts>>

(* The process ends, cleanly or not, and is started again: only the files   *)
(* survive, as they are.                                                    *)
Restart ==
    /\ restarts < MaxRestarts
    /\ restarts' = restarts + 1
    /\ stopped' = FALSE
    /\ tasksCh' = <<>>
    /\ chClosed' = FALSE
    /\ inProgressTasks' = {}
    /\ openImageLocks' = [f \in Files |-> NoWorker]
    /\ reqPc' = [r \in Requests |->
                   IF reqPc[r] \in Answers \cup {"new"} THEN reqPc[r] ELSE "lost"]
    /\ reqFd' = [r \in Requests |-> NoInode]
    /\ wPc' = [w \in Workers |-> "idle"]
    /\ wTask' = [w \in Workers |-> NoTask]
    /\ wSrc' = [w \in Workers |-> NoInode]
    /\ wTemp' = [w \in Workers |-> "torn"]
    /\ wOut' = [w \in Workers |-> NoInode]
    /\ shutdownPc' = "running"
    /\ UNCHANGED <<reqThumb, cacheVars>>

(* Nothing is left to do.                                                   *)
Finished ==
    /\ shutdownPc \notin {"closing", "draining", "waiting"}
    /\ tasksCh = <<>>
    /\ \A w \in Workers : ~Busy(w)
    /\ \A r \in Requests : reqPc[r] \in Answers
    /\ UNCHANGED vars

Next ==
    \/ \E r \in Requests : Call(r) \/ RequestStep(r) \/ Cancel(r)
    \/ \E w \in Workers : WorkerStep(w)
    \/ StopService \/ ShutdownStep \/ ShutdownExpired
    \/ Evict \/ Restart \/ Finished

Spec == Init /\ [][Next]_vars

(* A goroutine that can run is run.  Nobody is obliged to make a request,   *)
(* to cancel it, to let a context expire or to shut the service down.       *)
Fairness ==
    /\ \A r \in Requests : WF_vars(RequestStep(r))
    /\ \A w \in Workers : WF_vars(WorkerStep(w))
    /\ WF_vars(ShutdownStep)

FairSpec == Spec /\ Fairness

-----------------------------------------------------------------------------
(* Properties *)

(* Every variable keeps its type, and the channel never holds more tasks    *)
(* than its capacity (the send in OpenThumbnail blocks).                    *)
TypeOK ==
    /\ stopped \in BOOLEAN
    /\ tasksCh \in Seq(ThumbnailIDs)
    /\ Len(tasksCh) <= Cap
    /\ chClosed \in BOOLEAN
    /\ inProgressTasks \in SUBSET ThumbnailIDs
    /\ openImageLocks \in [Files -> Workers \cup {NoWorker}]
    /\ reqPc \in [Requests -> RequestPcs]
    /\ reqThumb \in [Requests -> ThumbnailIDs \cup {NoTask}]
    /\ reqFd \in [Requests -> Inodes \cup {NoInode}]
    /\ wPc \in [Workers -> WorkerPcs]
    /\ wTask \in [Workers -> ThumbnailIDs \cup {NoTask}]
    /\ wSrc \in [Workers -> Inodes \cup {NoInode}]
    /\ wTemp \in [Workers -> Contents]
    /\ wOut \in [Workers -> Inodes \cup {NoInode}]
    /\ shutdownPc \in {"running", "closing", "draining", "waiting", "ok", "expired"}
    /\ restarts \in 0..MaxRestarts
    /\ CacheTypeOK(Paths)

Sending(r) == reqPc[r] = "send"

(* A task that is being sent, is queued or is processed is in progress.     *)
TasksRegistered ==
    /\ \A r \in Requests : Sending(r) => reqThumb[r] \in inProgressTasks
    /\ \A i \in 1..Len(tasksCh) : tasksCh[i] \in inProgressTasks
    /\ \A w \in Workers : Busy(w) => wTask[w] \in inProgressTasks

(* No two of the senders, queue slots and workers have the same task.       *)
TasksDistinct ==
    /\ \A r1, r2 \in Requests :
         Sending(r1) /\ Sending(r2) /\ reqThumb[r1] = reqThumb[r2] => r1 = r2
    /\ \A i, j \in 1..Len(tasksCh) : tasksCh[i] = tasksCh[j] => i = j
    /\ \A w1, w2 \in Workers :
         Busy(w1) /\ Busy(w2) /\ wTask[w1] = wTask[w2] => w1 = w2
    /\ \A r \in Requests, i \in 1..Len(tasksCh) : Sending(r) => reqThumb[r] # tasksCh[i]
    /\ \A r \in Requests, w \in Workers : Sending(r) /\ Busy(w) => reqThumb[r] # wTask[w]
    /\ \A i \in 1..Len(tasksCh), w \in Workers : Busy(w) => tasksCh[i] # wTask[w]

(* inProgressTasks does its work: however the calls, the channel and the    *)
(* workers interleave, a thumbnail in progress has one owner at most, so no *)
(* two workers ever generate the same thumbnail at the same time.           *)
TaskOwnership == TasksRegistered /\ TasksDistinct

(* No entry of inProgressTasks is forgotten while the service runs: an      *)
(* entry without an owner would make every later call for that thumbnail    *)
(* poll for ever.  Only Shutdown leaves such entries (the dropped tasks).   *)
NoOrphanTask ==
    \A t \in inProgressTasks :
      \/ chClosed
      \/ \E r \in Requests : Sending(r) /\ reqThumb[r] = t
      \/ \E i \in 1..Len(tasksCh) : tasksCh[i] = t
      \/ \E w \in Workers : Busy(w) /\ wTask[w] = t

(* The mutexes of openImageLocks: whoever looks up, downloads or removes    *)
(* the original of a file is the only one to do so.                         *)
ImageLocked ==
    \A w \in Workers, f \in Files :
      openImageLocks[f] = w <=> wPc[w] \in LockedPcs /\ source(w) = f

(* No two workers ever write through the same inode, also when files are    *)
(* evicted and created again behind their backs.                            *)
OneWriterPerFile ==
    \A w1, w2 \in Workers : wOut[w1] = wOut[w2] /\ wOut[w1] # NoInode => w1 = w2

(* Somebody is still writing, or about to remove, the inode i.              *)
BeingWritten(i) == \E w \in Workers : wOut[w] = i

(* A thumbnail that is a copy of the original.                              *)
IsCopy(p) == p \in ThumbnailIDs /\ useOriginal(p)

(* An incomplete file is only ever seen while its writer is at work, or if  *)
(* the writer has tried in vain to remove it.                               *)
WrittenOrAbsent(p) == Holds(p, "torn") => BeingWritten(link[p]) \/ p \in unremoved

(* Whatever failed (rclone, exiftool, vips, reading and writing files), no  *)
(* incomplete original image and no incomplete thumbnail of vips is left to *)
(* be served or used later, as long as the process does not die: their      *)
(* error paths remove the file.  A file that os.Remove itself could not     *)
(* remove stays, since disk.go and service.go just log that error; and so   *)
(* does an incomplete copy, which createCacheFileFromReader does not remove.*)
NoTornLeftBehind ==
    restarts = 0 => \A p \in Paths : ~IsCopy(p) => WrittenOrAbsent(p)

(* A thumbnail is never made from part of an image, even when a dead        *)
(* process left such a part in the cache of originals: the size of the temp *)
(* file is checked.  RAW images have no size to check.                      *)
NoDamagedThumbnail ==
    \A t \in ThumbnailIDs : Holds(t, "damaged") => ImageType[t.file] = "raw"

(* A complete original image in the cache is not overwritten: the lookup    *)
(* and the download are under one lock.  It may only be evicted.            *)
WholeOriginalStays ==
    [][\A f \in Files : Holds(f, "whole") => link'[f] = NoInode \/ Holds(f, "whole")']_vars

(* What the comment of OpenThumbnail says, "Only the first call to          *)
(* OpenThumbnail generates a thumbnail": a complete thumbnail is not        *)
(* generated again while it is in the cache.  It does not hold: the lookup  *)
(* and the registration are not one step, see the run that shows it.        *)
GeneratedOnce ==
    [][\A t \in ThumbnailIDs :
         Holds(t, "whole") => link'[t] = NoInode \/ Holds(t, "whole")']_vars

(* What the test of concurrent calls asserts: every call that is served     *)
(* gets the complete thumbnail.  It does not hold: cache.Open succeeds on a *)
(* file a worker is still writing, see the run that shows it.               *)
ServedIsWhole == \A r \in Requests : reqPc[r] \notin {"torn", "damaged"}

(* Once Shutdown has returned nil nothing is written to the caches, so the  *)
(* process may exit without leaving a torn file.                            *)
NoWriteAfterShutdown == [][shutdownPc = "ok" => data' = data]_vars

(* Every accepted call ends, whatever fails, unless the service is shut     *)
(* down: no lost wake-up, no task that is never released.                   *)
CallsEnd ==
    \A r \in Requests : reqPc[r] = "lookup" ~> reqPc[r] \in Answers \/ stopped

(* Shutdown ends by itself, also with a full channel and busy workers: the  *)
(* workers finish their tasks and leave.                                    *)
ShutdownEnds == shutdownPc = "closing" ~> shutdownPc \notin {"closing", "draining", "waiting"}

(* Who generates thumbnail t.                                               *)
generator(t) ==
    IF \E w \in Workers : Busy(w) /\ wTask[w] = t
      THEN CHOOSE w \in Workers : Busy(w) /\ wTask[w] = t
      ELSE NoWorker

Flight == INSTANCE SingleFlight WITH
    Keys <- ThumbnailIDs, Actors <- Workers, NoActor <- NoWorker,
    claimed <- inProgressTasks, actor <- [t \in ThumbnailIDs |-> generator(t)]

(* The service implements the abstract single flight: every generation is   *)
(* claimed, done once by one worker, and released by that worker.           *)
ImplementsSingleFlight == Flight!FlightSpec

=============================================================================
