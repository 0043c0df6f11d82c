-------------------------- MODULE ThumbnailsProofs --------------------------
(***************************************************************************)
(* Proofs about Thumbnails, for any number of requests, workers, files and  *)
(* sizes, any capacity and any number of restarts.  First types, handles,   *)
(* locks and ownership; then the tasks and the files they write: no task is *)
(* forgotten, the service implements the abstract single flight, nothing is *)
(* written once Shutdown has returned nil, no incomplete file is left       *)
(* behind, no thumbnail is made from part of an image, and a complete       *)
(* original stays.                                                          *)
(***************************************************************************)
EXTENDS Thumbnails, TLAPS

-----------------------------------------------------------------------------
(* Types *)

(* What the program counters say about the other variables of a goroutine:  *)
(* a running call has a thumbnail, a busy worker a task, and the handles    *)
(* they use are open.                                                       *)
RequestsOK ==
    \A r \in Requests :
      /\ reqPc[r] \in {"lookup", "register", "send", "wait", "reopen", "serve"}
           => reqThumb[r] \in ThumbnailIDs
      /\ reqPc[r] = "serve" => reqFd[r] \in Inodes

WorkersOK ==
    \A w \in Workers :
      /\ Busy(w) => wTask[w] \in ThumbnailIDs
      /\ wPc[w] \in {"use", "write"} => wSrc[w] \in Inodes
      /\ wPc[w] \in {"copy", "undo", "write", "vips"} => wOut[w] \in Inodes
      /\ wOut[w] # NoInode => wPc[w] \in {"copy", "undo", "write", "vips", "unmake"}

TypeInv == TypeOK /\ RequestsOK /\ WorkersOK

(* The parts of a thumbnail id.                                             *)
LEMMA ThumbnailIDParts ==
    ASSUME NEW t \in ThumbnailIDs
    PROVE  t.file \in Files /\ t \in Paths /\ t # NoTask /\ t \notin Files
  <1>1. PICK f \in Files, size \in Sizes : t = newThumbnailID(f, size)
    BY DEF ThumbnailIDs
  <1>2. t.file = f
    BY <1>1 DEF newThumbnailID
  <1> QED BY <1>2, ThumbnailsAssumption DEF ThumbnailsAssumption, Paths

LEMMA NewThumbnail ==
    ASSUME NEW f \in Files, NEW size \in Sizes
    PROVE  newThumbnailID(f, size) \in ThumbnailIDs
BY DEF ThumbnailIDs

(* os.Create hands out an inode.                                            *)
LEMMA CreatedInodeType ==
    ASSUME CacheTypeOK(Paths), NEW p \in Paths, NEW held, Cached(p) \/ FreeInodes(held) # {}
    PROVE  /\ CreatedInode(p, held) \in Inodes
           /\ ~Cached(p) => CreatedInode(p, held) \in FreeInodes(held)
  <1>1. CASE Cached(p)
    BY <1>1 DEF CacheTypeOK, Cached, CreatedInode
  <1>2. CASE ~Cached(p)
    BY <1>2 DEF CreatedInode, FreeInodes
  <1> QED BY <1>1, <1>2

LEMMA TypeInit == Init => TypeInv
  <1> SUFFICES ASSUME Init PROVE TypeInv OBVIOUS
  <1>1. TypeOK
    <2>1. CacheTypeOK(Paths)
      BY DEF Init, CacheInit, CacheTypeOK, Contents
    <2>2. tasksCh \in Seq(ThumbnailIDs) /\ Len(tasksCh) <= Cap /\ 0 \in 0..MaxRestarts
      BY ThumbnailsAssumption DEF ThumbnailsAssumption, Init
    <2> QED BY <2>1, <2>2 DEF Init, TypeOK, Contents, RequestPcs, WorkerPcs
  <1>2. RequestsOK /\ WorkersOK
    BY DEF Init, RequestsOK, WorkersOK, Busy
  <1> QED BY <1>1, <1>2 DEF TypeInv

(* Every step of a request keeps the types.                                 *)
LEMMA RequestTypes ==
    ASSUME TypeInv, NEW r \in Requests, Call(r) \/ RequestStep(r) \/ Cancel(r)
    PROVE  TypeInv'
  <1>thumb. reqPc[r] \in {"lookup", "reopen"} => reqThumb[r] \in Paths
    BY ThumbnailIDParts DEF TypeInv, RequestsOK
  <1>cap. Cap \in Nat
    BY ThumbnailsAssumption DEF ThumbnailsAssumption
  <1> USE DEF TypeInv, TypeOK, CacheTypeOK, RequestsOK, WorkersOK,
          serviceVars, workerVars, cacheVars, requestUnchanged
  <1>1. CASE Call(r)
    <2>1. reqThumb' \in [Requests -> ThumbnailIDs \cup {NoTask}]
      BY <1>1, NewThumbnail DEF Call
    <2>2. reqPc' \in [Requests -> RequestPcs]
      BY <1>1 DEF Call, GoTo, RequestPcs, Answers
    <2>3. UNCHANGED <<serviceVars, reqFd>> /\ requestUnchanged
      BY <1>1 DEF Call
    <2>4. TypeOK'
      BY <2>1, <2>2, <2>3
    <2>5. RequestsOK'
      BY <1>1, <2>3, NewThumbnail DEF Call, GoTo
    <2>6. WorkersOK'
      BY <2>3 DEF Busy
    <2> QED BY <2>4, <2>5, <2>6
  <1>2. CASE Lookup(r)
    <2>1. CASE OpenHit(r, "lookup")
      BY <2>1, <1>thumb DEF OpenHit, GoTo, Busy, RequestPcs, Answers, Cached
    <2>2. CASE OpenMiss(r, "lookup", "register")
      BY <2>2 DEF OpenMiss, GoTo, Busy, RequestPcs, Answers
    <2> QED BY <1>2, <2>1, <2>2 DEF Lookup
  <1>3. CASE Register(r)
    <2>1. reqPc' \in [Requests -> RequestPcs]
      BY <1>3 DEF Register, GoTo, RequestPcs
    <2>2. inProgressTasks' \in SUBSET ThumbnailIDs
      BY <1>3 DEF Register, AddTask
    <2>3. UNCHANGED <<stopped, tasksCh, chClosed, reqThumb, reqFd>> /\ requestUnchanged
      BY <1>3 DEF Register
    <2>4. TypeOK'
      BY <2>1, <2>2, <2>3
    <2>5. RequestsOK'
      BY <1>3, <2>3 DEF Register, GoTo
    <2>6. WorkersOK'
      BY <2>3 DEF Busy
    <2> QED BY <2>4, <2>5, <2>6
  <1>4. CASE SendTask(r)
    <2>1. reqThumb[r] \in ThumbnailIDs /\ tasksCh \in Seq(ThumbnailIDs) /\ Len(tasksCh) <= Cap
      BY <1>4 DEF SendTask
    <2>2. Len(Append(tasksCh, reqThumb[r])) = Len(tasksCh) + 1
          /\ Append(tasksCh, reqThumb[r]) \in Seq(ThumbnailIDs) /\ Len(tasksCh) \in Nat
      BY <2>1
    <2>3. Len(tasksCh) < Cap => Len(tasksCh) + 1 <= Cap
      BY <2>2, <1>cap
    <2>4. tasksCh' \in Seq(ThumbnailIDs) /\ Len(tasksCh') <= Cap
      BY <1>4, <2>1, <2>2, <2>3 DEF SendTask, ChannelHasRoom
    <2> QED BY <1>4, <2>4 DEF SendTask, GoTo, Busy, RequestPcs, Answers
  <1>5. CASE Poll(r) \/ Cancel(r)
    BY <1>5 DEF Poll, Cancel, GoTo, Busy, RequestPcs, Answers
  <1>6. CASE Reopen(r)
    <2>1. CASE OpenHit(r, "reopen")
      BY <2>1, <1>thumb DEF OpenHit, GoTo, Busy, RequestPcs, Answers, Cached
    <2>2. CASE OpenMiss(r, "reopen", "missing")
      BY <2>2 DEF OpenMiss, GoTo, Busy, RequestPcs, Answers
    <2> QED BY <1>6, <2>1, <2>2 DEF Reopen
  <1>7. CASE Serve(r)
    BY <1>7 DEF Serve, GoTo, Busy, RequestPcs, Answers, Contents
  <1> QED BY <1>1, <1>2, <1>3, <1>4, <1>5, <1>6, <1>7 DEF RequestStep

(* Every step of a worker keeps the types.                                  *)
LEMMA WorkerTypes ==
    ASSUME TypeInv, NEW w \in Workers, WorkerStep(w)
    PROVE  TypeInv'
  <1>task. Busy(w) => source(w) \in Files /\ source(w) \in Paths /\ wTask[w] \in Paths
    BY ThumbnailIDParts DEF TypeInv, WorkersOK, source, Paths
  <1>new. ASSUME NEW p \in Paths, CreateFile(p, Held)
          PROVE  CreatedInode(p, Held) \in Inodes /\ CacheTypeOK(Paths)'
    <2>1. CreatedInode(p, Held) \in Inodes
      BY <1>new, CreatedInodeType DEF TypeInv, TypeOK, CreateFile
    <2> QED BY <1>new, <2>1 DEF TypeInv, TypeOK, CacheTypeOK, CreateFile, Contents
  <1>none. NoInode \notin Inodes
    BY InodesAssumption DEF InodesAssumption
  <1> USE DEF TypeInv, TypeOK, CacheTypeOK, RequestsOK, WorkersOK, Busy, WorkerPcs, LockedPcs,
          serviceVars, requestVars, workerVars, cacheVars, workerUnchanged, Processing, Goes
  <1>1. CASE TakeTask(w)
    <2>1. Head(tasksCh) \in ThumbnailIDs /\ Tail(tasksCh) \in Seq(ThumbnailIDs)
          /\ Len(Tail(tasksCh)) <= Cap
      BY <1>1, ThumbnailsAssumption DEF ThumbnailsAssumption, TakeTask
    <2> QED BY <1>1, <2>1 DEF TakeTask
  <1>2. CASE PrepareFails(w)
    BY <1>2 DEF PrepareFails
  <1>3. CASE LockImage(w)
    BY <1>3 DEF LockImage
  <1>4. CASE OpenOriginal(w)
    BY <1>4, <1>task DEF OpenOriginal, UnlockImage, Cached
  <1>5. CASE MissOriginal(w)
    BY <1>5 DEF MissOriginal
  <1>6. CASE OpenImageFails(w)
    BY <1>6 DEF OpenImageFails, UnlockImage
  <1>7. CASE CreateOriginal(w)
    BY <1>7, <1>task, <1>new, <1>none DEF CreateOriginal
  <1>8. CASE CopyOriginal(w)
    BY <1>8 DEF CopyOriginal, FillFile, Contents
  <1>9. CASE CopyOriginalFails(w)
    BY <1>9 DEF CopyOriginalFails
  <1>10. CASE UndoOriginal(w)
    BY <1>10, <1>task DEF UndoOriginal, UnlockImage, CleanUp, RemoveFile, RemoveFails
  <1>11. CASE CreateCopy(w)
    BY <1>11, <1>task, <1>new, <1>none DEF CreateCopy
  <1>12. CASE WriteCopy(w)
    BY <1>12 DEF WriteCopy, FillFile, Contents
  <1>13. CASE WriteCopyFails(w)
    BY <1>13 DEF WriteCopyFails
  <1>14. CASE LoadTemp(w)
    BY <1>14 DEF LoadTemp
  <1>15. CASE UseFails(w)
    BY <1>15 DEF UseFails
  <1>16. CASE StartResize(w)
    BY <1>16, <1>task, <1>new, <1>none DEF StartResize
  <1>17. CASE FinishResize(w)
    BY <1>17 DEF FinishResize, FillFile, Contents
  <1>18. CASE ResizeFails(w)
    BY <1>18 DEF ResizeFails
  <1>19. CASE Unmake(w)
    BY <1>19, <1>task DEF Unmake, RemoveThumbnail, CleanUp, RemoveFile, RemoveFails
  <1>20. CASE Release(w)
    BY <1>20 DEF Release, DeleteTask, Contents
  <1>21. CASE WorkerExit(w)
    BY <1>21 DEF WorkerExit
  <1> QED BY <1>1, <1>2, <1>3, <1>4, <1>5, <1>6, <1>7, <1>8, <1>9, <1>10, <1>11, <1>12, <1>13,
             <1>14, <1>15, <1>16, <1>17, <1>18, <1>19, <1>20, <1>21 DEF WorkerStep

(* The steps of Shutdown and of the environment keep the types.             *)
LEMMA OtherTypes ==
    ASSUME TypeInv,
           \/ StopService \/ ShutdownStep \/ ShutdownExpired
           \/ Evict \/ Restart \/ Finished \/ UNCHANGED vars
    PROVE  TypeInv'
  <1> USE DEF TypeInv, TypeOK, CacheTypeOK, RequestsOK, WorkersOK, Busy,
          serviceVars, requestVars, workerVars, cacheVars, shutdownUnchanged
  <1>1. CASE StopService \/ CloseTasks \/ EndDrain \/ ShutdownOk \/ ShutdownExpired
    BY <1>1 DEF StopService, CloseTasks, closeTasksCh, EndDrain, ShutdownOk, ShutdownExpired
  <1>2. CASE DropTask
    <2>1. Tail(tasksCh) \in Seq(ThumbnailIDs) /\ Len(Tail(tasksCh)) <= Cap
      BY <1>2, ThumbnailsAssumption DEF ThumbnailsAssumption, DropTask
    <2> QED BY <1>2, <2>1 DEF DropTask
  <1>3. CASE Evict
    BY <1>3 DEF Evict, RemoveFile
  <1>4. CASE Restart
    <2>1. restarts' \in 0..MaxRestarts
      BY <1>4, ThumbnailsAssumption DEF ThumbnailsAssumption, Restart
    <2>2. <<>> \in Seq(ThumbnailIDs) /\ Len(<<>>) <= Cap
      BY ThumbnailsAssumption DEF ThumbnailsAssumption
    <2> QED BY <1>4, <2>1, <2>2 DEF Restart, RequestPcs, Answers, WorkerPcs, Contents
  <1>5. CASE Finished \/ UNCHANGED vars
    BY <1>5 DEF Finished, vars
  <1> QED BY <1>1, <1>2, <1>3, <1>4, <1>5 DEF ShutdownStep

LEMMA TypeStep == TypeInv /\ [Next]_vars => TypeInv'
BY RequestTypes, WorkerTypes, OtherTypes DEF Next

(* TypeOK is an invariant of the service: no step, in any interleaving of   *)
(* calls, workers, Shutdown, evictions and restarts, leaves the types, uses *)
(* a closed handle, or puts more than Cap tasks into tasksCh.               *)
THEOREM TypeCorrect == Spec => [](TypeOK /\ RequestsOK /\ WorkersOK)
BY TypeInit, TypeStep, PTL DEF Spec, TypeInv

-----------------------------------------------------------------------------
(* Ownership of tasks *)

(* Where the elements of a longer and of a shorter queue come from.         *)
LEMMA AppendElements ==
    ASSUME NEW S, NEW s \in Seq(S), NEW x \in S, NEW i \in 1..Len(Append(s, x))
    PROVE  \/ i \in 1..Len(s) /\ Append(s, x)[i] = s[i]
           \/ i = Len(s) + 1 /\ Append(s, x)[i] = x
OBVIOUS

LEMMA TailElements ==
    ASSUME NEW S, NEW s \in Seq(S), s # <<>>
    PROVE  /\ 1 \in 1..Len(s) /\ Head(s) = s[1]
           /\ \A i \in 1..Len(Tail(s)) :
                i \in Int /\ i + 1 \in 1..Len(s) /\ i + 1 # 1 /\ Tail(s)[i] = s[i + 1]
OBVIOUS

LEMMA OwnershipInit == Init => TaskOwnership
BY DEF Init, TaskOwnership, TasksRegistered, TasksDistinct, Sending, Busy

(* Requests: only Register, which adds the task, and SendTask, which moves  *)
(* it from the sender to the end of the queue, matter.                      *)
LEMMA OwnershipRequest ==
    ASSUME TypeInv, TaskOwnership, NEW r \in Requests,
           Call(r) \/ RequestStep(r) \/ Cancel(r)
    PROVE  TaskOwnership'
  <1> USE DEF TaskOwnership, TasksRegistered, TasksDistinct, Sending, Busy, GoTo,
              serviceVars, requestVars, workerVars, cacheVars, requestUnchanged
  <1>type. reqPc \in [Requests -> RequestPcs] /\ tasksCh \in Seq(ThumbnailIDs)
    BY DEF TypeInv, TypeOK
  <1>1. CASE Call(r)
    <2>1. \A q \in Requests : reqPc'[q] = "send" => reqPc[q] = "send" /\ reqThumb'[q] = reqThumb[q]
      BY <1>1 DEF Call, TypeInv, TypeOK
    <2> QED BY <1>1, <2>1 DEF Call
  <1>2. CASE Lookup(r) \/ Poll(r) \/ Reopen(r) \/ Cancel(r)
    BY <1>2, <1>type DEF Lookup, OpenHit, OpenMiss, Poll, Reopen, Cancel
  <1>3. CASE Serve(r)
    <2>1. data[reqFd[r]] # "send"
      BY <1>3 DEF TypeInv, TypeOK, CacheTypeOK, RequestsOK, Serve, Contents
    <2> QED BY <1>3, <2>1, <1>type DEF Serve
  <1>4. CASE Register(r)
    BY <1>4, <1>type DEF Register, AddTask
  <1>5. CASE SendTask(r)
    <2>1. CASE chClosed
      BY <1>5, <2>1, <1>type DEF SendTask
    <2>2. CASE ~chClosed
      <3>1. reqThumb[r] \in ThumbnailIDs /\ tasksCh' = Append(tasksCh, reqThumb[r])
        BY <1>5, <2>2 DEF SendTask, TypeInv, RequestsOK
      <3>2. \A i \in 1..Len(tasksCh') :
              \/ i \in 1..Len(tasksCh) /\ tasksCh'[i] = tasksCh[i]
              \/ i = Len(tasksCh) + 1 /\ tasksCh'[i] = reqThumb[r]
        BY <3>1, <1>type, AppendElements
      <3>3. /\ reqPc' = [reqPc EXCEPT ![r] = "wait"]
            /\ UNCHANGED <<inProgressTasks, reqThumb, wPc, wTask>>
        BY <1>5, <2>2 DEF SendTask
      <3>4. reqPc[r] = "send" /\ reqPc'[r] = "wait"
        BY <1>5, <3>3, <1>type DEF SendTask
      <3>5. TasksRegistered'
        BY <3>2, <3>3, <3>4, <1>type
      <3>6. \A i, j \in 1..Len(tasksCh') : tasksCh'[i] = tasksCh'[j] => i = j
        BY <3>2, <3>4
      <3> QED BY <3>2, <3>3, <3>4, <3>5, <3>6, <1>type
    <2> QED BY <2>1, <2>2
  <1> QED BY <1>1, <1>2, <1>3, <1>4, <1>5 DEF RequestStep

(* Workers: TakeTask moves the head of the queue to the worker, Release     *)
(* takes it out of the set; nothing else changes who owns what.             *)
LEMMA OwnershipWorker ==
    ASSUME TypeInv, TaskOwnership, NEW w \in Workers, WorkerStep(w)
    PROVE  TaskOwnership'
  <1> USE DEF TaskOwnership, TasksRegistered, TasksDistinct, Sending, Busy,
              requestVars, workerUnchanged, Processing, Goes
  <1>type. /\ wPc \in [Workers -> WorkerPcs]
           /\ wTask \in [Workers -> ThumbnailIDs \cup {NoTask}]
           /\ tasksCh \in Seq(ThumbnailIDs)
    BY DEF TypeInv, TypeOK
  <1>1. CASE TakeTask(w)
    <2>1. /\ wTask' = [wTask EXCEPT ![w] = tasksCh[1]]
          /\ wPc' = [wPc EXCEPT ![w] = "start"]
          /\ wPc[w] = "idle"
          /\ UNCHANGED <<inProgressTasks, reqPc, reqThumb>>
      BY <1>1, <1>type, TailElements DEF TakeTask
    <2>2. /\ 1 \in 1..Len(tasksCh)
          /\ \A i \in 1..Len(tasksCh') :
               i \in Int /\ i + 1 \in 1..Len(tasksCh) /\ i + 1 # 1 /\ tasksCh'[i] = tasksCh[i + 1]
      BY <1>1, <1>type, TailElements DEF TakeTask
    <2>3. TasksRegistered'
      BY <2>1, <2>2, <1>type
    <2>4. \A i, j \in 1..Len(tasksCh') : tasksCh'[i] = tasksCh'[j] => i = j
      BY <2>2
    <2>5. \A w1, w2 \in Workers :
            Busy(w1)' /\ Busy(w2)' /\ wTask'[w1] = wTask'[w2] => w1 = w2
      BY <2>1, <2>2, <1>type
    <2>6. \A r \in Requests, i \in 1..Len(tasksCh') : Sending(r)' => reqThumb'[r] # tasksCh'[i]
      BY <2>1, <2>2
    <2>7. \A r \in Requests, v \in Workers : Sending(r)' /\ Busy(v)' => reqThumb'[r] # wTask'[v]
      BY <2>1, <2>2, <1>type
    <2>8. \A i \in 1..Len(tasksCh'), v \in Workers : Busy(v)' => tasksCh'[i] # wTask'[v]
      BY <2>1, <2>2, <1>type
    <2> QED BY <2>1, <2>3, <2>4, <2>5, <2>6, <2>7, <2>8
  <1>2. CASE Release(w)
    BY <1>2, <1>type DEF Release, DeleteTask
  <1>3. CASE WorkerExit(w)
    BY <1>3, <1>type DEF WorkerExit
  <1>4. CASE \/ PrepareFails(w) \/ LockImage(w) \/ OpenOriginal(w) \/ MissOriginal(w)
             \/ OpenImageFails(w) \/ CreateOriginal(w) \/ CopyOriginal(w) \/ CopyOriginalFails(w)
             \/ UndoOriginal(w) \/ CreateCopy(w) \/ WriteCopy(w) \/ WriteCopyFails(w)
             \/ LoadTemp(w) \/ UseFails(w) \/ StartResize(w) \/ FinishResize(w)
             \/ ResizeFails(w) \/ Unmake(w)
    <2>1. /\ \A v \in Workers : Busy(v)' => Busy(v)
          /\ UNCHANGED <<tasksCh, inProgressTasks, wTask, reqPc, reqThumb>>
      BY <1>4, <1>type
         DEF PrepareFails, LockImage, OpenOriginal, MissOriginal, OpenImageFails, CreateOriginal,
             CopyOriginal, CopyOriginalFails, UndoOriginal, CreateCopy, WriteCopy, WriteCopyFails,
             LoadTemp, UseFails, StartResize, FinishResize, ResizeFails, Unmake
    <2> QED BY <2>1
  <1> QED BY <1>1, <1>2, <1>3, <1>4 DEF WorkerStep

LEMMA OwnershipOther ==
    ASSUME TypeInv, TaskOwnership,
           \/ StopService \/ ShutdownStep \/ ShutdownExpired
           \/ Evict \/ Restart \/ Finished \/ UNCHANGED vars
    PROVE  TaskOwnership'
  <1> USE DEF TaskOwnership, TasksRegistered, TasksDistinct, Sending, Busy,
              serviceVars, requestVars, workerVars, shutdownUnchanged
  <1>1. CASE DropTask
    <2>1. \A i \in 1..Len(tasksCh') :
            i \in Int /\ i + 1 \in 1..Len(tasksCh) /\ i + 1 # 1 /\ tasksCh'[i] = tasksCh[i + 1]
      BY <1>1, TailElements DEF DropTask, TypeInv, TypeOK
    <2>2. UNCHANGED <<inProgressTasks, reqPc, reqThumb, wPc, wTask>>
      BY <1>1 DEF DropTask
    <2>3. \A i, j \in 1..Len(tasksCh') : tasksCh'[i] = tasksCh'[j] => i = j
      BY <2>1
    <2> QED BY <2>1, <2>2, <2>3
  <1>2. CASE Restart
    <2>1. 1..Len(tasksCh') = {}
      BY <1>2 DEF Restart
    <2>2. \A r \in Requests : reqPc'[r] # "send"
      BY <1>2 DEF Restart, Answers, Contents
    <2>3. \A w \in Workers : wPc'[w] = "idle"
      BY <1>2 DEF Restart
    <2> QED BY <2>1, <2>2, <2>3
  <1>3. CASE \/ StopService \/ CloseTasks \/ EndDrain \/ ShutdownOk \/ ShutdownExpired
             \/ Evict \/ Finished \/ UNCHANGED vars
    BY <1>3 DEF StopService, CloseTasks, EndDrain, ShutdownOk, ShutdownExpired, Evict, Finished, vars
  <1> QED BY <1>1, <1>2, <1>3 DEF ShutdownStep

LEMMA OwnershipStep == TypeInv /\ TaskOwnership /\ [Next]_vars => TaskOwnership'
BY OwnershipRequest, OwnershipWorker, OwnershipOther DEF Next

(* At any moment a thumbnail has at most one of: a call that is sending its *)
(* task, a place in tasksCh, a worker.  So no two workers ever generate the *)
(* same thumbnail, for any number of calls and workers.                     *)
THEOREM OneOwner == Spec => []TaskOwnership
BY TypeInit, TypeStep, OwnershipInit, OwnershipStep, PTL DEF Spec

-----------------------------------------------------------------------------
(* The locks of the original images *)

LEMMA LockInit == Init => ImageLocked
BY ThumbnailsAssumption DEF ThumbnailsAssumption, Init, ImageLocked, LockedPcs

LEMMA LockStep == TypeInv /\ ImageLocked /\ [Next]_vars => ImageLocked'
  <1> SUFFICES ASSUME TypeInv, ImageLocked, [Next]_vars PROVE ImageLocked'
    OBVIOUS
  <1>type. /\ wPc \in [Workers -> WorkerPcs]
           /\ wTask \in [Workers -> ThumbnailIDs \cup {NoTask}]
           /\ openImageLocks \in [Files -> Workers \cup {NoWorker}]
           /\ NoWorker \notin Workers
    BY ThumbnailsAssumption DEF ThumbnailsAssumption, TypeInv, TypeOK
  <1> USE DEF ImageLocked, LockedPcs, source
  <1>1. ASSUME NEW r \in Requests, Call(r) \/ RequestStep(r) \/ Cancel(r)
        PROVE  ImageLocked'
    <2>1. UNCHANGED <<openImageLocks, wPc, wTask>>
      BY <1>1 DEF Call, RequestStep, Lookup, OpenHit, OpenMiss, Register, SendTask, Poll, Reopen,
                  Serve, Cancel, requestUnchanged, workerVars
    <2> QED BY <2>1
  <1>2. ASSUME NEW w \in Workers, WorkerStep(w)
        PROVE  ImageLocked'
    <2>task. Busy(w) => wTask[w].file \in Files
      BY ThumbnailIDParts DEF TypeInv, WorkersOK
    <2>1. CASE LockImage(w)
      <3>1. /\ openImageLocks[wTask[w].file] = NoWorker
            /\ openImageLocks' = [openImageLocks EXCEPT ![wTask[w].file] = w]
            /\ wPc' = [wPc EXCEPT ![w] = "open"] /\ wTask' = wTask /\ wPc[w] = "start"
        BY <2>1 DEF LockImage, LockFree, Processing, Goes
      <3> QED BY <3>1, <2>task, <1>type DEF Busy
    <2>2. CASE OpenOriginal(w) \/ OpenImageFails(w) \/ UndoOriginal(w)
      <3>1. /\ openImageLocks' = [openImageLocks EXCEPT ![wTask[w].file] = NoWorker]
            /\ wPc' \in {[wPc EXCEPT ![w] = "use"], [wPc EXCEPT ![w] = "release"]}
            /\ wTask' = wTask /\ wPc[w] \in LockedPcs
        BY <2>2 DEF OpenOriginal, OpenImageFails, UndoOriginal, UnlockImage, Processing, Goes
      <3> QED BY <3>1, <2>task, <1>type DEF Busy
    <2>3. CASE \/ MissOriginal(w) \/ CreateOriginal(w) \/ CopyOriginal(w) \/ CopyOriginalFails(w)
      <3>1. /\ \E pc \in LockedPcs : wPc' = [wPc EXCEPT ![w] = pc]
            /\ wPc[w] \in LockedPcs
            /\ UNCHANGED <<openImageLocks, wTask>>
        BY <2>3 DEF MissOriginal, CreateOriginal, CopyOriginal, CopyOriginalFails, Processing, Goes
      <3> QED BY <3>1, <1>type
    <2>4. CASE \/ PrepareFails(w) \/ CreateCopy(w) \/ WriteCopy(w) \/ WriteCopyFails(w)
               \/ LoadTemp(w) \/ UseFails(w) \/ StartResize(w) \/ FinishResize(w)
               \/ ResizeFails(w) \/ Unmake(w) \/ WorkerExit(w)
      <3>1. /\ \E pc \in WorkerPcs \ LockedPcs : wPc' = [wPc EXCEPT ![w] = pc]
            /\ wPc[w] \notin LockedPcs
            /\ UNCHANGED <<openImageLocks, wTask>>
        BY <2>4 DEF PrepareFails, CreateCopy, WriteCopy, WriteCopyFails, LoadTemp, UseFails,
                    StartResize, FinishResize, ResizeFails, Unmake, WorkerExit, Processing, Goes,
                    WorkerPcs
      <3> QED BY <3>1, <1>type
    <2>5. CASE TakeTask(w) \/ Release(w)
      <3>1. /\ \E pc \in {"start", "idle"} : wPc' = [wPc EXCEPT ![w] = pc]
            /\ \E t : wTask' = [wTask EXCEPT ![w] = t]
            /\ wPc[w] \notin LockedPcs
            /\ UNCHANGED openImageLocks
        BY <2>5 DEF TakeTask, Release, Goes
      <3> QED BY <3>1, <1>type
    <2> QED BY <1>2, <2>1, <2>2, <2>3, <2>4, <2>5 DEF WorkerStep
  <1>3. CASE \/ StopService \/ ShutdownStep \/ ShutdownExpired
             \/ Evict \/ Finished \/ UNCHANGED vars
    <2>1. UNCHANGED <<openImageLocks, wPc, wTask>>
      BY <1>3 DEF StopService, ShutdownStep, CloseTasks, DropTask, EndDrain, ShutdownOk,
                  ShutdownExpired, Evict, Finished, shutdownUnchanged, workerVars, vars
    <2> QED BY <2>1
  <1>4. CASE Restart
    BY <1>4, <1>type DEF Restart
  <1> QED BY <1>1, <1>2, <1>3, <1>4 DEF Next

(* Between the lookup of an original image and the moment it is open, its   *)
(* worker is the only one at that image, for any number of workers.         *)
THEOREM ImageLockSafe == Spec => []ImageLocked
BY TypeInit, TypeStep, LockInit, LockStep, PTL DEF Spec

-----------------------------------------------------------------------------
(* Files and their writers *)

(* The path of the file a worker writes.                                    *)
OutPath(w) == IF wPc[w] \in {"copy", "undo"} THEN source(w) ELSE wTask[w]

(* Two directory entries never share an inode.                              *)
LinksDistinct ==
    \A p, q \in Paths : link[p] = link[q] /\ link[p] # NoInode => p = q

(* The inode a worker writes is the file of its own path or unlinked.       *)
WritersAtHome ==
    \A w \in Workers, p \in Paths : wOut[w] # NoInode /\ link[p] = wOut[w] => p = OutPath(w)

FileInv == LinksDistinct /\ WritersAtHome /\ OneWriterPerFile

LEMMA FileInit == Init => FileInv
BY DEF Init, CacheInit, FileInv, LinksDistinct, WritersAtHome, OneWriterPerFile

(* No other worker writes the file that a worker is about to create: it has *)
(* the lock of the original, or owns the thumbnail.                         *)
LEMMA NoOtherWriter ==
    ASSUME TypeInv, TaskOwnership, ImageLocked, NEW w \in Workers, NEW p \in Paths,
           \/ wPc[w] = "download" /\ p = source(w)
           \/ wPc[w] \in {"use", "resize"} /\ p = wTask[w],
           NEW v \in Workers, v # w, wOut[v] # NoInode
    PROVE  OutPath(v) # p
  <1>1. wPc[v] \in {"copy", "undo", "write", "vips", "unmake"}
    BY DEF TypeInv, WorkersOK
  <1>2. /\ wTask[w] \in ThumbnailIDs /\ wTask[v] \in ThumbnailIDs
        /\ source(w) \in Files /\ source(v) \in Files
        /\ wTask[w] \notin Files /\ wTask[v] \notin Files
    BY <1>1, ThumbnailIDParts DEF TypeInv, WorkersOK, Busy, source
  <1>3. wTask[v] # wTask[w]
    BY <1>1 DEF TaskOwnership, TasksDistinct, Busy
  <1>4. CASE wPc[w] = "download" /\ p = source(w)
    BY <1>1, <1>2, <1>4 DEF ImageLocked, LockedPcs, OutPath
  <1>5. CASE wPc[w] \in {"use", "resize"} /\ p = wTask[w]
    BY <1>1, <1>2, <1>3, <1>5 DEF OutPath
  <1> QED BY <1>4, <1>5

(* os.Create by a worker.                                                   *)
LEMMA FileCreate ==
    ASSUME TypeInv, FileInv, NEW w \in Workers, NEW p \in Paths, CreateFile(p, Held),
           wOut' = [wOut EXCEPT ![w] = CreatedInode(p, Held)],
           OutPath(w)' = p,
           \A v \in Workers : v # w => OutPath(v)' = OutPath(v),
           \A v \in Workers : v # w /\ wOut[v] # NoInode => OutPath(v) # p
    PROVE  FileInv'
  <1> DEFINE i == CreatedInode(p, Held)
  <1>type. /\ link \in [Paths -> Inodes \cup {NoInode}]
           /\ wOut \in [Workers -> Inodes \cup {NoInode}]
           /\ NoInode \notin Inodes
    BY InodesAssumption DEF InodesAssumption, TypeInv, TypeOK, CacheTypeOK
  <1>1. /\ i \in Inodes
        /\ Cached(p) => i = link[p]
        /\ ~Cached(p) => i \in FreeInodes(Held)
    BY CreatedInodeType DEF CreateFile, TypeInv, TypeOK, CreatedInode
  <1>2. /\ link' = [link EXCEPT ![p] = i]
        /\ wOut' = [wOut EXCEPT ![w] = i]
    BY DEF CreateFile
  <1>3. \A q \in Paths : link[q] = i => q = p
    <2>1. CASE Cached(p)
      BY <1>1, <1>type, <2>1 DEF FileInv, LinksDistinct, Cached
    <2>2. CASE ~Cached(p)
      BY <1>1, <1>type, <2>2 DEF FreeInodes
    <2> QED BY <2>1, <2>2
  <1>4. \A v \in Workers : v # w => wOut[v] # i
    <2>1. CASE Cached(p)
      BY <1>1, <1>type, <2>1 DEF FileInv, WritersAtHome, Cached
    <2>2. CASE ~Cached(p)
      BY <1>1, <2>2 DEF FreeInodes, Held
    <2> QED BY <2>1, <2>2
  <1> HIDE DEF i
  <1>5. LinksDistinct'
    BY <1>2, <1>3, <1>type DEF FileInv, LinksDistinct
  <1>6. WritersAtHome'
    BY <1>1, <1>2, <1>3, <1>4, <1>type DEF FileInv, WritersAtHome
  <1>7. OneWriterPerFile'
    BY <1>1, <1>2, <1>4, <1>type DEF FileInv, OneWriterPerFile
  <1> QED BY <1>5, <1>6, <1>7 DEF FileInv

(* Every other step: files may go, writers may finish, paths stay.          *)
LEMMA FileShrink ==
    ASSUME TypeInv, FileInv,
           \A p \in Paths : link'[p] = link[p] \/ link'[p] = NoInode,
           \A w \in Workers : \/ wOut'[w] = NoInode
                              \/ wOut'[w] = wOut[w] /\ OutPath(w)' = OutPath(w)
    PROVE  FileInv'
BY DEF FileInv, LinksDistinct, WritersAtHome, OneWriterPerFile

(* The three steps that create a file.                                      *)
LEMMA FileCreateStep ==
    ASSUME TypeInv, TaskOwnership, ImageLocked, FileInv, NEW w \in Workers,
           CreateOriginal(w) \/ CreateCopy(w) \/ StartResize(w)
    PROVE  FileInv'
  <1>type. /\ wPc \in [Workers -> WorkerPcs]
           /\ Busy(w) => /\ source(w) \in Paths /\ wTask[w] \in Paths
    BY ThumbnailIDParts DEF TypeInv, TypeOK, WorkersOK, source, Paths
  <1>1. CASE CreateOriginal(w)
    <2>1. /\ wPc[w] = "download" /\ CreateFile(source(w), Held)
          /\ wOut' = [wOut EXCEPT ![w] = CreatedInode(source(w), Held)]
          /\ wPc' = [wPc EXCEPT ![w] = "copy"] /\ wTask' = wTask
      BY <1>1 DEF CreateOriginal, Goes, Processing
    <2>2. /\ OutPath(w)' = source(w)
          /\ \A v \in Workers : v # w => OutPath(v)' = OutPath(v)
      BY <2>1, <1>type DEF OutPath, source
    <2>3. \A v \in Workers : v # w /\ wOut[v] # NoInode => OutPath(v) # source(w)
      BY <2>1, <1>type, NoOtherWriter DEF Busy
    <2> QED BY <2>1, <2>2, <2>3, <1>type, FileCreate DEF Busy
  <1>2. CASE CreateCopy(w) \/ StartResize(w)
    <2>1. /\ wPc[w] \in {"use", "resize"} /\ CreateFile(wTask[w], Held)
          /\ wOut' = [wOut EXCEPT ![w] = CreatedInode(wTask[w], Held)]
          /\ \E pc \in {"write", "vips"} : wPc' = [wPc EXCEPT ![w] = pc]
          /\ wTask' = wTask
      BY <1>2 DEF CreateCopy, StartResize, Goes, Processing
    <2>2. /\ OutPath(w)' = wTask[w]
          /\ \A v \in Workers : v # w => OutPath(v)' = OutPath(v)
      BY <2>1, <1>type DEF OutPath, source
    <2>3. \A v \in Workers : v # w /\ wOut[v] # NoInode => OutPath(v) # wTask[w]
      BY <2>1, <1>type, NoOtherWriter DEF Busy
    <2> QED BY <2>1, <2>2, <2>3, <1>type, FileCreate DEF Busy
  <1> QED BY <1>1, <1>2

(* The other steps add no link and no writer.                               *)
LEMMA FileFootprint ==
    ASSUME TypeInv, [Next]_vars,
           ~ \E w \in Workers : CreateOriginal(w) \/ CreateCopy(w) \/ StartResize(w)
    PROVE  /\ \A p \in Paths : link'[p] = link[p] \/ link'[p] = NoInode
           /\ \A w \in Workers : \/ wOut'[w] = NoInode
                                 \/ wOut'[w] = wOut[w] /\ OutPath(w)' = OutPath(w)
  <1>type. /\ wPc \in [Workers -> WorkerPcs]
           /\ wOut \in [Workers -> Inodes \cup {NoInode}]
           /\ link \in [Paths -> Inodes \cup {NoInode}]
           /\ wTask \in [Workers -> ThumbnailIDs \cup {NoTask}]
    BY DEF TypeInv, TypeOK, CacheTypeOK
  <1>1. CASE \E r \in Requests : Call(r) \/ RequestStep(r) \/ Cancel(r)
    <2>1. UNCHANGED <<wOut, wPc, wTask, link>>
      BY <1>1 DEF Call, RequestStep, Lookup, OpenHit, OpenMiss, Register, SendTask, Poll, Reopen,
                  Serve, Cancel, requestUnchanged, workerVars, cacheVars
    <2> QED BY <2>1 DEF OutPath, source
  <1>2. ASSUME NEW w \in Workers, WorkerStep(w)
        PROVE  /\ \A p \in Paths : link'[p] = link[p] \/ link'[p] = NoInode
               /\ \A v \in Workers : \/ wOut'[v] = NoInode
                                     \/ wOut'[v] = wOut[v] /\ OutPath(v)' = OutPath(v)
    <2>1. \A v \in Workers : v # w => wOut'[v] = wOut[v] /\ OutPath(v)' = OutPath(v)
      <3>1. \A v \in Workers : v # w => wOut'[v] = wOut[v] /\ wPc'[v] = wPc[v] /\ wTask'[v] = wTask[v]
        BY <1>2, <1>type
           DEF WorkerStep, TakeTask, PrepareFails, LockImage, OpenOriginal, MissOriginal,
               OpenImageFails, CreateOriginal, CopyOriginal, CopyOriginalFails, UndoOriginal,
               CreateCopy, WriteCopy, WriteCopyFails, LoadTemp, UseFails, StartResize,
               FinishResize, ResizeFails, Unmake, Release, WorkerExit, Goes, Processing
      <3> QED BY <3>1 DEF OutPath, source
    <2>2. CASE \/ CopyOriginal(w) \/ UndoOriginal(w) \/ WriteCopy(w) \/ WriteCopyFails(w)
               \/ FinishResize(w) \/ Unmake(w)
      <3>1. wOut'[w] = NoInode
        BY <2>2, <1>type DEF CopyOriginal, UndoOriginal, WriteCopy, WriteCopyFails, FinishResize, Unmake
      <3>2. \A p \in Paths : link'[p] = link[p] \/ link'[p] = NoInode
        BY <2>2, <1>type DEF CopyOriginal, UndoOriginal, WriteCopy, WriteCopyFails, FinishResize,
                             Unmake, FillFile, CleanUp, RemoveFile, RemoveFails, RemoveThumbnail,
                             cacheVars
      <3> QED BY <2>1, <3>1, <3>2
    <2>3. CASE CopyOriginalFails(w) \/ ResizeFails(w)
      <3>1. /\ UNCHANGED <<wOut, wTask, link>>
            /\ \/ wPc[w] = "copy" /\ wPc'[w] = "undo"
               \/ wPc[w] \in {"resize", "vips"} /\ wPc'[w] = "unmake"
        BY <2>3, <1>type DEF CopyOriginalFails, ResizeFails, Goes, Processing, cacheVars
      <3> QED BY <2>1, <3>1 DEF OutPath, source
    <2>4. CASE \/ TakeTask(w) \/ PrepareFails(w) \/ LockImage(w) \/ OpenOriginal(w) \/ MissOriginal(w)
               \/ OpenImageFails(w) \/ LoadTemp(w) \/ UseFails(w) \/ Release(w) \/ WorkerExit(w)
      <3>1. /\ UNCHANGED <<wOut, link>>
            /\ wPc[w] \notin {"copy", "undo", "write", "vips", "unmake"}
        BY <2>4 DEF TakeTask, PrepareFails, LockImage, OpenOriginal, MissOriginal, OpenImageFails,
                    LoadTemp, UseFails, Release, WorkerExit, cacheVars
      <3>2. wOut[w] = NoInode
        BY <3>1 DEF TypeInv, WorkersOK
      <3> QED BY <2>1, <3>1, <3>2
    <2> QED BY <1>2, <2>2, <2>3, <2>4 DEF WorkerStep
  <1>3. CASE \/ StopService \/ ShutdownStep \/ ShutdownExpired \/ Finished \/ UNCHANGED vars
    <2>1. UNCHANGED <<wOut, wPc, wTask, link>>
      BY <1>3 DEF StopService, ShutdownStep, CloseTasks, DropTask, EndDrain, ShutdownOk,
                  ShutdownExpired, Finished, shutdownUnchanged, workerVars, cacheVars, vars
    <2> QED BY <2>1 DEF OutPath, source
  <1>4. CASE Evict
    <2>1. UNCHANGED <<wOut, wPc, wTask>>
      BY <1>4 DEF Evict, workerVars
    <2>2. \A p \in Paths : link'[p] = link[p] \/ link'[p] = NoInode
      BY <1>4, <1>type DEF Evict, RemoveFile
    <2> QED BY <2>1, <2>2 DEF OutPath, source
  <1>5. CASE Restart
    BY <1>5 DEF Restart, cacheVars
  <1> QED BY <1>1, <1>2, <1>3, <1>4, <1>5 DEF Next

LEMMA FileStep ==
    TypeInv /\ TaskOwnership /\ ImageLocked /\ FileInv /\ [Next]_vars => FileInv'
  <1> SUFFICES ASSUME TypeInv, TaskOwnership, ImageLocked, FileInv, [Next]_vars
               PROVE  FileInv'
    OBVIOUS
  <1>1. CASE \E w \in Workers : CreateOriginal(w) \/ CreateCopy(w) \/ StartResize(w)
    BY <1>1, FileCreateStep
  <1>2. CASE ~ \E w \in Workers : CreateOriginal(w) \/ CreateCopy(w) \/ StartResize(w)
    BY <1>2, FileFootprint, FileShrink
  <1> QED BY <1>1, <1>2

(* The state of the service and of its files, step by step.                 *)
ServiceInv == TypeInv /\ TaskOwnership /\ ImageLocked /\ FileInv

LEMMA ServiceInvariant == Spec => []ServiceInv
BY TypeInit, TypeStep, OwnershipInit, OwnershipStep, LockInit, LockStep, FileInit, FileStep, PTL
   DEF Spec, ServiceInv

(* No two workers write through the same inode, although cache files are    *)
(* truncated in place and the cleaners unlink files that are being written. *)
THEOREM OneWriter == Spec => []OneWriterPerFile
  <1>1. ServiceInv => OneWriterPerFile
    BY DEF ServiceInv, FileInv
  <1> QED BY <1>1, ServiceInvariant, PTL

-----------------------------------------------------------------------------
(* Shutdown *)

(* The channel is closed before Shutdown drains it, and Shutdown returns    *)
(* nil only when every worker has left; a worker that has left stays away.  *)
ShutdownInv ==
    /\ shutdownPc \in {"draining", "waiting", "ok", "expired"} => chClosed
    /\ shutdownPc = "ok" => workersDone

LEMMA ShutdownInit == Init => ShutdownInv
BY DEF Init, ShutdownInv

(* What a step of a worker leaves alone, and that a worker that has left    *)
(* its loop takes no step.                                                  *)
LEMMA WorkerFrame ==
    ASSUME TypeInv, NEW w \in Workers, WorkerStep(w)
    PROVE  /\ wPc[w] # "exited"
           /\ UNCHANGED <<stopped, chClosed, shutdownPc, restarts, reqPc, reqThumb, reqFd>>
           /\ \A v \in Workers : v # w =>
                /\ wPc'[v] = wPc[v] /\ wTask'[v] = wTask[v] /\ wSrc'[v] = wSrc[v]
                /\ wTemp'[v] = wTemp[v] /\ wOut'[v] = wOut[v]
  <1>type. /\ wPc \in [Workers -> WorkerPcs]
           /\ wTask \in [Workers -> ThumbnailIDs \cup {NoTask}]
           /\ wSrc \in [Workers -> Inodes \cup {NoInode}]
           /\ wTemp \in [Workers -> Contents]
           /\ wOut \in [Workers -> Inodes \cup {NoInode}]
    BY DEF TypeInv, TypeOK
  <1> QED
    BY <1>type
       DEF WorkerStep, TakeTask, PrepareFails, LockImage, OpenOriginal, MissOriginal,
           OpenImageFails, CreateOriginal, CopyOriginal, CopyOriginalFails, UndoOriginal,
           CreateCopy, WriteCopy, WriteCopyFails, LoadTemp, UseFails, StartResize, FinishResize,
           ResizeFails, Unmake, Release, WorkerExit, Goes, Processing, workerUnchanged, requestVars

(* What a step of a request leaves alone.                                   *)
LEMMA RequestFrame ==
    ASSUME NEW r \in Requests, Call(r) \/ RequestStep(r) \/ Cancel(r)
    PROVE  UNCHANGED <<stopped, chClosed, openImageLocks, wPc, wTask, wSrc, wTemp, wOut,
                       shutdownPc, restarts, link, data, unremoved>>
BY DEF Call, RequestStep, Lookup, OpenHit, OpenMiss, Register, SendTask, Poll, Reopen, Serve,
       Cancel, requestUnchanged, serviceVars, workerVars, cacheVars

LEMMA ShutdownInvStep == TypeInv /\ ShutdownInv /\ [Next]_vars => ShutdownInv'
  <1> SUFFICES ASSUME TypeInv, ShutdownInv, [Next]_vars PROVE ShutdownInv'
    OBVIOUS
  <1> USE DEF ShutdownInv, workersDone
  <1>1. ASSUME NEW r \in Requests, Call(r) \/ RequestStep(r) \/ Cancel(r)
        PROVE  ShutdownInv'
    BY <1>1, RequestFrame
  <1>2. ASSUME NEW w \in Workers, WorkerStep(w)
        PROVE  ShutdownInv'
    BY <1>2, WorkerFrame
  <1>3. CASE StopService \/ CloseTasks \/ DropTask \/ EndDrain \/ ShutdownOk \/ ShutdownExpired
    BY <1>3 DEF StopService, CloseTasks, closeTasksCh, DropTask, EndDrain, ShutdownOk,
                ShutdownExpired, shutdownUnchanged, workerVars
  <1>4. CASE Restart
    BY <1>4 DEF Restart
  <1>5. CASE Evict \/ Finished \/ UNCHANGED vars
    BY <1>5 DEF Evict, Finished, vars, serviceVars, workerVars
  <1> QED BY <1>1, <1>2, <1>3, <1>4, <1>5 DEF Next, ShutdownStep

LEMMA ShutdownInvariant == Spec => [](TypeInv /\ ShutdownInv)
BY TypeInit, TypeStep, ShutdownInit, ShutdownInvStep, PTL DEF Spec

(* Shutdown that returned nil was not too early: no step after it, of a     *)
(* worker or of a late call, writes to a cache file, for any number of      *)
(* workers and any tasks that were queued when it began.                    *)
THEOREM ShutdownStopsWrites == Spec => NoWriteAfterShutdown
  <1>1. TypeInv /\ ShutdownInv /\ [Next]_vars => [shutdownPc = "ok" => data' = data]_vars
    <2> SUFFICES ASSUME TypeInv, ShutdownInv, Next, shutdownPc = "ok" PROVE data' = data
      BY DEF vars, cacheVars
    <2>1. ASSUME NEW r \in Requests, Call(r) \/ RequestStep(r) \/ Cancel(r)
          PROVE  data' = data
      BY <2>1, RequestFrame
    <2>2. ASSUME NEW w \in Workers, WorkerStep(w)
          PROVE  FALSE
      BY <2>2, WorkerFrame DEF ShutdownInv, workersDone
    <2>3. CASE \/ StopService \/ CloseTasks \/ DropTask \/ EndDrain \/ ShutdownOk
               \/ ShutdownExpired \/ Evict \/ Restart \/ Finished
      BY <2>3 DEF StopService, CloseTasks, DropTask, EndDrain, ShutdownOk, ShutdownExpired,
                  shutdownUnchanged, Evict, RemoveFile, Restart, Finished, vars, cacheVars
    <2> QED BY <2>1, <2>2, <2>3 DEF Next, ShutdownStep
  <1> QED BY <1>1, ShutdownInvariant, PTL DEF Spec, NoWriteAfterShutdown

-----------------------------------------------------------------------------
(* No task is forgotten *)

(* Somebody is responsible for t.                                           *)
Owned(t) ==
    \/ \E r \in Requests : Sending(r) /\ reqThumb[r] = t
    \/ \E i \in 1..Len(tasksCh) : tasksCh[i] = t
    \/ \E w \in Workers : Busy(w) /\ wTask[w] = t

(* Where the elements of a queue go: the converses of AppendElements and    *)
(* TailElements.                                                            *)
LEMMA AppendKeeps ==
    ASSUME NEW S, NEW s \in Seq(S), NEW x \in S
    PROVE  /\ \A i \in 1..Len(s) : i \in 1..Len(Append(s, x)) /\ Append(s, x)[i] = s[i]
           /\ Len(s) + 1 \in 1..Len(Append(s, x)) /\ Append(s, x)[Len(s) + 1] = x
OBVIOUS

LEMMA TailKeeps ==
    ASSUME NEW S, NEW s \in Seq(S), s # <<>>, NEW i \in 1..Len(s)
    PROVE  \/ s[i] = Head(s)
           \/ \E j \in 1..Len(Tail(s)) : Tail(s)[j] = s[i]
  <1>1. CASE i = 1
    BY <1>1
  <1>2. CASE i # 1
    <2>1. i - 1 \in 1..Len(Tail(s)) /\ Tail(s)[i - 1] = s[i]
      BY <1>2
    <2> QED BY <2>1
  <1> QED BY <1>1, <1>2

(* A step loses an owned task only by ending it or, in Shutdown, by         *)
(* dropping it from the closed channel.                                     *)
LEMMA OwnedStep ==
    ASSUME TypeInv, ShutdownInv, NEW t \in inProgressTasks, Owned(t), ~chClosed, [Next]_vars,
           t \in inProgressTasks'
    PROVE  Owned(t)'
  <1>type. /\ wPc \in [Workers -> WorkerPcs]
           /\ wTask \in [Workers -> ThumbnailIDs \cup {NoTask}]
           /\ reqPc \in [Requests -> RequestPcs]
           /\ reqThumb \in [Requests -> ThumbnailIDs \cup {NoTask}]
           /\ tasksCh \in Seq(ThumbnailIDs)
    BY DEF TypeInv, TypeOK
  <1> USE DEF Owned, Sending, Busy
  <1>1. ASSUME NEW r \in Requests, Call(r) \/ RequestStep(r) \/ Cancel(r)
        PROVE  Owned(t)'
    <2>1. UNCHANGED <<wPc, wTask>>
      BY <1>1, RequestFrame
    <2>2. CASE SendTask(r)
      <3>1. /\ reqPc[r] = "send" /\ tasksCh' = Append(tasksCh, reqThumb[r])
            /\ reqPc' = [reqPc EXCEPT ![r] = "wait"] /\ reqThumb' = reqThumb
            /\ reqThumb[r] \in ThumbnailIDs
        BY <2>2 DEF SendTask, GoTo, TypeInv, RequestsOK
      <3>2. CASE \E q \in Requests : Sending(q) /\ reqThumb[q] = t
        <4>1. CASE reqThumb[r] = t
          BY <3>1, <4>1, <1>type, AppendKeeps
        <4>2. CASE reqThumb[r] # t
          BY <3>1, <3>2, <4>2, <1>type
        <4> QED BY <4>1, <4>2
      <3>3. CASE \E i \in 1..Len(tasksCh) : tasksCh[i] = t
        BY <3>1, <3>3, <1>type, AppendKeeps
      <3> QED BY <2>1, <3>2, <3>3
    <2>3. CASE Call(r) \/ Lookup(r) \/ Register(r) \/ Poll(r) \/ Reopen(r) \/ Serve(r) \/ Cancel(r)
      <3>1. tasksCh' = tasksCh /\ reqPc[r] # "send"
            /\ \A q \in Requests : q # r => reqPc'[q] = reqPc[q] /\ reqThumb'[q] = reqThumb[q]
        BY <2>3, <1>type DEF Call, Lookup, OpenHit, OpenMiss, Register, Poll, Reopen, Serve, Cancel,
                             GoTo, serviceVars
      <3> QED BY <2>1, <3>1
    <2> QED BY <1>1, <2>2, <2>3 DEF RequestStep
  <1>2. ASSUME NEW w \in Workers, WorkerStep(w)
        PROVE  Owned(t)'
    <2>1. UNCHANGED <<reqPc, reqThumb>>
          /\ \A v \in Workers : v # w => wPc'[v] = wPc[v] /\ wTask'[v] = wTask[v]
      BY <1>2, WorkerFrame
    <2>2. CASE TakeTask(w)
      <3>1. /\ wPc[w] = "idle" /\ tasksCh # <<>> /\ wTask'[w] = Head(tasksCh)
            /\ tasksCh' = Tail(tasksCh) /\ wPc'[w] = "start"
        BY <2>2, <1>type DEF TakeTask, Goes
      <3>2. CASE \E i \in 1..Len(tasksCh) : tasksCh[i] = t
        BY <3>1, <3>2, <1>type, TailKeeps
      <3> QED BY <2>1, <3>1, <3>2
    <2>3. CASE Release(w)
      <3>1. /\ inProgressTasks' = inProgressTasks \ {wTask[w]} /\ tasksCh' = tasksCh
        BY <2>3 DEF Release, DeleteTask
      <3> QED BY <2>1, <3>1
    <2>4. CASE WorkerExit(w)
      BY <2>1, <2>4 DEF WorkerExit, Processing
    <2>5. CASE \/ PrepareFails(w) \/ LockImage(w) \/ OpenOriginal(w) \/ MissOriginal(w)
               \/ OpenImageFails(w) \/ CreateOriginal(w) \/ CopyOriginal(w) \/ CopyOriginalFails(w)
               \/ UndoOriginal(w) \/ CreateCopy(w) \/ WriteCopy(w) \/ WriteCopyFails(w)
               \/ LoadTemp(w) \/ UseFails(w) \/ StartResize(w) \/ FinishResize(w)
               \/ ResizeFails(w) \/ Unmake(w)
      <3>1. UNCHANGED <<tasksCh, wTask>> /\ Busy(w)'
        BY <2>5, <1>type
           DEF PrepareFails, LockImage, OpenOriginal, MissOriginal, OpenImageFails, CreateOriginal,
               CopyOriginal, CopyOriginalFails, UndoOriginal, CreateCopy, WriteCopy, WriteCopyFails,
               LoadTemp, UseFails, StartResize, FinishResize, ResizeFails, Unmake, Goes, Processing
      <3> QED BY <2>1, <3>1
    <2> QED BY <1>2, <2>2, <2>3, <2>4, <2>5 DEF WorkerStep
  <1>3. CASE \/ StopService \/ ShutdownStep \/ ShutdownExpired \/ Evict \/ Finished \/ UNCHANGED vars
    <2>1. UNCHANGED <<tasksCh, reqPc, reqThumb, wPc, wTask>>
      BY <1>3 DEF ShutdownInv, StopService, ShutdownStep, CloseTasks, DropTask, EndDrain,
                  ShutdownOk, ShutdownExpired, shutdownUnchanged, Evict, Finished, vars,
                  serviceVars, requestVars, workerVars
    <2> QED BY <2>1
  <1>4. CASE Restart
    BY <1>4 DEF Restart
  <1> QED BY <1>1, <1>2, <1>3, <1>4 DEF Next

LEMMA OrphanStep == TypeInv /\ ShutdownInv /\ NoOrphanTask /\ [Next]_vars => NoOrphanTask'
  <1> SUFFICES ASSUME TypeInv, ShutdownInv, NoOrphanTask, [Next]_vars,
                      NEW t \in inProgressTasks', ~chClosed'
               PROVE  Owned(t)'
    BY DEF NoOrphanTask, Owned
  <1>1. CASE t \in inProgressTasks /\ ~chClosed
    BY <1>1, OwnedStep DEF NoOrphanTask, Owned
  <1>2. CASE t \notin inProgressTasks
    <2>1. PICK r \in Requests : Register(r) /\ t = reqThumb[r] /\ reqThumb[r] \notin inProgressTasks
      <3>1. ASSUME NEW w \in Workers, WorkerStep(w) PROVE inProgressTasks' \subseteq inProgressTasks
        BY <3>1
           DEF WorkerStep, TakeTask, PrepareFails, LockImage, OpenOriginal, MissOriginal,
               OpenImageFails, CreateOriginal, CopyOriginal, CopyOriginalFails, UndoOriginal,
               CreateCopy, WriteCopy, WriteCopyFails, LoadTemp, UseFails, StartResize, FinishResize,
               ResizeFails, Unmake, Release, DeleteTask, WorkerExit, Processing
      <3>2. CASE \/ StopService \/ ShutdownStep \/ ShutdownExpired
                 \/ Evict \/ Restart \/ Finished \/ UNCHANGED vars
        BY <1>2, <3>2 DEF StopService, ShutdownStep, CloseTasks, DropTask, EndDrain, ShutdownOk,
                          ShutdownExpired, shutdownUnchanged, Evict, Restart, Finished, vars,
                          serviceVars
      <3>3. ASSUME NEW r \in Requests, Call(r) \/ RequestStep(r) \/ Cancel(r), ~Register(r)
            PROVE  inProgressTasks' = inProgressTasks
        BY <3>3 DEF Call, RequestStep, Lookup, OpenHit, OpenMiss, SendTask, Poll, Reopen, Serve,
                    Cancel, serviceVars
      <3>4. ASSUME NEW r \in Requests, Register(r)
            PROVE  t = reqThumb[r] /\ reqThumb[r] \notin inProgressTasks
        BY <1>2, <3>4 DEF Register, AddTask
      <3> QED BY <1>2, <3>1, <3>2, <3>3, <3>4 DEF Next
    <2> QED BY <2>1 DEF Register, GoTo, Owned, Sending, TypeInv, TypeOK
  <1>3. CASE chClosed
    <2>1. inProgressTasks' = {}
      <3>1. ASSUME NEW w \in Workers, WorkerStep(w) PROVE FALSE
        BY <1>3, <3>1, WorkerFrame
      <3>2. ASSUME NEW r \in Requests, Call(r) \/ RequestStep(r) \/ Cancel(r) PROVE FALSE
        BY <1>3, <3>2, RequestFrame
      <3>3. CASE \/ StopService \/ ShutdownStep \/ ShutdownExpired
                 \/ Evict \/ Finished \/ UNCHANGED vars
        BY <1>3, <3>3 DEF StopService, ShutdownStep, CloseTasks, closeTasksCh, DropTask, EndDrain,
                          ShutdownOk, ShutdownExpired, Evict, Finished, vars, serviceVars
      <3>4. CASE Restart
        BY <3>4 DEF Restart
      <3> QED BY <3>1, <3>2, <3>3, <3>4 DEF Next
    <2> QED BY <2>1
  <1> QED BY <1>1, <1>2, <1>3

(* No entry of inProgressTasks is forgotten, in any interleaving of calls,  *)
(* cancellations, failures and workers: as long as the channel is open an   *)
(* entry has a sender, a place in the queue or a worker, so no later call   *)
(* polls for a thumbnail that nobody makes.                                 *)
THEOREM NothingForgotten == Spec => []NoOrphanTask
  <1>1. Init => NoOrphanTask
    BY DEF Init, NoOrphanTask
  <1> QED BY <1>1, OrphanStep, TypeInit, TypeStep, ShutdownInit, ShutdownInvStep, PTL DEF Spec

-----------------------------------------------------------------------------
(* The service implements SingleFlight *)

(* Worker w generates thumbnail t.                                          *)
Generates(w, t) == Busy(w) /\ wTask[w] = t

(* What generator(t) is, without CHOOSE: a busy worker is the generator of  *)
(* its task, and a thumbnail without one has none.                          *)
GeneratorsKnown ==
    \A t \in ThumbnailIDs :
      /\ \A w \in Workers : Generates(w, t) => generator(t) = w
      /\ (\A w \in Workers : ~Generates(w, t)) => generator(t) = NoWorker

(* Because tasks are distinct, CHOOSE has one worker to choose from.        *)
LEMMA Generators == TasksDistinct => GeneratorsKnown
  <1> SUFFICES ASSUME TasksDistinct, NEW t \in ThumbnailIDs
               PROVE  /\ \A w \in Workers : Generates(w, t) => generator(t) = w
                      /\ (\A w \in Workers : ~Generates(w, t)) => generator(t) = NoWorker
    BY DEF GeneratorsKnown
  <1>1. ASSUME NEW w \in Workers, Generates(w, t)
        PROVE  generator(t) = w
    <2> DEFINE g == CHOOSE v \in Workers : Busy(v) /\ wTask[v] = t
    <2>1. \E v \in Workers : Busy(v) /\ wTask[v] = t
      BY <1>1 DEF Generates
    <2>2. g \in Workers /\ Busy(g) /\ wTask[g] = t
      BY <2>1
    <2>3. generator(t) = g
      BY <2>1 DEF generator
    <2>4. g = w
      BY <1>1, <2>2 DEF TasksDistinct, Generates
    <2> QED BY <2>3, <2>4
  <1>2. ASSUME \A w \in Workers : ~Generates(w, t)
        PROVE  generator(t) = NoWorker
    BY <1>2 DEF generator, Generates
  <1> QED BY <1>1, <1>2

LEMMA GeneratorsNext == (TasksDistinct => GeneratorsKnown)'
BY Generators, PTL

(* Whoever generates what before a step and after it.                       *)
LEMMA SameGenerators ==
    ASSUME TasksDistinct, TasksDistinct',
           NEW t \in ThumbnailIDs, \A w \in Workers : Generates(w, t)' <=> Generates(w, t)
    PROVE  generator(t)' = generator(t)
  <1>1. GeneratorsKnown /\ GeneratorsKnown'
    BY Generators, GeneratorsNext
  <1>2. CASE \E w \in Workers : Generates(w, t)
    BY <1>1, <1>2 DEF GeneratorsKnown
  <1>3. CASE \A w \in Workers : ~Generates(w, t)
    BY <1>1, <1>3 DEF GeneratorsKnown
  <1> QED BY <1>2, <1>3

LEMMA FlightStart == Init => Flight!FlightInit
  <1> SUFFICES ASSUME Init PROVE Flight!FlightInit
    OBVIOUS
  <1>1. \A t \in ThumbnailIDs : generator(t) = NoWorker
    BY DEF Init, generator, Busy
  <1> QED BY <1>1 DEF Init, Flight!FlightInit

(* A step that changes neither the set of tasks in progress nor who works   *)
(* on what is a stuttering step of the abstract specification.              *)
LEMMA FlightStutter ==
    ASSUME TaskOwnership, TaskOwnership', inProgressTasks' = inProgressTasks,
           \A w \in Workers, t \in ThumbnailIDs : Generates(w, t)' <=> Generates(w, t)
    PROVE  UNCHANGED Flight!flightVars
  <1>1. \A t \in ThumbnailIDs : generator(t)' = generator(t)
    BY SameGenerators DEF TaskOwnership
  <1> QED BY <1>1 DEF Flight!flightVars

(* A worker that receives a task starts to work on a claimed thumbnail that *)
(* nobody works on.                                                         *)
LEMMA FlightWork ==
    ASSUME TypeInv, TaskOwnership, TaskOwnership', NEW w \in Workers, TakeTask(w)
    PROVE  \E k \in ThumbnailIDs : Flight!Work(k, w)
  <1>type. /\ wPc \in [Workers -> WorkerPcs]
           /\ wTask \in [Workers -> ThumbnailIDs \cup {NoTask}]
           /\ tasksCh \in Seq(ThumbnailIDs)
           /\ NoWorker \notin Workers
    BY ThumbnailsAssumption DEF ThumbnailsAssumption, TypeInv, TypeOK
  <1>known. GeneratorsKnown /\ GeneratorsKnown'
    BY Generators, GeneratorsNext DEF TaskOwnership
  <1>1. PICK k \in ThumbnailIDs : 1 \in 1..Len(tasksCh) /\ tasksCh[1] = k /\ Head(tasksCh) = k
    BY <1>type, TailElements DEF TakeTask
  <1>2. /\ wPc[w] = "idle" /\ wPc' = [wPc EXCEPT ![w] = "start"]
        /\ wTask' = [wTask EXCEPT ![w] = k] /\ inProgressTasks' = inProgressTasks
    BY <1>1 DEF TakeTask, Goes
  <1>3. /\ k \in inProgressTasks
        /\ \A v \in Workers : ~Generates(v, k)
    BY <1>1 DEF TaskOwnership, TasksRegistered, TasksDistinct, Generates
  <1>4. \A t \in ThumbnailIDs : ~Generates(w, t)
    BY <1>2 DEF Generates, Busy
  <1>5. \A t \in ThumbnailIDs : generator(t) # w
    BY <1>4, <1>known, <1>type DEF GeneratorsKnown
  <1>6. generator(k) = NoWorker
    BY <1>1, <1>3, <1>known DEF GeneratorsKnown
  <1>7. generator(k)' = w
    <2>1. Generates(w, k)'
      BY <1>2, <1>type DEF Generates, Busy
    <2> QED BY <2>1, <1>1, <1>known DEF GeneratorsKnown
  <1>8. ASSUME NEW t \in ThumbnailIDs, t # k
        PROVE  generator(t)' = generator(t)
    <2>1. \A v \in Workers : Generates(v, t)' <=> Generates(v, t)
      BY <1>2, <1>4, <1>8, <1>type DEF Generates, Busy
    <2> QED BY <2>1, SameGenerators DEF TaskOwnership
  <1>9. [t \in ThumbnailIDs |-> generator(t)]'
          = [[t \in ThumbnailIDs |-> generator(t)] EXCEPT ![k] = w]
    BY <1>1, <1>7, <1>8
  <1> QED BY <1>1, <1>2, <1>3, <1>5, <1>6, <1>9 DEF Flight!Work

(* A worker that releases its task was the one that worked on it.           *)
LEMMA FlightSettle ==
    ASSUME TypeInv, TaskOwnership, TaskOwnership', NEW w \in Workers, Release(w)
    PROVE  \E k \in ThumbnailIDs : Flight!Settle(k)
  <1>type. /\ wPc \in [Workers -> WorkerPcs]
           /\ wTask \in [Workers -> ThumbnailIDs \cup {NoTask}]
           /\ NoWorker \notin Workers
    BY ThumbnailsAssumption DEF ThumbnailsAssumption, TypeInv, TypeOK
  <1>known. GeneratorsKnown /\ GeneratorsKnown'
    BY Generators, GeneratorsNext DEF TaskOwnership
  <1>1. PICK k \in ThumbnailIDs : wTask[w] = k /\ Generates(w, k)
    BY DEF Release, TypeInv, WorkersOK, Generates, Busy
  <1>2. /\ wPc[w] = "release" /\ wPc' = [wPc EXCEPT ![w] = "idle"]
        /\ wTask' = [wTask EXCEPT ![w] = NoTask]
        /\ inProgressTasks' = inProgressTasks \ {k}
    BY <1>1 DEF Release, DeleteTask, Goes
  <1>3. generator(k) = w
    BY <1>1, <1>known DEF GeneratorsKnown
  <1>4. \A v \in Workers : v # w => ~Generates(v, k)
    BY <1>1 DEF TaskOwnership, TasksDistinct, Generates
  <1>5. generator(k)' = NoWorker
    <2>1. \A v \in Workers : ~Generates(v, k)'
      BY <1>2, <1>4, <1>type DEF Generates, Busy
    <2> QED BY <2>1, <1>1, <1>known DEF GeneratorsKnown
  <1>6. ASSUME NEW t \in ThumbnailIDs, t # k
        PROVE  generator(t)' = generator(t)
    <2>1. \A v \in Workers : Generates(v, t)' <=> Generates(v, t)
      BY <1>1, <1>2, <1>6, <1>type DEF Generates, Busy
    <2> QED BY <2>1, SameGenerators DEF TaskOwnership
  <1>7. [t \in ThumbnailIDs |-> generator(t)]'
          = [[t \in ThumbnailIDs |-> generator(t)] EXCEPT ![k] = NoWorker]
    BY <1>1, <1>5, <1>6
  <1> QED BY <1>1, <1>2, <1>3, <1>7, <1>type DEF Flight!Settle

(* Every step of the service is a step of the abstract specification, or a  *)
(* stuttering step of it.                                                   *)
LEMMA FlightStep ==
    TypeInv /\ TaskOwnership /\ TaskOwnership' /\ [Next]_vars
      => [Flight!FlightNext]_(Flight!flightVars)
  <1> SUFFICES ASSUME TypeInv, TaskOwnership, TaskOwnership', [Next]_vars
               PROVE  Flight!FlightNext \/ UNCHANGED Flight!flightVars
    OBVIOUS
  <1>type. /\ wPc \in [Workers -> WorkerPcs]
           /\ reqPc \in [Requests -> RequestPcs]
    BY DEF TypeInv, TypeOK
  <1>1. ASSUME NEW r \in Requests, Call(r) \/ RequestStep(r) \/ Cancel(r)
        PROVE  Flight!FlightNext \/ UNCHANGED Flight!flightVars
    <2>1. UNCHANGED <<wPc, wTask>>
      BY <1>1, RequestFrame
    <2>2. \A w \in Workers, t \in ThumbnailIDs : Generates(w, t)' <=> Generates(w, t)
      BY <2>1 DEF Generates, Busy
    <2>3. CASE Register(r) /\ reqThumb[r] \notin inProgressTasks
      <3>1. reqThumb[r] \in ThumbnailIDs
        BY <2>3 DEF Register, TypeInv, RequestsOK
      <3>2. \A t \in ThumbnailIDs : generator(t)' = generator(t)
        BY <2>2, SameGenerators DEF TaskOwnership
      <3>3. Flight!Claim(reqThumb[r])
        BY <2>3, <3>2 DEF Register, AddTask, Flight!Claim
      <3> QED BY <3>1, <3>3 DEF Flight!FlightNext
    <2>4. CASE ~(Register(r) /\ reqThumb[r] \notin inProgressTasks)
      <3>1. inProgressTasks' = inProgressTasks
        BY <1>1, <2>4 DEF Call, RequestStep, Register, Lookup, OpenHit, OpenMiss, SendTask, Poll,
                          Reopen, Serve, Cancel, serviceVars
      <3> QED BY <2>2, <3>1, FlightStutter
    <2> QED BY <2>3, <2>4
  <1>2. ASSUME NEW w \in Workers, WorkerStep(w)
        PROVE  Flight!FlightNext \/ UNCHANGED Flight!flightVars
    <2>1. CASE TakeTask(w)
      BY <2>1, FlightWork DEF Flight!FlightNext
    <2>2. CASE Release(w)
      BY <2>2, FlightSettle DEF Flight!FlightNext
    <2>3. CASE ~TakeTask(w) /\ ~Release(w)
      <3>1. /\ UNCHANGED <<inProgressTasks, wTask>>
            /\ \A v \in Workers : Busy(v)' <=> Busy(v)
        BY <1>2, <2>3, <1>type
           DEF WorkerStep, PrepareFails, LockImage, OpenOriginal, MissOriginal, OpenImageFails,
               CreateOriginal, CopyOriginal, CopyOriginalFails, UndoOriginal, CreateCopy,
               WriteCopy, WriteCopyFails, LoadTemp, UseFails, StartResize, FinishResize,
               ResizeFails, Unmake, WorkerExit, Goes, Processing, Busy
      <3> QED BY <3>1, FlightStutter DEF Generates
    <2> QED BY <2>1, <2>2, <2>3
  <1>3. CASE \/ StopService \/ ShutdownStep \/ ShutdownExpired \/ Evict \/ Finished \/ UNCHANGED vars
    <2>1. UNCHANGED <<inProgressTasks, wPc, wTask>>
      BY <1>3 DEF StopService, ShutdownStep, CloseTasks, DropTask, EndDrain, ShutdownOk,
                  ShutdownExpired, shutdownUnchanged, Evict, Finished, vars, serviceVars, workerVars
    <2> QED BY <2>1, FlightStutter DEF Generates, Busy
  <1>4. CASE Restart
    <2>1. inProgressTasks' = {} /\ \A w \in Workers : ~Busy(w)'
      BY <1>4 DEF Restart, Busy
    <2>2. \A t \in ThumbnailIDs : generator(t)' = NoWorker
      BY <2>1 DEF generator
    <2> QED BY <2>1, <2>2 DEF Flight!FlightNext, Flight!Reset
  <1> QED BY <1>1, <1>2, <1>3, <1>4 DEF Next

(* The thumbnail service implements the abstract single flight, for any     *)
(* number of calls, workers and thumbnails, through shutdowns and restarts: *)
(* a thumbnail is claimed by one call at a time, generated by one worker,   *)
(* once per claim, and released by the worker that generated it.            *)
THEOREM SingleFlightImplemented == Spec => ImplementsSingleFlight
BY FlightStart, FlightStep, TypeInit, TypeStep, OwnershipInit, OwnershipStep, PTL
   DEF Spec, ImplementsSingleFlight, Flight!FlightSpec

-----------------------------------------------------------------------------
(* What a step does to the files *)

(* os.Create truncates the file it opens, and touches no other.             *)
LEMMA CreateEffect ==
    ASSUME TypeInv, FileInv, NEW p \in Paths, CreateFile(p, Held)
    PROVE  /\ link'[p] = CreatedInode(p, Held) /\ link'[p] \in Inodes /\ data'[link'[p]] = "torn"
           /\ unremoved' = unremoved \ {p}
           /\ \A q \in Paths : q # p =>
                /\ link'[q] = link[q]
                /\ link[q] # NoInode => data'[link[q]] = data[link[q]]
  <1>type. /\ link \in [Paths -> Inodes \cup {NoInode}]
           /\ data \in [Inodes -> Contents]
           /\ NoInode \notin Inodes
    BY InodesAssumption DEF InodesAssumption, TypeInv, TypeOK, CacheTypeOK
  <1>1. PICK i \in Inodes : /\ i = CreatedInode(p, Held)
                            /\ Cached(p) => i = link[p]
                            /\ ~Cached(p) => i \in FreeInodes(Held)
    BY CreatedInodeType DEF CreateFile, TypeInv, TypeOK, CreatedInode
  <1>2. /\ link' = [link EXCEPT ![p] = i] /\ data' = [data EXCEPT ![i] = "torn"]
        /\ unremoved' = unremoved \ {p}
    BY <1>1 DEF CreateFile
  <1>3. \A q \in Paths : link[q] = i => q = p
    <2>1. CASE Cached(p)
      BY <1>1, <1>type, <2>1 DEF FileInv, LinksDistinct, Cached
    <2>2. CASE ~Cached(p)
      BY <1>1, <1>type, <2>2 DEF FreeInodes
    <2> QED BY <2>1, <2>2
  <1> QED BY <1>1, <1>2, <1>3, <1>type

(* The last write of a worker reaches its own file, if it is still there,   *)
(* and no other.                                                            *)
LEMMA FillEffect ==
    ASSUME TypeInv, FileInv, NEW w \in Workers, wOut[w] \in Inodes, NEW content \in Contents,
           FillFile(wOut[w], content), NEW p \in Paths
    PROVE  /\ link'[p] = link[p] /\ unremoved' = unremoved
           /\ \/ link[p] = NoInode
              \/ link[p] = wOut[w] /\ p = OutPath(w) /\ data'[link[p]] = content
              \/ link[p] # wOut[w] /\ data'[link[p]] = data[link[p]]
  <1>type. /\ link \in [Paths -> Inodes \cup {NoInode}]
           /\ data \in [Inodes -> Contents]
           /\ NoInode \notin Inodes
    BY InodesAssumption DEF InodesAssumption, TypeInv, TypeOK, CacheTypeOK
  <1> QED BY <1>type DEF FillFile, FileInv, WritersAtHome

(* os.Remove touches no other file.                                         *)
LEMMA RemoveEffect ==
    ASSUME TypeInv, NEW p \in Paths, RemoveFile(p)
    PROVE  /\ data' = data /\ link'[p] = NoInode /\ unremoved' = unremoved \ {p}
           /\ \A q \in Paths : q # p => link'[q] = link[q]
BY DEF TypeInv, TypeOK, CacheTypeOK, RemoveFile

(* A failed removal only leaves its mark.                                   *)
LEMMA CleanUpEffect ==
    ASSUME NEW p \in Paths, CleanUp(p)
    PROVE  \/ RemoveFile(p)
           \/ UNCHANGED <<link, data>> /\ unremoved' = unremoved \cup {p}
BY DEF CleanUp, RemoveFails

(* The steps of a worker that touch no file: none of them is a writer's.    *)
QuietStep(w) ==
    \/ TakeTask(w) \/ PrepareFails(w) \/ LockImage(w) \/ OpenOriginal(w) \/ MissOriginal(w)
    \/ OpenImageFails(w) \/ LoadTemp(w) \/ UseFails(w) \/ Release(w) \/ WorkerExit(w)
    \/ CopyOriginalFails(w) \/ ResizeFails(w)

LEMMA QuietEffect ==
    ASSUME NEW w \in Workers, QuietStep(w)
    PROVE  UNCHANGED <<link, data, unremoved, wOut>>
BY DEF QuietStep, TakeTask, PrepareFails, LockImage, OpenOriginal, MissOriginal, OpenImageFails,
       LoadTemp, UseFails, Release, WorkerExit, CopyOriginalFails, ResizeFails, cacheVars

(* The steps of everybody else, but for the cleaners and the restart.       *)
LEMMA OthersEffect ==
    ASSUME [Next]_vars, ~Restart, ~Evict, ~ \E w \in Workers : WorkerStep(w)
    PROVE  /\ UNCHANGED <<link, data, unremoved>>
           /\ UNCHANGED <<wPc, wTask, wSrc, wTemp, wOut, openImageLocks, restarts>>
  <1>1. ASSUME NEW r \in Requests, Call(r) \/ RequestStep(r) \/ Cancel(r)
        PROVE  /\ UNCHANGED <<link, data, unremoved>>
               /\ UNCHANGED <<wPc, wTask, wSrc, wTemp, wOut, openImageLocks, restarts>>
    BY <1>1, RequestFrame
  <1>2. CASE \/ StopService \/ ShutdownStep \/ ShutdownExpired \/ Finished \/ UNCHANGED vars
    BY <1>2 DEF StopService, ShutdownStep, CloseTasks, DropTask, EndDrain, ShutdownOk,
                ShutdownExpired, shutdownUnchanged, Finished, vars, workerVars, cacheVars
  <1> QED BY <1>1, <1>2 DEF Next

(* The paths of a worker's task.                                            *)
LEMMA TaskPaths ==
    ASSUME TypeInv, NEW w \in Workers, Busy(w)
    PROVE  /\ wTask[w] \in ThumbnailIDs /\ wTask[w] \in Paths /\ wTask[w] \notin Files
           /\ source(w) \in Files /\ source(w) \in Paths /\ source(w) \notin ThumbnailIDs
  <1>1. wTask[w] \in ThumbnailIDs
    BY DEF TypeInv, WorkersOK
  <1> QED BY <1>1, ThumbnailIDParts, ThumbnailsAssumption
          DEF ThumbnailsAssumption, source, Paths

-----------------------------------------------------------------------------
(* What a worker has in hand *)

(* Only copies of originals are written from a reader, and what vips reads  *)
(* is complete unless it is the preview of a RAW image.                     *)
WorkInHand ==
    \A w \in Workers :
      /\ wPc[w] = "write" => useOriginal(wTask[w])
      /\ wPc[w] \in {"resize", "vips"} => wTemp[w] = "whole" \/ ImageType[source(w)] = "raw"

LEMMA WorkStep == TypeInv /\ WorkInHand /\ [Next]_vars => WorkInHand'
  <1> SUFFICES ASSUME TypeInv, WorkInHand, [Next]_vars PROVE WorkInHand'
    OBVIOUS
  <1>type. /\ wPc \in [Workers -> WorkerPcs]
           /\ wTask \in [Workers -> ThumbnailIDs \cup {NoTask}]
           /\ wTemp \in [Workers -> Contents]
    BY DEF TypeInv, TypeOK
  <1> USE DEF WorkInHand, source
  <1>1. ASSUME NEW w \in Workers, WorkerStep(w)
        PROVE  WorkInHand'
    <2>1. \A v \in Workers : v # w =>
            wPc'[v] = wPc[v] /\ wTask'[v] = wTask[v] /\ wTemp'[v] = wTemp[v]
      BY <1>1, WorkerFrame
    <2>2. CASE CreateCopy(w)
      BY <2>1, <2>2, <1>type DEF CreateCopy, Goes, Processing
    <2>3. CASE LoadTemp(w)
      BY <2>1, <2>3, <1>type DEF LoadTemp, SizeMatches, Goes, Processing
    <2>4. CASE StartResize(w)
      BY <2>1, <2>4, <1>type DEF StartResize, Goes, Processing
    <2>5. CASE ~(CreateCopy(w) \/ LoadTemp(w) \/ StartResize(w))
      <3>1. wPc'[w] \notin {"write", "resize", "vips"}
        BY <1>1, <2>5, <1>type
           DEF WorkerStep, TakeTask, PrepareFails, LockImage, OpenOriginal, MissOriginal,
               OpenImageFails, CreateOriginal, CopyOriginal, CopyOriginalFails, UndoOriginal,
               WriteCopy, WriteCopyFails, UseFails, FinishResize, ResizeFails, Unmake, Release,
               WorkerExit, Goes
      <3> QED BY <2>1, <3>1
    <2> QED BY <2>2, <2>3, <2>4, <2>5
  <1>2. CASE Restart
    BY <1>2 DEF Restart
  <1>3. CASE Evict
    BY <1>3 DEF Evict, workerVars
  <1>4. CASE ~Restart /\ ~Evict /\ ~ \E w \in Workers : WorkerStep(w)
    BY <1>4, OthersEffect
  <1> QED BY <1>1, <1>2, <1>3, <1>4

-----------------------------------------------------------------------------
(* No incomplete file is left behind *)

(* A worker's step keeps a torn file of path p in the hands of its writer.  *)
LEMMA TornWorker ==
    ASSUME TypeInv, FileInv, WorkInHand, NEW w \in Workers, WorkerStep(w),
           NEW p \in Paths, ~IsCopy(p), WrittenOrAbsent(p)
    PROVE  WrittenOrAbsent(p)'
  <1>type. /\ link \in [Paths -> Inodes \cup {NoInode}]
           /\ wOut \in [Workers -> Inodes \cup {NoInode}]
           /\ NoInode \notin Inodes
           /\ wPc[w] \notin {"copy", "undo", "write", "vips", "unmake"} => wOut[w] = NoInode
           /\ wPc[w] \in {"copy", "undo", "write", "vips"} => wOut[w] \in Inodes
    BY InodesAssumption DEF InodesAssumption, TypeInv, TypeOK, CacheTypeOK, WorkersOK
  <1>task. Busy(w) => wTask[w] \in ThumbnailIDs /\ wTask[w] \in Paths /\ source(w) \in Paths
    BY TaskPaths
  <1>1. \A v \in Workers : v # w => wOut'[v] = wOut[v]
    BY <1>type, WorkerFrame
  <1> USE DEF WrittenOrAbsent, Holds, Cached, BeingWritten
  <1>2. ASSUME NEW c \in Paths, CreateFile(c, Held), wOut[w] = NoInode,
               wOut' = [wOut EXCEPT ![w] = CreatedInode(c, Held)]
        PROVE  WrittenOrAbsent(p)'
    <2>1. CASE p = c
      BY <1>2, <2>1, <1>type, CreateEffect
    <2>2. CASE p # c
      <3>1. /\ link'[p] = link[p] /\ (link[p] # NoInode => data'[link[p]] = data[link[p]])
            /\ p \in unremoved => p \in unremoved'
        BY <1>2, <2>2, CreateEffect
      <3> QED BY <1>1, <1>2, <3>1
    <2> QED BY <2>1, <2>2
  <1>3. CASE CreateOriginal(w)
    BY <1>2, <1>3, <1>type, <1>task DEF CreateOriginal, Busy
  <1>4. CASE CreateCopy(w) \/ StartResize(w)
    BY <1>2, <1>4, <1>type, <1>task DEF CreateCopy, StartResize, Busy
  <1>5. ASSUME NEW content \in Contents, content # "torn", FillFile(wOut[w], content),
               wOut[w] \in Inodes
        PROVE  WrittenOrAbsent(p)'
    <2>1. /\ link'[p] = link[p] /\ unremoved' = unremoved
          /\ \/ link[p] = NoInode
             \/ link[p] = wOut[w] /\ data'[link[p]] = content
             \/ link[p] # wOut[w] /\ data'[link[p]] = data[link[p]]
      BY <1>5, FillEffect
    <2> QED BY <1>1, <1>5, <2>1
  <1>6. CASE CopyOriginal(w) \/ WriteCopy(w)
    BY <1>5, <1>6, <1>type DEF CopyOriginal, WriteCopy, Contents
  <1>7. CASE FinishResize(w)
    BY <1>5, <1>7, <1>type DEF FinishResize, Contents
  <1>8. CASE WriteCopyFails(w)
    <2>1. UNCHANGED <<link, data, unremoved>> /\ wPc[w] = "write"
      BY <1>8 DEF WriteCopyFails, cacheVars
    <2>2. IsCopy(wTask[w]) /\ OutPath(w) = wTask[w]
      BY <2>1, <1>task DEF WorkInHand, IsCopy, OutPath, Busy
    <2>3. wOut[w] # NoInode => link[p] # wOut[w]
      BY <2>2 DEF FileInv, WritersAtHome
    <2> QED BY <1>1, <2>1, <2>3
  <1>9. ASSUME CleanUp(OutPath(w)), OutPath(w) \in Paths
        PROVE  WrittenOrAbsent(p)'
    <2>1. wOut[w] # NoInode /\ link[p] = wOut[w] => p = OutPath(w)
      BY DEF FileInv, WritersAtHome
    <2>2. CASE RemoveFile(OutPath(w))
      <3>1. /\ data' = data /\ link'[OutPath(w)] = NoInode
            /\ p # OutPath(w) => link'[p] = link[p] /\ (p \in unremoved => p \in unremoved')
        BY <1>9, <2>2, RemoveEffect
      <3> QED BY <1>1, <2>1, <3>1
    <2>3. CASE UNCHANGED <<link, data>> /\ unremoved' = unremoved \cup {OutPath(w)}
      BY <1>1, <2>1, <2>3
    <2> QED BY <1>9, <2>2, <2>3, CleanUpEffect
  <1>10. CASE UndoOriginal(w) \/ Unmake(w)
    <2>1. CleanUp(OutPath(w)) /\ OutPath(w) \in Paths
      BY <1>10, <1>task DEF UndoOriginal, Unmake, RemoveThumbnail, OutPath, Busy
    <2> QED BY <2>1, <1>9
  <1>11. CASE QuietStep(w)
    BY <1>11, QuietEffect
  <1> QED BY <1>3, <1>4, <1>6, <1>7, <1>8, <1>10, <1>11 DEF WorkerStep, QuietStep

LEMMA TornStep ==
    TypeInv /\ FileInv /\ WorkInHand /\ NoTornLeftBehind /\ [Next]_vars => NoTornLeftBehind'
  <1> SUFFICES ASSUME TypeInv, FileInv, WorkInHand, NoTornLeftBehind, [Next]_vars, restarts' = 0,
                      NEW p \in Paths, ~IsCopy(p)
               PROVE  WrittenOrAbsent(p)'
    BY DEF NoTornLeftBehind, IsCopy
  <1>1. CASE \E w \in Workers : WorkerStep(w)
    BY <1>1, TornWorker, WorkerFrame DEF NoTornLeftBehind
  <1>2. CASE Restart
    BY <1>2 DEF Restart, TypeInv, TypeOK
  <1>3. CASE Evict
    <2>1. PICK q \in Paths : RemoveFile(q)
      BY <1>3 DEF Evict
    <2>2. /\ data' = data /\ link'[q] = NoInode
          /\ p # q => link'[p] = link[p] /\ (p \in unremoved => p \in unremoved')
      BY <2>1, RemoveEffect
    <2>3. UNCHANGED <<wOut, restarts>>
      BY <1>3 DEF Evict, workerVars
    <2> QED BY <2>2, <2>3 DEF NoTornLeftBehind, WrittenOrAbsent, Holds, Cached, BeingWritten
  <1>4. CASE ~Restart /\ ~Evict /\ ~ \E w \in Workers : WorkerStep(w)
    BY <1>4, OthersEffect DEF NoTornLeftBehind, WrittenOrAbsent, Holds, Cached, BeingWritten
  <1> QED BY <1>1, <1>2, <1>3, <1>4

LEMMA WorkInvariant == Spec => [](ServiceInv /\ WorkInHand)
  <1>1. Init => WorkInHand
    BY DEF Init, WorkInHand
  <1>2. ServiceInv => TypeInv
    BY DEF ServiceInv
  <1> QED BY <1>1, <1>2, WorkStep, ServiceInvariant, PTL DEF Spec

(* As long as the process lives, an incomplete original image or resized    *)
(* thumbnail is only ever seen while its writer has it open and will        *)
(* complete it or try to remove it, or after that removal itself failed: no *)
(* interleaving of workers, cleaners and other failures leaves one behind.  *)
THEOREM NothingTornLeft == Spec => []NoTornLeftBehind
  <1>1. Init => NoTornLeftBehind
    BY DEF Init, CacheInit, NoTornLeftBehind, WrittenOrAbsent, Holds, Cached
  <1>2. ServiceInv => TypeInv /\ FileInv
    BY DEF ServiceInv
  <1> QED BY <1>1, <1>2, TornStep, WorkInvariant, PTL DEF Spec

-----------------------------------------------------------------------------
(* No thumbnail is made from part of an image *)

LEMMA DamageStep ==
    TypeInv /\ FileInv /\ WorkInHand /\ NoDamagedThumbnail /\ [Next]_vars => NoDamagedThumbnail'
  <1> SUFFICES ASSUME TypeInv, FileInv, WorkInHand, NoDamagedThumbnail, [Next]_vars,
                      NEW t \in ThumbnailIDs, Holds(t, "damaged")'
               PROVE  ImageType[t.file] = "raw"
    BY DEF NoDamagedThumbnail
  <1>path. t \in Paths
    BY ThumbnailIDParts
  <1> USE DEF Holds, Cached
  <1>same. ASSUME Holds(t, "damaged") PROVE ImageType[t.file] = "raw"
    BY <1>same DEF NoDamagedThumbnail
  <1>1. ASSUME NEW w \in Workers, WorkerStep(w)
        PROVE  ImageType[t.file] = "raw"
    <2>type. wPc[w] \in {"copy", "undo", "write", "vips"} => wOut[w] \in Inodes
      BY DEF TypeInv, WorkersOK
    <2>task. Busy(w) => wTask[w] \in Paths /\ source(w) \in Paths
      BY TaskPaths
    <2>1. ASSUME NEW c \in Paths, CreateFile(c, Held)
          PROVE  ImageType[t.file] = "raw"
      BY <1>path, <1>same, <2>1, CreateEffect
    <2>2. CASE CreateOriginal(w) \/ CreateCopy(w) \/ StartResize(w)
      BY <2>1, <2>2, <2>task DEF CreateOriginal, CreateCopy, StartResize, Busy
    <2>3. CASE CopyOriginal(w) \/ WriteCopy(w)
      <3>1. wOut[w] \in Inodes /\ FillFile(wOut[w], "whole") /\ "whole" \in Contents
        BY <2>3, <2>type DEF CopyOriginal, WriteCopy, Contents
      <3> QED BY <1>path, <1>same, <3>1, FillEffect
    <2>4. CASE FinishResize(w)
      <3>1. /\ wPc[w] = "vips" /\ wOut[w] \in Inodes
            /\ \E content \in {"whole", "damaged"} :
                 /\ FillFile(wOut[w], content)
                 /\ content = "damaged" => wTemp[w] # "whole"
        BY <2>4, <2>type DEF FinishResize
      <3>2. PICK content \in {"whole", "damaged"} :
              FillFile(wOut[w], content) /\ (content = "damaged" => wTemp[w] # "whole")
        BY <3>1
      <3>3. content \in Contents
        BY DEF Contents
      <3>4. CASE link[t] = wOut[w] /\ t = OutPath(w) /\ data'[link[t]] = content
        BY <3>1, <3>2, <3>4, <1>path, <3>3, FillEffect DEF WorkInHand, OutPath, source
      <3>5. CASE ~(link[t] = wOut[w] /\ t = OutPath(w) /\ data'[link[t]] = content)
        BY <3>1, <3>2, <3>3, <3>5, <1>path, <1>same, FillEffect
      <3> QED BY <3>4, <3>5
    <2>5. CASE UndoOriginal(w) \/ Unmake(w)
      <3>1. \E q \in Paths : RemoveFile(q) \/ UNCHANGED <<link, data>>
        BY <2>5, <2>task, CleanUpEffect DEF UndoOriginal, Unmake, RemoveThumbnail, Busy
      <3> QED BY <3>1, <1>path, <1>same, RemoveEffect
    <2>6. CASE WriteCopyFails(w)
      BY <2>6, <1>same DEF WriteCopyFails, cacheVars
    <2>7. CASE QuietStep(w)
      BY <2>7, <1>same, QuietEffect
    <2> QED BY <1>1, <2>2, <2>3, <2>4, <2>5, <2>6, <2>7 DEF WorkerStep, QuietStep
  <1>2. CASE Restart
    BY <1>2, <1>same DEF Restart, cacheVars
  <1>3. CASE Evict
    BY <1>3, <1>path, <1>same, RemoveEffect DEF Evict
  <1>4. CASE ~Restart /\ ~Evict /\ ~ \E w \in Workers : WorkerStep(w)
    BY <1>4, <1>same, OthersEffect
  <1> QED BY <1>1, <1>2, <1>3, <1>4

(* A thumbnail is never made from part of an image, even when a dead        *)
(* process left such a part in the cache of originals: the check of the     *)
(* temp file's size is enough for every format whose size is known.         *)
THEOREM NothingDamaged == Spec => []NoDamagedThumbnail
  <1>1. Init => NoDamagedThumbnail
    <2>1. \A t \in ThumbnailIDs : t \in Paths
      BY ThumbnailIDParts
    <2> QED BY <2>1 DEF Init, CacheInit, NoDamagedThumbnail, Holds, Cached
  <1>2. ServiceInv => TypeInv /\ FileInv
    BY DEF ServiceInv
  <1> QED BY <1>1, <1>2, DamageStep, WorkInvariant, PTL DEF Spec

-----------------------------------------------------------------------------
(* A complete original stays *)

(* A worker downloads an original only while the cache has none, provided   *)
(* a file that exists can be opened: the lookup and the download are under  *)
(* one lock, so nobody creates the file in between.                         *)
OnlyMissing == \A w \in Workers : wPc[w] = "download" => ~Cached(source(w))

LEMMA MissingStep ==
    ASSUME ~May("open"), ServiceInv, OnlyMissing, [Next]_vars
    PROVE  OnlyMissing'
  <1>type. /\ link \in [Paths -> Inodes \cup {NoInode}]
           /\ wPc \in [Workers -> WorkerPcs]
    BY DEF ServiceInv, TypeInv, TypeOK, CacheTypeOK
  <1>inv. TypeInv /\ FileInv /\ ImageLocked
    BY DEF ServiceInv
  <1>task. \A v \in Workers : wPc[v] = "download" =>
             source(v) \in Files /\ source(v) \in Paths /\ source(v) \notin ThumbnailIDs
    BY <1>inv, TaskPaths DEF Busy
  <1> USE DEF OnlyMissing, Cached
  <1>gone. ASSUME \A p \in Paths : link'[p] = link[p] \/ link'[p] = NoInode,
                  \A v \in Workers : wPc'[v] = "download" =>
                    wPc[v] = "download" /\ source(v)' = source(v)
           PROVE  OnlyMissing'
    BY <1>gone, <1>task
  <1>1. ASSUME NEW w \in Workers, WorkerStep(w)
        PROVE  OnlyMissing'
    <2>task. Busy(w) => wTask[w] \in ThumbnailIDs /\ wTask[w] \in Paths
                        /\ source(w) \in Files /\ source(w) \in Paths
      BY <1>inv, TaskPaths
    <2>1. \A v \in Workers : v # w => wPc'[v] = wPc[v] /\ source(v)' = source(v)
      BY <1>1, <1>inv, WorkerFrame DEF source
    <2>2. CASE MissOriginal(w)
      <3>1. /\ ~Cached(source(w)) /\ UNCHANGED <<link, wTask>>
        BY <2>2 DEF MissOriginal, Processing, cacheVars
      <3> QED BY <2>1, <3>1 DEF source
    <2>3. CASE ~MissOriginal(w)
      <3>1. wPc'[w] # "download"
        BY <1>1, <2>3, <1>type
           DEF WorkerStep, TakeTask, PrepareFails, LockImage, OpenOriginal,
               OpenImageFails, CreateOriginal, CopyOriginal, CopyOriginalFails, UndoOriginal,
               CreateCopy, WriteCopy, WriteCopyFails, LoadTemp, UseFails, StartResize,
               FinishResize, ResizeFails, Unmake, Release, WorkerExit, Goes
      <3>2. CASE CreateOriginal(w)
        <4>1. /\ wPc[w] = "download" /\ CreateFile(source(w), Held)
          BY <3>2 DEF CreateOriginal
        <4>2. \A v \in Workers : v # w /\ wPc[v] = "download" => source(v) # source(w)
          BY <1>inv, <1>task, <4>1 DEF ImageLocked, LockedPcs
        <4>3. \A v \in Workers : v # w /\ wPc[v] = "download" => link'[source(v)] = link[source(v)]
          BY <1>inv, <1>task, <4>1, <4>2, CreateEffect
        <4> QED BY <2>1, <3>1, <4>3
      <3>3. CASE CreateCopy(w) \/ StartResize(w)
        <4>1. CreateFile(wTask[w], Held) /\ wTask[w] \in ThumbnailIDs /\ wTask[w] \in Paths
          BY <3>3, <2>task DEF CreateCopy, StartResize, Busy
        <4>2. \A v \in Workers : wPc[v] = "download" => link'[source(v)] = link[source(v)]
          BY <1>inv, <1>task, <4>1, CreateEffect
        <4> QED BY <2>1, <3>1, <4>2
      <3>4. CASE ~(CreateOriginal(w) \/ CreateCopy(w) \/ StartResize(w))
        <4>1. \A p \in Paths : link'[p] = link[p] \/ link'[p] = NoInode
          <5>1. CASE QuietStep(w)
            BY <5>1, QuietEffect
          <5>2. CASE \/ CopyOriginal(w) \/ WriteCopy(w) \/ FinishResize(w) \/ WriteCopyFails(w)
                     \/ UndoOriginal(w) \/ Unmake(w)
            BY <5>2, <1>type DEF CopyOriginal, WriteCopy, FinishResize, FillFile, WriteCopyFails,
                                 cacheVars, UndoOriginal, Unmake, RemoveThumbnail, CleanUp,
                                 RemoveFile, RemoveFails
          <5> QED BY <1>1, <3>4, <5>1, <5>2 DEF WorkerStep, QuietStep
        <4> QED BY <1>gone, <2>1, <3>1, <4>1
      <3> QED BY <3>2, <3>3, <3>4
    <2> QED BY <2>2, <2>3
  <1>2. CASE Restart
    BY <1>2 DEF Restart
  <1>3. CASE Evict
    <2>1. UNCHANGED <<wPc, wTask>> /\ \A p \in Paths : link'[p] = link[p] \/ link'[p] = NoInode
      BY <1>3, <1>type DEF Evict, RemoveFile, workerVars
    <2> QED BY <1>gone, <2>1 DEF source
  <1>4. CASE ~Restart /\ ~Evict /\ ~ \E w \in Workers : WorkerStep(w)
    BY <1>4, OthersEffect DEF source
  <1> QED BY <1>1, <1>2, <1>3, <1>4

(* What one step may do to a complete original.                             *)
LEMMA OriginalStep ==
    ASSUME ServiceInv, OnlyMissing, [Next]_vars, NEW f \in Files, Holds(f, "whole")
    PROVE  link'[f] = NoInode \/ Holds(f, "whole")'
  <1>inv. TypeInv /\ FileInv /\ f \in Paths
    BY DEF ServiceInv, Paths
  <1> USE DEF Holds, Cached
  <1>1. ASSUME NEW w \in Workers, WorkerStep(w)
        PROVE  link'[f] = NoInode \/ Holds(f, "whole")'
    <2>type. wPc[w] \in {"copy", "undo", "write", "vips"} => wOut[w] \in Inodes
      BY <1>inv DEF TypeInv, WorkersOK
    <2>task. Busy(w) => /\ wTask[w] \in Paths /\ wTask[w] \notin Files
                        /\ source(w) \in Paths
      BY <1>inv, TaskPaths
    <2>1. ASSUME NEW c \in Paths, CreateFile(c, Held), c # f
          PROVE  Holds(f, "whole")'
      BY <1>inv, <2>1, CreateEffect
    <2>2. CASE CreateOriginal(w) \/ CreateCopy(w) \/ StartResize(w)
      BY <2>1, <2>2, <2>task DEF CreateOriginal, CreateCopy, StartResize, Busy, OnlyMissing
    <2>3. CASE CopyOriginal(w) \/ WriteCopy(w)
      <3>1. wOut[w] \in Inodes /\ FillFile(wOut[w], "whole") /\ "whole" \in Contents
        BY <2>3, <2>type DEF CopyOriginal, WriteCopy, Contents
      <3> QED BY <1>inv, <3>1, FillEffect
    <2>4. CASE FinishResize(w)
      <3>1. /\ wOut[w] \in Inodes /\ OutPath(w) # f
            /\ \E content \in Contents : FillFile(wOut[w], content)
        BY <2>4, <2>type, <2>task DEF FinishResize, OutPath, Busy, Contents
      <3> QED BY <1>inv, <3>1, FillEffect
    <2>5. CASE UndoOriginal(w) \/ Unmake(w)
      <3>1. \E q \in Paths : RemoveFile(q) \/ UNCHANGED <<link, data>>
        BY <2>5, <2>task, CleanUpEffect DEF UndoOriginal, Unmake, RemoveThumbnail, Busy
      <3> QED BY <3>1, <1>inv, RemoveEffect
    <2>6. CASE WriteCopyFails(w)
      BY <2>6 DEF WriteCopyFails, cacheVars
    <2>7. CASE QuietStep(w)
      BY <2>7, QuietEffect
    <2> QED BY <1>1, <2>2, <2>3, <2>4, <2>5, <2>6, <2>7 DEF WorkerStep, QuietStep
  <1>2. CASE Restart
    BY <1>2 DEF Restart, cacheVars
  <1>3. CASE Evict
    BY <1>3, <1>inv, RemoveEffect DEF Evict
  <1>4. CASE ~Restart /\ ~Evict /\ ~ \E w \in Workers : WorkerStep(w)
    BY <1>4, OthersEffect
  <1> QED BY <1>1, <1>2, <1>3, <1>4

(* When a cache file that exists can be opened, no step overwrites a        *)
(* complete original image: any number of workers that want thumbnails of   *)
(* one image download it at most once while it stays in the cache.  When    *)
(* the open may fail, openImage downloads over the file it could not read.  *)
THEOREM OriginalsStay == ~May("open") => (Spec => WholeOriginalStays)
  <1> SUFFICES ASSUME ~May("open") PROVE Spec => WholeOriginalStays
    OBVIOUS
  <1>1. Init => OnlyMissing
    BY DEF Init, OnlyMissing
  <1>2. ServiceInv /\ OnlyMissing /\ [Next]_vars => OnlyMissing'
    BY MissingStep
  <1>3. ServiceInv /\ OnlyMissing /\ [Next]_vars
          => [\A f \in Files : Holds(f, "whole") => link'[f] = NoInode \/ Holds(f, "whole")']_vars
    BY OriginalStep
  <1> QED BY <1>1, <1>2, <1>3, ServiceInvariant, PTL DEF Spec, WholeOriginalStays

=============================================================================
