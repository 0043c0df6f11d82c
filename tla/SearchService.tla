---------------------------- MODULE SearchService ----------------------------
(***************************************************************************)
(* The life of the search index (search/service.go): loaded from its file   *)
(* or built by Start, refreshed by a background goroutine when it is a day  *)
(* old, refreshed at any time by HTTP handlers, saved to the file before it *)
(* is published in memory.  Nothing serialises the refreshes: two of them   *)
(* truncate and write the one file at the same time.                        *)
(*                                                                          *)
(* One unit of the clock is the refresh interval of 24 hours; the remote is *)
(* taken to be different at every value of the clock.                       *)
(***************************************************************************)
EXTENDS Integers, FiniteSets

CONSTANTS
    Handlers,     (* the calls of handleRefreshIndex, each made once          *)
    Service,      (* the goroutine of Start and then startBackgroundRefresh   *)
    NoIndex,      (* the nil index                                            *)
    Torn,         (* a file that cannot be decoded                            *)
    MaxTries,     (* how often Start tries to build the index; 6 in the code  *)
    MaxClock,     (* bound on the clock                                       *)
    MaxRestarts,  (* bound on the number of times the process dies            *)
    Events        (* "list", "create", "write", "close", "open": these fail;  *)
                  (* "shutdown"                                               *)

Refreshers == Handlers \cup {Service}

(* A searchIndex: the listing of the remote it was built from, and          *)
(* CreatedAt.                                                               *)
Indexes == [listing : 0..MaxClock, created : 0..MaxClock]

ASSUME SearchAssumption ==
    /\ Service \notin Handlers
    /\ NoIndex \notin Indexes /\ Torn \notin Indexes /\ Torn # NoIndex
    /\ MaxTries \in Nat \ {0}
    /\ MaxClock \in Nat
    /\ MaxRestarts \in Nat

VARIABLES
    clock,
    index,        (* s.index                                                  *)
    file,         (* the content of the index file; NoIndex when missing      *)
    writing,      (* who has created the file and not closed it               *)
    mixed,        (* whose writes overlap with those of another one           *)
    doubtful,     (* history: the last save was not alone, or failed late     *)
    refPc,        (* where each RefreshIndex is                               *)
    refIndex,     (* the index it has built                                   *)
    svcPc,        (* where the service's goroutine is                         *)
    loaded,       (* what loadIndexFromCache returned                         *)
    tries,        (* the counter of Start's loop                              *)
    shutdownPc,
    restarts

fileVars == <<file, writing, mixed, doubtful>>
refVars == <<refPc, refIndex>>
svcVars == <<svcPc, loaded, tries>>
vars == <<clock, index, fileVars, refVars, svcVars, shutdownPc, restarts>>

SeededOnlyBackground == svcPc = "stopped"

(* stoppedCh is closed by Start when it fails and by the background         *)
(* goroutine when it ends.                                                  *)
Stopped == svcPc \in {"failed", "stopped"}

May(event) == event \in Events

Init ==
    /\ clock = 0
    /\ index = NoIndex
    /\ file = NoIndex
    /\ writing = {}
    /\ mixed = {}
    /\ doubtful = FALSE
    /\ refPc = [x \in Refreshers |-> "none"]
    /\ refIndex = [x \in Refreshers |-> NoIndex]
    /\ svcPc = "load"
    /\ loaded = NoIndex
    /\ tries = 0
    /\ shutdownPc = "running"
    /\ restarts = 0

-----------------------------------------------------------------------------
(* RefreshIndex and saveIndexToCache *)

refUnchanged == UNCHANGED <<clock, svcVars, shutdownPc, restarts>>

Goes(x, pc) == refPc' = [refPc EXCEPT ![x] = pc]

(* GetAllFiles.                                                             *)
List(x) ==
    /\ refPc[x] = "list"
    /\ refIndex' = [refIndex EXCEPT ![x] = [listing |-> clock, created |-> clock]]
    /\ Goes(x, "build")
    /\ UNCHANGED <<index, fileVars>>
    /\ refUnchanged

(* newPrefixIndex; CreatedAt is taken when it is ready.                     *)
Built(x) == [refIndex[x] EXCEPT !.created = clock]

SeededPublishFirst(x) == index' = Built(x)

(* The index is saved before the state in memory is updated.                *)
SaveFirst(x) == index' = index

Build(x) ==
    /\ refPc[x] = "build"
    /\ refIndex' = [refIndex EXCEPT ![x] = Built(x)]
    /\ SaveFirst(x)
    /\ Goes(x, "create")
    /\ UNCHANGED fileVars
    /\ refUnchanged

(* Those between their first effect on the file and the end of RefreshIndex *)
(* or of the assignment in Start.                                           *)
InTheMiddle ==
    {x \in Refreshers : refPc[x] \in {"write", "publish"}}
        \cup (IF svcPc = "assign" THEN {Service} ELSE {})

(* dir.Create truncates the file under everyone who is writing it.          *)
Create(x) ==
    /\ refPc[x] = "create"
    /\ file' = Torn
    /\ writing' = writing \cup {x}
    /\ mixed' = IF writing = {} THEN mixed ELSE mixed \cup writing \cup {x}
    /\ doubtful' = (InTheMiddle # {})
    /\ Goes(x, "write")
    /\ UNCHANGED <<index, refIndex>>
    /\ refUnchanged

(* What can be in the file when x has written all of its index: that index, *)
(* unless others wrote at the same time; then also what the others left, or *)
(* a mixture nobody can decode.                                             *)
Written(x) == IF x \in mixed THEN {refIndex[x], file, Torn} ELSE {refIndex[x]}

Write(x) ==
    /\ refPc[x] = "write"
    /\ \E content \in Written(x) : file' = content
    /\ writing' = writing \ {x}
    /\ mixed' = mixed \ {x}
    /\ Goes(x, "publish")
    /\ UNCHANGED <<index, refIndex, doubtful>>
    /\ refUnchanged

(* An error returns early: before the file is touched, or with a truncated  *)
(* file left behind, which may be what another one has written meanwhile.   *)
Fail(x) ==
    /\ \/ refPc[x] = "list" /\ May("list")
       \/ refPc[x] = "create" /\ May("create")
       \/ refPc[x] = "write" /\ May("write")
    /\ writing' = writing \ {x}
    /\ mixed' = mixed \ {x}
    /\ file' \in IF x \in mixed THEN {file, Torn} ELSE {file}
    /\ Goes(x, "failed")
    /\ UNCHANGED <<index, refIndex, doubtful>>
    /\ refUnchanged

(* Close fails, or the last write, when all that matters is in the file:    *)
(* RefreshIndex returns an error and keeps the old index in memory.         *)
FailLate(x) ==
    /\ refPc[x] = "write" /\ May("close")
    /\ file' \in Written(x)
    /\ writing' = writing \ {x}
    /\ mixed' = mixed \ {x}
    /\ doubtful' = TRUE
    /\ Goes(x, "failed")
    /\ UNCHANGED <<index, refIndex>>
    /\ refUnchanged

(* The new index is published under the lock.                               *)
Publish(x) ==
    /\ refPc[x] = "publish"
    /\ index' = refIndex[x]
    /\ Goes(x, "ok")
    /\ UNCHANGED <<fileVars, refIndex>>
    /\ refUnchanged

RefreshStep(x) ==
    \/ List(x) \/ Build(x) \/ Create(x) \/ Write(x) \/ Publish(x)
    \/ Fail(x) \/ FailLate(x)

(* handleRefreshIndex, from the moment the web server runs.                 *)
Refresh(h) ==
    /\ refPc[h] = "none"
    /\ Goes(h, "list")
    /\ UNCHANGED <<index, fileVars, refIndex>>
    /\ refUnchanged

-----------------------------------------------------------------------------
(* Start and startBackgroundRefresh *)

svcUnchanged == UNCHANGED <<clock, file, writing, mixed, shutdownPc, restarts>>

(* loadIndexFromCache: a file that is missing or cannot be decoded gives    *)
(* nil, and so does a good one that cannot be opened or read, or whose      *)
(* prefixes have other lengths than those of this build (Check).            *)
Load ==
    /\ svcPc = "load"
    /\ \/ loaded' = IF file = Torn THEN NoIndex ELSE file
       \/ May("open") /\ loaded' = NoIndex
    /\ svcPc' = "assign"
    /\ doubtful' = (doubtful \/ InTheMiddle # {})
    /\ UNCHANGED <<index, refVars, tries>>
    /\ svcUnchanged

(* Start assigns s.index without the lock, nil or not, over whatever a      *)
(* handler may have published; without an index it begins to build one.     *)
Assign ==
    /\ svcPc = "assign"
    /\ index' = loaded
    /\ IF loaded = NoIndex
         THEN svcPc' = "building" /\ tries' = 1 /\ Goes(Service, "list")
         ELSE svcPc' = "background" /\ UNCHANGED <<tries, refPc>>
    /\ UNCHANGED <<loaded, refIndex, doubtful>>
    /\ svcUnchanged

(* The loop of Start ends after the sixth error.                            *)
OutOfTries == tries >= MaxTries

SeededSameTry == tries

NextTry == tries + 1

SeededIgnoreError == svcPc' = "background"

(* The deferred function of Start: after an error stoppedCh is closed       *)
(* instead of starting the goroutine.                                       *)
GiveUp == svcPc' = "failed"

(* RefreshIndex returned to Start.                                          *)
StartResult ==
    /\ svcPc = "building"
    /\ \/ /\ refPc[Service] = "ok"
          /\ svcPc' = "background" /\ Goes(Service, "none") /\ UNCHANGED tries
       \/ /\ refPc[Service] = "failed" /\ OutOfTries
          /\ GiveUp /\ Goes(Service, "none") /\ UNCHANGED tries
       \/ /\ refPc[Service] = "failed" /\ ~OutOfTries
          /\ tries' = NextTry /\ Goes(Service, "list") /\ UNCHANGED svcPc
    /\ UNCHANGED <<index, loaded, refIndex, doubtful>>
    /\ svcUnchanged

SeededNeverDue == FALSE

(* time.Since(createdAt) < refreshInterval does not hold.                   *)
RefreshDue == clock - index.created >= 1

(* The ticker: the goroutine reads CreatedAt, which panics on a nil index   *)
(* and takes the process down, and refreshes an old index.                  *)
BackgroundTick ==
    /\ svcPc = "background"
    /\ IF index = NoIndex
         THEN svcPc' = "panicked" /\ UNCHANGED refPc
         ELSE RefreshDue /\ svcPc' = "refreshing" /\ Goes(Service, "list")
    /\ UNCHANGED <<index, loaded, tries, refIndex, doubtful>>
    /\ svcUnchanged

(* RefreshIndex returned to the goroutine; an error is only logged.         *)
BackgroundResult ==
    /\ svcPc = "refreshing"
    /\ refPc[Service] \in {"ok", "failed"}
    /\ svcPc' = "background"
    /\ Goes(Service, "none")
    /\ UNCHANGED <<index, loaded, tries, refIndex, doubtful>>
    /\ svcUnchanged

(* The goroutine sees that stopCh is closed.                                *)
BackgroundStop ==
    /\ svcPc = "background"
    /\ shutdownPc # "running"
    /\ svcPc' = "stopped"
    /\ UNCHANGED <<index, refVars, loaded, tries, doubtful>>
    /\ svcUnchanged

ServiceStep == Load \/ Assign \/ StartResult \/ BackgroundTick \/ BackgroundResult

-----------------------------------------------------------------------------
(* Shutdown and the environment *)

shutdownUnchanged == UNCHANGED <<clock, index, fileVars, refVars, svcVars, restarts>>

BeginShutdown ==
    /\ May("shutdown")
    /\ shutdownPc = "running"
    /\ shutdownPc' = "waiting"
    /\ shutdownUnchanged

SeededNoWait == TRUE

(* Shutdown returns nil when stoppedCh is closed.                           *)
SeenStopped == Stopped

ShutdownOk ==
    /\ shutdownPc = "waiting"
    /\ SeenStopped
    /\ shutdownPc' = "ok"
    /\ shutdownUnchanged

ShutdownExpired ==
    /\ shutdownPc = "waiting"
    /\ shutdownPc' = "expired"
    /\ shutdownUnchanged

Tick ==
    /\ clock < MaxClock
    /\ clock' = clock + 1
    /\ UNCHANGED <<index, fileVars, refVars, svcVars, shutdownPc, restarts>>

(* The process ends, however it ends, and is started again.                 *)
Restart ==
    /\ restarts < MaxRestarts
    /\ restarts' = restarts + 1
    /\ index' = NoIndex
    /\ file' \in IF mixed = {} THEN {file} ELSE {file, Torn}
    /\ writing' = {}
    /\ mixed' = {}
    /\ doubtful' = FALSE
    /\ refPc' = [x \in Refreshers |->
                   IF x \in Handlers /\ refPc[x] # "none" THEN "lost" ELSE "none"]
    /\ svcPc' = "load"
    /\ loaded' = NoIndex
    /\ tries' = 0
    /\ shutdownPc' = "running"
    /\ UNCHANGED <<clock, refIndex>>

(* Nothing is left to do: every goroutine sleeps or has ended.              *)
Finished ==
    /\ \A x \in Refreshers : refPc[x] \in {"none", "ok", "failed", "lost"}
    /\ svcPc \in {"background", "failed", "stopped", "panicked"}
    /\ UNCHANGED vars

Next ==
    \/ \E x \in Refreshers : RefreshStep(x)
    \/ \E h \in Handlers : Refresh(h)
    \/ ServiceStep \/ BackgroundStop
    \/ BeginShutdown \/ ShutdownOk \/ ShutdownExpired
    \/ Tick \/ Restart \/ Finished

Spec == Init /\ [][Next]_vars

(* Goroutines that can run are run.  The select of the background goroutine *)
(* chooses at random when both of its channels are ready, so it cannot      *)
(* prefer the ticker for ever.                                              *)
Fairness ==
    /\ \A x \in Refreshers : WF_vars(RefreshStep(x))
    /\ WF_vars(ServiceStep)
    /\ SF_vars(BackgroundStop)
    /\ WF_vars(ShutdownOk)

FairSpec == Spec /\ Fairness

-----------------------------------------------------------------------------
(* Properties *)

RefreshPcs == {"none", "list", "build", "create", "write", "publish", "ok", "failed", "lost"}

(* Every variable keeps its type, and Start tries six times at most.        *)
TypeOK ==
    /\ clock \in 0..MaxClock
    /\ index \in Indexes \cup {NoIndex}
    /\ file \in Indexes \cup {NoIndex, Torn}
    /\ writing \in SUBSET Refreshers
    /\ mixed \in SUBSET writing
    /\ doubtful \in BOOLEAN
    /\ refPc \in [Refreshers -> RefreshPcs]
    /\ refIndex \in [Refreshers -> Indexes \cup {NoIndex}]
    /\ svcPc \in {"load", "assign", "building", "background", "refreshing", "failed",
                  "stopped", "panicked"}
    /\ loaded \in Indexes \cup {NoIndex}
    /\ tries \in 0..MaxTries
    /\ shutdownPc \in {"running", "waiting", "ok", "expired"}
    /\ restarts \in 0..MaxRestarts

(* The background goroutine never meets a nil index, although Start assigns *)
(* nil without the lock while handlers publish: it is only started after an *)
(* index is in place, and nothing takes it away.                            *)
BackgroundHasIndex ==
    svcPc \in {"background", "refreshing", "stopped"} => index # NoIndex


(* What the comment in RefreshIndex wants, "Save the index on disk before   *)
(* updating in-memory state to avoid any inconsistency": between refreshes  *)
(* the file holds the index that is in memory, or nothing that can be       *)
(* loaded (a failed save), but never another index.                         *)
DiskMatchesMemory ==
    InTheMiddle = {} /\ index # NoIndex => file \in {index, Torn}

(* The same as far as the code achieves it: the file and the memory agree   *)
(* wherever the process died and whatever failed, unless the last save      *)
(* overlapped with another one or failed after its last byte; and one save  *)
(* that runs alone ends a disagreement that earlier ones left, even if it   *)
(* fails.                                                                   *)
DiskMatchesMemoryAlone == doubtful \/ DiskMatchesMemory

(* Once Shutdown has returned nil the service's goroutine is not writing    *)
(* the file, whether Start was still trying, the goroutine was refreshing,  *)
(* or Start had failed.                                                     *)
QuietAfterShutdown == shutdownPc = "ok" => refPc[Service] = "none" /\ Service \notin writing

(* Start ends, with an index or with an error.                              *)
StartEnds == svcPc = "load" ~> svcPc \in {"background", "failed"}

(* Shutdown ends by itself, also when it comes while Start is still trying  *)
(* and does not look at stopCh; only the end of the process cuts it short.  *)
ShutdownEnds == shutdownPc = "waiting" ~> shutdownPc # "waiting"

DayOld == index # NoIndex /\ clock > index.created

(* The background goroutine replaces an index that is a day old, or at      *)
(* least tries and fails, unless the service is shut down first.            *)
OldIndexReplaced ==
    svcPc = "background" /\ DayOld
        ~> ~DayOld \/ refPc[Service] = "failed" \/ shutdownPc # "running"

=============================================================================
