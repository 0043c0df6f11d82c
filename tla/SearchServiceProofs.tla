------------------------ MODULE SearchServiceProofs ------------------------
(***************************************************************************)
(* Proofs about SearchService, for any number of handlers, tries, restarts  *)
(* and days.                                                                *)
(***************************************************************************)
EXTENDS SearchService, TLAPS

-----------------------------------------------------------------------------
(* Types *)

(* A refresh that has listed the remote has an index in hand, it holds the  *)
(* file open only while it writes, and the service's own refresh runs only  *)
(* under Start or the background goroutine.                                 *)
RefreshInv ==
    /\ \A x \in Refreshers :
         /\ refPc[x] \in {"build", "create", "write", "publish"} => refIndex[x] \in Indexes
         /\ x \in writing => refPc[x] = "write"
    /\ svcPc \notin {"building", "refreshing"} => refPc[Service] = "none"

TypeInv == TypeOK /\ RefreshInv

LEMMA TypeInit == Init => TypeInv
  <1> SUFFICES ASSUME Init PROVE TypeInv
    OBVIOUS
  <1>1. 0 \in 0..MaxClock /\ 0 \in 0..MaxTries /\ 0 \in 0..MaxRestarts
    BY SearchAssumption DEF SearchAssumption
  <1>2. TypeOK
    BY <1>1 DEF Init, TypeOK, RefreshPcs
  <1>3. RefreshInv
    BY DEF Init, RefreshInv, Refreshers
  <1> QED BY <1>2, <1>3 DEF TypeInv

(* What a refresh leaves alone.                                             *)
LEMMA RefreshFrame ==
    ASSUME TypeOK, NEW x \in Refreshers, RefreshStep(x)
    PROVE  /\ UNCHANGED <<clock, svcPc, loaded, tries, shutdownPc, restarts>>
           /\ refPc[x] \notin {"none", "ok", "failed", "lost"} /\ refPc'[x] # "none"
           /\ \A y \in Refreshers : y # x => refPc'[y] = refPc[y] /\ refIndex'[y] = refIndex[y]
BY DEF TypeOK, RefreshStep, List, Build, Create, Write, Publish, Fail, FailLate, Goes,
       refUnchanged, svcVars

LEMMA RefreshTypes ==
    ASSUME TypeInv, NEW x \in Refreshers, RefreshStep(x)
    PROVE  TypeInv'
  <1> USE DEF TypeInv, TypeOK, RefreshInv, RefreshPcs, Goes, refUnchanged, svcVars, fileVars
  <1>service. svcPc' \notin {"building", "refreshing"} => refPc'[Service] = "none"
    <2>1. svcPc \notin {"building", "refreshing"} => x # Service
      BY RefreshFrame
    <2> QED BY <2>1, RefreshFrame DEF Refreshers
  <1>1. CASE List(x)
    <2>1. [listing |-> clock, created |-> clock] \in Indexes
      BY DEF Indexes
    <2> QED BY <1>1, <2>1, <1>service DEF List
  <1>2. CASE Build(x)
    <2>1. Built(x) \in Indexes
      BY <1>2 DEF Build, Built, Indexes
    <2> QED BY <1>2, <2>1, <1>service DEF Build, SaveFirst
  <1>3. CASE Create(x)
    BY <1>3, <1>service DEF Create
  <1>4. CASE Write(x)
    BY <1>4, <1>service DEF Write, Written
  <1>5. CASE Publish(x)
    BY <1>5, <1>service DEF Publish
  <1>6. CASE Fail(x)
    BY <1>6, <1>service DEF Fail
  <1>7. CASE FailLate(x)
    BY <1>7, <1>service DEF FailLate, Written
  <1> QED BY <1>1, <1>2, <1>3, <1>4, <1>5, <1>6, <1>7 DEF RefreshStep

LEMMA ServiceTypes ==
    ASSUME TypeInv, ServiceStep \/ BackgroundStop
    PROVE  TypeInv'
  <1>0. Service \in Refreshers /\ MaxTries \in Nat
    BY SearchAssumption DEF SearchAssumption, Refreshers
  <1> USE DEF TypeInv, TypeOK, RefreshInv, RefreshPcs, Goes, svcUnchanged, refVars
  <1>1. CASE Load
    BY <1>1 DEF Load
  <1>2. CASE Assign
    BY <1>0, <1>2, SearchAssumption DEF SearchAssumption, Assign
  <1>3. CASE StartResult
    <2>1. ~OutOfTries => NextTry \in 0..MaxTries
      BY <1>0 DEF OutOfTries, NextTry
    <2> QED BY <1>0, <1>3, <2>1 DEF StartResult, GiveUp
  <1>4. CASE BackgroundTick
    BY <1>0, <1>4 DEF BackgroundTick
  <1>5. CASE BackgroundResult
    BY <1>0, <1>5 DEF BackgroundResult
  <1>6. CASE BackgroundStop
    BY <1>6 DEF BackgroundStop
  <1> QED BY <1>1, <1>2, <1>3, <1>4, <1>5, <1>6 DEF ServiceStep

LEMMA OtherTypes ==
    ASSUME TypeInv,
           \/ \E h \in Handlers : Refresh(h)
           \/ BeginShutdown \/ ShutdownOk \/ ShutdownExpired
           \/ Tick \/ Restart \/ Finished \/ UNCHANGED vars
    PROVE  TypeInv'
  <1> USE DEF TypeInv, TypeOK, RefreshInv, RefreshPcs, fileVars, refVars, svcVars
  <1>1. ASSUME NEW h \in Handlers, Refresh(h) PROVE TypeInv'
    <2>1. h \in Refreshers /\ h # Service
      BY SearchAssumption DEF SearchAssumption, Refreshers
    <2>2. refPc[h] = "none" /\ refPc' = [refPc EXCEPT ![h] = "list"]
      BY <1>1 DEF Refresh, Goes
    <2> QED BY <1>1, <2>1, <2>2 DEF Refresh, refUnchanged
  <1>2. CASE BeginShutdown \/ ShutdownOk \/ ShutdownExpired
    BY <1>2 DEF BeginShutdown, ShutdownOk, ShutdownExpired, shutdownUnchanged
  <1>3. CASE Tick
    BY <1>3, SearchAssumption DEF SearchAssumption, Tick
  <1>4. CASE Restart
    <2>1. restarts' \in 0..MaxRestarts /\ 0 \in 0..MaxTries
      BY <1>4, SearchAssumption DEF SearchAssumption, Restart
    <2>2. Service \in Refreshers /\ Service \notin Handlers
      BY SearchAssumption DEF SearchAssumption, Refreshers
    <2> QED BY <1>4, <2>1, <2>2 DEF Restart
  <1>5. CASE Finished \/ UNCHANGED vars
    BY <1>5 DEF Finished, vars
  <1> QED BY <1>1, <1>2, <1>3, <1>4, <1>5

LEMMA TypeStep == TypeInv /\ [Next]_vars => TypeInv'
BY RefreshTypes, ServiceTypes, OtherTypes DEF Next

(* Every variable of the search service keeps its type, and Start tries no  *)
(* more often than it should, in any interleaving of refreshes.             *)
THEOREM TypeCorrect == Spec => []TypeOK
  <1>1. TypeInv => TypeOK
    BY DEF TypeInv
  <1> QED BY <1>1, TypeInit, TypeStep, PTL DEF Spec

-----------------------------------------------------------------------------
(* The background goroutine and Shutdown *)

(* There is an index from the moment a refresh of Start has succeeded, and  *)
(* a Shutdown that returned nil has seen stoppedCh closed, for good.        *)
ServiceInv ==
    /\ BackgroundHasIndex
    /\ svcPc = "building" /\ refPc[Service] = "ok" => index # NoIndex
    /\ shutdownPc = "ok" => Stopped

LEMMA ServiceInvStep == TypeInv /\ ServiceInv /\ [Next]_vars => ServiceInv'
  <1> SUFFICES ASSUME TypeInv, ServiceInv, [Next]_vars PROVE ServiceInv'
    OBVIOUS
  <1>0. Service \in Refreshers /\ refPc \in [Refreshers -> RefreshPcs]
    BY DEF Refreshers, TypeInv, TypeOK
  <1> USE DEF ServiceInv, BackgroundHasIndex, Stopped
  <1>1. ASSUME NEW x \in Refreshers, RefreshStep(x)
        PROVE  ServiceInv'
    <2>1. UNCHANGED <<svcPc, shutdownPc>>
          /\ \A y \in Refreshers : y # x => refPc'[y] = refPc[y]
      BY <1>1, RefreshFrame DEF TypeInv
    <2>2. CASE Publish(x)
      <3>1. index' \in Indexes
        BY <2>2 DEF Publish, TypeInv, RefreshInv
      <3>2. index' # NoIndex
        BY <3>1, SearchAssumption DEF SearchAssumption
      <3> QED BY <2>1, <3>2
    <2>3. CASE ~Publish(x)
      <3>1. index' = index /\ refPc'[x] # "ok"
        BY <1>0, <1>1, <2>3
           DEF RefreshStep, List, Build, SaveFirst, Create, Write, Fail, FailLate, Goes
      <3> QED BY <1>0, <2>1, <3>1
    <2> QED BY <2>2, <2>3
  <1>2. CASE Load \/ BackgroundResult \/ BackgroundStop
    BY <1>0, <1>2 DEF Load, BackgroundResult, BackgroundStop, svcUnchanged
  <1>3. CASE Assign
    BY <1>0, <1>3 DEF Assign, Goes, svcUnchanged
  <1>4. CASE StartResult
    BY <1>0, <1>4 DEF StartResult, GiveUp, Goes, svcUnchanged
  <1>5. CASE BackgroundTick
    BY <1>0, <1>5 DEF BackgroundTick, svcUnchanged
  <1>6. ASSUME NEW h \in Handlers, Refresh(h)
        PROVE  ServiceInv'
    <2>1. h \in Refreshers /\ h # Service
      BY SearchAssumption DEF SearchAssumption, Refreshers
    <2> QED BY <1>0, <1>6, <2>1 DEF Refresh, Goes, refUnchanged, svcVars
  <1>7. CASE BeginShutdown \/ ShutdownOk \/ ShutdownExpired
    BY <1>7 DEF BeginShutdown, ShutdownOk, SeenStopped, ShutdownExpired, shutdownUnchanged,
                refVars, svcVars
  <1>8. CASE Restart
    BY <1>8 DEF Restart
  <1>9. CASE Tick \/ Finished \/ UNCHANGED vars
    BY <1>9 DEF Tick, Finished, vars, refVars, svcVars
  <1> QED BY <1>1, <1>2, <1>3, <1>4, <1>5, <1>6, <1>7, <1>8, <1>9 DEF Next, ServiceStep

LEMMA ServiceInvariant == Spec => [](TypeInv /\ ServiceInv)
  <1>1. Init => ServiceInv
    BY DEF Init, ServiceInv, BackgroundHasIndex
  <1> QED BY <1>1, TypeInit, TypeStep, ServiceInvStep, PTL DEF Spec

(* The background goroutine never reads CreatedAt of a nil index, although  *)
(* Start assigns what it has loaded, nil or not, without the lock and over  *)
(* whatever any number of handlers publish.                                 *)
THEOREM BackgroundNeverPanics == Spec => []BackgroundHasIndex
  <1>1. ServiceInv => BackgroundHasIndex
    BY DEF ServiceInv
  <1> QED BY <1>1, ServiceInvariant, PTL

(* Once Shutdown has returned nil the service itself neither refreshes nor  *)
(* writes the index file.                                                   *)
THEOREM ShutdownIsQuiet == Spec => []QuietAfterShutdown
  <1>1. TypeInv /\ ServiceInv => QuietAfterShutdown
    BY DEF TypeInv, RefreshInv, ServiceInv, Stopped, QuietAfterShutdown, Refreshers
  <1> QED BY <1>1, ServiceInvariant, PTL

-----------------------------------------------------------------------------
(* The file and the memory *)

(* x is in the middle of a save or, in Start, between load and assignment.  *)
Middle(x) ==
    \/ refPc[x] \in {"write", "publish"}
    \/ x = Service /\ svcPc = "assign"

(* What holds while saves do not overlap: one refresh at a time has its     *)
(* hands on the file, it has truncated it or completely written it, and     *)
(* between refreshes the file has the index in memory, or none.             *)
AloneInv ==
    /\ mixed = {}
    /\ \A x, y \in Refreshers : Middle(x) /\ Middle(y) => x = y
    /\ \A x \in Refreshers :
         /\ refPc[x] = "write" => file = Torn
         /\ refPc[x] = "publish" => file = refIndex[x]
    /\ svcPc = "assign" /\ loaded # NoIndex => file = loaded
    /\ (\A x \in Refreshers : ~Middle(x)) /\ index # NoIndex => file \in {index, Torn}

DiskInv == doubtful \/ AloneInv

LEMMA MiddleSet == \A x : x \in InTheMiddle <=> x \in Refreshers /\ Middle(x)
BY DEF InTheMiddle, Middle, Refreshers

(* A refresh keeps the file and the memory together, or makes them doubtful.*)
LEMMA DiskRefresh ==
    ASSUME TypeInv, DiskInv, NEW x \in Refreshers, RefreshStep(x)
    PROVE  DiskInv'
  <1>type. /\ refPc \in [Refreshers -> RefreshPcs]
           /\ refIndex \in [Refreshers -> Indexes \cup {NoIndex}]
           /\ mixed \in SUBSET writing
           /\ \A y \in Refreshers : y \in writing => refPc[y] = "write"
           /\ writing \in SUBSET Refreshers
           /\ svcPc = "assign" => refPc[Service] = "none"
    BY DEF TypeInv, TypeOK, RefreshInv
  <1>1. /\ UNCHANGED <<svcPc, loaded>>
        /\ refPc[x] \notin {"none", "ok", "failed", "lost"}
        /\ \A y \in Refreshers : y # x => refPc'[y] = refPc[y] /\ refIndex'[y] = refIndex[y]
    BY RefreshFrame DEF TypeInv
  <1>2. \A y \in Refreshers : y # x => (Middle(y)' <=> Middle(y))
    BY <1>1 DEF Middle
  <1>3. ~(x = Service /\ svcPc = "assign")
    BY <1>1, <1>type
  <1> USE DEF DiskInv, AloneInv
  <1>4. CASE List(x) \/ Build(x)
    <2>1. /\ UNCHANGED <<index, file, mixed, doubtful>>
          /\ refPc[x] \notin {"write", "publish"} /\ refPc'[x] \notin {"write", "publish"}
      BY <1>4, <1>type DEF List, Build, SaveFirst, Goes, fileVars
    <2>2. ~Middle(x) /\ ~Middle(x)'
      BY <2>1, <1>1, <1>3 DEF Middle
    <2> QED BY <1>1, <1>2, <2>1, <2>2
  <1>5. CASE Create(x)
    <2>1. /\ refPc'[x] = "write" /\ file' = Torn /\ index' = index
          /\ mixed' = IF writing = {} THEN mixed ELSE mixed \cup writing \cup {x}
          /\ doubtful' = (InTheMiddle # {})
      BY <1>5, <1>type DEF Create, Goes
    <2>2. CASE InTheMiddle # {}
      BY <2>1, <2>2
    <2>3. CASE InTheMiddle = {}
      <3>1. \A y \in Refreshers : ~Middle(y)
        BY <2>3, MiddleSet
      <3>2. writing = {} /\ mixed' = {}
        BY <2>1, <3>1, <1>type DEF Middle
      <3>3. svcPc # "assign"
        BY <3>1 DEF Middle, Refreshers
      <3>4. \A y \in Refreshers : y # x => ~Middle(y)' /\ refPc'[y] \notin {"write", "publish"}
        BY <3>1, <1>1, <1>2 DEF Middle
      <3>5. Middle(x)'
        BY <2>1 DEF Middle
      <3> QED BY <1>1, <2>1, <3>2, <3>3, <3>4, <3>5
    <2> QED BY <2>2, <2>3
  <1>6. CASE Write(x)
    <2>1. /\ refPc[x] = "write" /\ refPc'[x] = "publish" /\ UNCHANGED <<index, refIndex, doubtful>>
          /\ mixed' = mixed \ {x}
          /\ \E content \in Written(x) : file' = content
      BY <1>6, <1>type DEF Write, Goes
    <2>2. CASE ~doubtful
      <3>1. mixed' = {} /\ file' = refIndex[x]
        BY <2>1, <2>2 DEF Written
      <3>2. Middle(x) /\ Middle(x)'
        BY <2>1 DEF Middle
      <3>3. \A y \in Refreshers : y # x => ~Middle(y) /\ ~Middle(y)'
        BY <2>2, <3>2, <1>2
      <3>4. svcPc' # "assign"
        BY <3>3, <1>1, <1>3 DEF Middle, Refreshers
      <3>5. \A y \in Refreshers : y # x => refPc'[y] \notin {"write", "publish"}
        BY <3>3 DEF Middle
      <3> QED BY <2>1, <3>1, <3>2, <3>3, <3>4, <3>5
    <2> QED BY <2>1, <2>2
  <1>7. CASE Publish(x)
    <2>1. /\ refPc[x] = "publish" /\ refPc'[x] = "ok" /\ index' = refIndex[x]
          /\ UNCHANGED <<file, mixed, doubtful>>
      BY <1>7, <1>type DEF Publish, Goes, fileVars
    <2>2. CASE ~doubtful
      <3>1. file = refIndex[x]
        BY <2>1, <2>2
      <3>2. Middle(x)
        BY <2>1 DEF Middle
      <3>3. \A y \in Refreshers : y # x => ~Middle(y) /\ ~Middle(y)'
        BY <2>2, <3>2, <1>2
      <3>4. svcPc' # "assign"
        BY <3>3, <1>1, <1>3 DEF Middle, Refreshers
      <3>5. \A y \in Refreshers : refPc'[y] \notin {"write", "publish"}
        BY <2>1, <3>3 DEF Middle
      <3>6. \A y \in Refreshers : ~Middle(y)'
        BY <3>4, <3>5 DEF Middle
      <3> QED BY <2>1, <2>2, <3>1, <3>4, <3>5, <3>6
    <2> QED BY <2>1, <2>2
  <1>8. CASE Fail(x)
    <2>1. /\ refPc'[x] = "failed" /\ UNCHANGED <<index, doubtful>>
          /\ mixed' = mixed \ {x}
          /\ mixed = {} => file' = file
          /\ refPc[x] \in {"list", "create", "write"}
      BY <1>8, <1>type DEF Fail, Goes
    <2>2. CASE ~doubtful
      <3>1. mixed' = {} /\ file' = file /\ ~Middle(x)'
        BY <2>1, <2>2, <1>1, <1>3 DEF Middle
      <3>2. CASE refPc[x] = "write"
        BY <1>1, <1>2, <2>1, <2>2, <3>1, <3>2
      <3>3. CASE refPc[x] # "write"
        <4>1. ~Middle(x)
          BY <2>1, <3>3, <1>3 DEF Middle
        <4> QED BY <1>1, <1>2, <2>1, <2>2, <3>1, <4>1
      <3> QED BY <3>2, <3>3
    <2> QED BY <2>1, <2>2
  <1>9. CASE FailLate(x)
    BY <1>9 DEF FailLate
  <1> QED BY <1>4, <1>5, <1>6, <1>7, <1>8, <1>9 DEF RefreshStep

(* So does Start, which reads the file before it assigns the index.         *)
LEMMA DiskService ==
    ASSUME TypeInv, DiskInv, ServiceStep \/ BackgroundStop
    PROVE  DiskInv'
  <1>type. /\ refPc \in [Refreshers -> RefreshPcs]
           /\ svcPc \notin {"building", "refreshing"} => refPc[Service] = "none"
           /\ Service \in Refreshers
           /\ NoIndex # Torn
    BY SearchAssumption DEF SearchAssumption, TypeInv, TypeOK, RefreshInv, Refreshers
  <1> USE DEF DiskInv, AloneInv
  <1>1. CASE Load
    <2>1. /\ svcPc = "load" /\ svcPc' = "assign"
          /\ loaded' \in {NoIndex, file} /\ (file = Torn => loaded' = NoIndex)
          /\ doubtful' = (doubtful \/ InTheMiddle # {})
          /\ UNCHANGED <<index, file, mixed, refPc, refIndex>>
      BY <1>1 DEF Load, svcUnchanged, refVars
    <2>2. CASE ~doubtful'
      <3>1. ~doubtful /\ \A x \in Refreshers : ~Middle(x)
        BY <2>1, <2>2, MiddleSet
      <3>2. \A x \in Refreshers : refPc'[x] \notin {"write", "publish"}
        BY <2>1, <3>1 DEF Middle
      <3>3. \A x \in Refreshers : Middle(x)' => x = Service
        BY <3>2 DEF Middle
      <3>4. Middle(Service)'
        BY <2>1 DEF Middle
      <3> QED BY <2>1, <3>1, <3>2, <3>3, <3>4, <1>type
    <2> QED BY <2>2
  <1>2. CASE Assign
    <2>1. /\ svcPc = "assign" /\ svcPc' # "assign" /\ index' = loaded
          /\ UNCHANGED <<file, mixed, doubtful, refIndex>>
          /\ \A x \in Refreshers : refPc'[x] = refPc[x] \/ (x = Service /\ refPc'[x] = "list")
      BY <1>2, <1>type DEF Assign, svcUnchanged, Goes
    <2>2. CASE ~doubtful
      <3>1. \A x \in Refreshers : refPc'[x] \notin {"write", "publish"}
        BY <2>1, <2>2, <1>type DEF Middle
      <3>2. \A x \in Refreshers : ~Middle(x)'
        BY <2>1, <3>1 DEF Middle
      <3> QED BY <2>1, <2>2, <3>1, <3>2
    <2> QED BY <2>1, <2>2
  <1>3. CASE StartResult \/ BackgroundTick \/ BackgroundResult \/ BackgroundStop
    <2>1. /\ svcPc \notin {"load", "assign"} /\ svcPc' # "assign"
          /\ UNCHANGED <<index, file, mixed, doubtful, refIndex, loaded>>
          /\ \A x \in Refreshers : \/ refPc'[x] = refPc[x]
                                   \/ /\ refPc[x] \notin {"write", "publish"}
                                      /\ refPc'[x] \notin {"write", "publish"}
      BY <1>3, <1>type DEF StartResult, GiveUp, BackgroundTick, BackgroundResult, BackgroundStop,
                           svcUnchanged, Goes, refVars
    <2>2. \A x \in Refreshers : Middle(x)' <=> Middle(x)
      BY <2>1 DEF Middle
    <2> QED BY <2>1, <2>2
  <1> QED BY <1>1, <1>2, <1>3 DEF ServiceStep

LEMMA DiskOther ==
    ASSUME TypeInv, DiskInv,
           \/ \E h \in Handlers : Refresh(h)
           \/ BeginShutdown \/ ShutdownOk \/ ShutdownExpired
           \/ Tick \/ Restart \/ Finished \/ UNCHANGED vars
    PROVE  DiskInv'
  <1>type. refPc \in [Refreshers -> RefreshPcs]
    BY DEF TypeInv, TypeOK
  <1> USE DEF DiskInv, AloneInv
  <1>1. ASSUME NEW h \in Handlers, Refresh(h)
        PROVE  DiskInv'
    <2>1. /\ UNCHANGED <<index, file, mixed, doubtful, refIndex, svcPc, loaded>>
          /\ \A x \in Refreshers : \/ refPc'[x] = refPc[x]
                                   \/ /\ refPc[x] \notin {"write", "publish"}
                                      /\ refPc'[x] \notin {"write", "publish"}
      BY <1>1, <1>type DEF Refresh, Goes, refUnchanged, fileVars, svcVars
    <2>2. \A x \in Refreshers : Middle(x)' <=> Middle(x)
      BY <2>1 DEF Middle
    <2> QED BY <2>1, <2>2
  <1>2. CASE Restart
    <2>1. /\ mixed' = {} /\ index' = NoIndex /\ svcPc' = "load"
          /\ \A x \in Refreshers : refPc'[x] \notin {"write", "publish"}
      BY <1>2 DEF Restart
    <2> QED BY <2>1 DEF Middle
  <1>3. CASE \/ BeginShutdown \/ ShutdownOk \/ ShutdownExpired
             \/ Tick \/ Finished \/ UNCHANGED vars
    <2>1. UNCHANGED <<index, file, mixed, doubtful, refPc, refIndex, svcPc, loaded>>
      BY <1>3 DEF BeginShutdown, ShutdownOk, ShutdownExpired, shutdownUnchanged, Tick, Finished,
                  vars, fileVars, refVars, svcVars
    <2> QED BY <2>1 DEF Middle
  <1> QED BY <1>1, <1>2, <1>3

(* The file and the memory agree between refreshes, wherever the process    *)
(* died and whatever failed, unless the last save overlapped with another   *)
(* or failed after its last byte; a save that runs alone ends a             *)
(* disagreement that earlier ones left, for any number of handlers.         *)
THEOREM DiskFollowsMemory == Spec => []DiskMatchesMemoryAlone
  <1>1. Init => DiskInv
    BY DEF Init, DiskInv, AloneInv, Middle, Refreshers
  <1>2. TypeInv /\ DiskInv /\ [Next]_vars => DiskInv'
    BY DiskRefresh, DiskService, DiskOther DEF Next
  <1>3. DiskInv => DiskMatchesMemoryAlone
    BY MiddleSet DEF DiskInv, AloneInv, DiskMatchesMemoryAlone, DiskMatchesMemory
  <1> QED BY <1>1, <1>2, <1>3, TypeInit, TypeStep, PTL DEF Spec

=============================================================================
