--------------------------- MODULE LifecycleProofs ---------------------------
(***************************************************************************)
(* Proofs about Lifecycle.  An rclone process belongs to a Rclone.Start     *)
(* that has not returned, and main does not exit before every Start has; a  *)
(* signal can kill main earlier only after a Start has failed.              *)
(* The list of Rview.Shutdown begins with the web server, so that whoever   *)
(* is told to stop later is told after the requests, or after its failure.  *)
(***************************************************************************)
EXTENDS Lifecycle, TLAPS

(* The goroutines of Rview.Start are there from Start on.                   *)
StartInv ==
    /\ startPc \in [Starters -> {"none", "begin", "spawn", "wait", "serve", "ok", "error"}]
    /\ mainPc = "prepare" => \A s \in Starters : startPc[s] = "none"

(* The process runs under the Rclone.Start that waits for it.               *)
ProcessInv == process = "running" => startPc["rclone"] = "wait"

(* main exits after every Start has returned, or without any.               *)
ExitInv == mainPc # "panic" /\ (mainPc = "exited" => StartsAreOver)

(* Once the Starts are there, signals are caught unless one has failed.     *)
SignalInv ==
    startPc["rclone"] # "none" => exitCode = 1 \/ (caught /\ mainPc # "killed")

OrphanInv == StartInv /\ ProcessInv /\ ExitInv /\ SignalInv

(* Before main gets to its deferred function nobody is told to stop; the    *)
(* first one is the web server.                                             *)
ToldInv ==
    /\ pos \in Nat \ {0}
    /\ mainPc \in {"prepare", "running"} => pos = 1 /\ ~stopping
    /\ pos = 1 /\ ~stopping => told = {}
    /\ pos = 1 /\ stopping => told = {"web"}

(* Requests come through a web server that Prepare has created.             *)
ServedInv ==
    /\ active \in Nat
    /\ active > 0 => startPc["web"] # "none"
    /\ startPc["web"] # "none" => made = Len(PrepareOrder)

(* Past the web server there are no requests, or its Shutdown has failed.   *)
DrainedInv ==
    pos > 1 =>
      \/ startPc["web"] = "none"
      \/ "web" \in told /\ (active = 0 \/ "web" \in errs)

RequestsInv == StartInv /\ ToldInv /\ ServedInv /\ DrainedInv

-----------------------------------------------------------------------------

(* Every step keeps the process with its Start and main with all of them.   *)
LEMMA OrphanStep == OrphanInv /\ [Next]_vars => OrphanInv'
<1> SUFFICES ASSUME OrphanInv, [Next]_vars
             PROVE  OrphanInv'
    OBVIOUS
<1> USE DEF OrphanInv, StartInv, ProcessInv, ExitInv, SignalInv, StartsAreOver, StartFinished,
        Starters, rcloneVars, shutdownVars, Returns, OnError
<1>1. CASE Prepare
    BY <1>1 DEF Prepare
<1>2. CASE PrepareFails
    BY <1>2 DEF PrepareFails
<1>3. CASE Start
    BY <1>3 DEF Start
<1>4. CASE Terminate
    BY <1>4 DEF Terminate
<1>5. CASE Skip
    BY <1>5 DEF Skip
<1>6. CASE StopComponent
    BY <1>6 DEF StopComponent, StopCmd, Initialized
<1>7. CASE ComponentStopped
    BY <1>7 DEF ComponentStopped
<1>8. CASE ComponentExpired
    BY <1>8 DEF ComponentExpired
<1>9. CASE EndShutdown
    BY <1>9 DEF EndShutdown
<1>10. CASE Exit
    BY <1>10 DEF Exit
<1>11. CASE Alive /\ (Signal \/ SignalKills \/ Expire)
    BY <1>11 DEF Alive, Signal, SignalKills, Expire
<1>12. CASE Alive /\ RcloneStart
    <2>1. CASE RcloneBegin
        BY <1>12, <2>1 DEF Alive, RcloneBegin
    <2>2. CASE RcloneSpawn
        BY <1>12, <2>2 DEF Alive, RcloneSpawn
    <2>3. CASE RcloneSpawnFails
        BY <1>12, <2>3 DEF Alive, RcloneSpawnFails
    <2>4. CASE RcloneWaitReturns
        BY <1>12, <2>4 DEF Alive, RcloneWaitReturns
    <2> QED
        BY <1>12, <2>1, <2>2, <2>3, <2>4 DEF RcloneStart
<1>13. CASE Alive /\ (SearchStart \/ RefreshStops)
    BY <1>13 DEF Alive, SearchStart, SearchStarts, SearchStartFails, RefreshStops
<1>14. CASE Alive /\ (WebStart \/ Accept \/ Respond)
    BY <1>14 DEF Alive, WebStart, Listen, ListenFails, ServeReturns, Accept, Respond
<1>15. CASE KillRclone \/ RcloneExits
    BY <1>15 DEF KillRclone, RcloneExits
<1>16. CASE UNCHANGED vars
    BY <1>16 DEF vars
<1> QED
    BY <1>1, <1>2, <1>3, <1>4, <1>5, <1>6, <1>7, <1>8, <1>9, <1>10,
       <1>11, <1>12, <1>13, <1>14, <1>15, <1>16 DEF Next, Main

(* The web server is the last to be created and the first to be told.       *)
LEMMA WebFirst ==
    /\ ShutdownOrder[1] = "web" /\ Len(ShutdownOrder) = 6
    /\ made = Len(PrepareOrder) => Created("web")
<1>1. ShutdownOrder[1] = "web" /\ Len(ShutdownOrder) = 6
    BY DEF ShutdownOrder
<1>2. Len(PrepareOrder) \in 1..6 /\ PrepareOrder[Len(PrepareOrder)] = "web"
    BY DEF PrepareOrder
<1> QED
    BY <1>1, <1>2 DEF Created

(* Every step keeps the requests before the services.                       *)
LEMMA RequestsStep == RequestsInv /\ [Next]_vars => RequestsInv'
<1> SUFFICES ASSUME RequestsInv, [Next]_vars
             PROVE  RequestsInv'
    OBVIOUS
<1>0. PrepareOrder' = PrepareOrder
    BY DEF Next, vars, PrepareOrder
<1> USE <1>0 DEF RequestsInv, StartInv, ToldInv, ServedInv, DrainedInv, Starters, rcloneVars,
        shutdownVars, Returns
<1>1. CASE Prepare
    BY <1>1 DEF Prepare
<1>2. CASE PrepareFails
    BY <1>2 DEF PrepareFails
<1>3. CASE Start
    BY <1>3 DEF Start
<1>4. CASE Terminate
    BY <1>4 DEF Terminate
<1>5. CASE Skip
    BY <1>5, WebFirst DEF Skip, Initialized
<1>6. CASE StopComponent
    BY <1>6, WebFirst DEF StopComponent, StopCmd
<1>7. CASE ComponentStopped
    BY <1>7, WebFirst DEF ComponentStopped, Stopped
<1>8. CASE ComponentExpired
    BY <1>8, WebFirst DEF ComponentExpired
<1>9. CASE EndShutdown
    BY <1>9 DEF EndShutdown
<1>10. CASE Exit
    BY <1>10 DEF Exit
<1>11. CASE Alive /\ (Signal \/ SignalKills \/ Expire)
    BY <1>11 DEF Alive, Signal, SignalKills, Expire
<1>12. CASE Alive /\ RcloneStart
    <2>1. CASE RcloneBegin
        BY <2>1 DEF RcloneBegin
    <2>2. CASE RcloneSpawn
        BY <2>2 DEF RcloneSpawn
    <2>3. CASE RcloneSpawnFails
        BY <2>3 DEF RcloneSpawnFails
    <2>4. CASE RcloneWaitReturns
        BY <2>4 DEF RcloneWaitReturns
    <2> QED
        BY <1>12, <2>1, <2>2, <2>3, <2>4 DEF RcloneStart
<1>13. CASE Alive /\ (SearchStart \/ RefreshStops)
    <2>1. CASE SearchStarts
        BY <2>1 DEF SearchStarts
    <2>2. CASE SearchStartFails
        BY <2>2 DEF SearchStartFails
    <2>3. CASE RefreshStops
        BY <2>3 DEF RefreshStops
    <2> QED
        BY <1>13, <2>1, <2>2, <2>3 DEF SearchStart
<1>14. CASE Alive /\ (WebStart \/ Accept \/ Respond)
    <2>1. CASE Listen
        BY <2>1 DEF Listen
    <2>2. CASE ListenFails
        BY <2>2 DEF ListenFails
    <2>3. CASE ServeReturns
        BY <2>3 DEF ServeReturns
    <2>4. CASE Accept
        BY <2>4 DEF Accept
    <2>5. CASE Respond
        BY <2>5 DEF Respond
    <2> QED
        BY <1>14, <2>1, <2>2, <2>3, <2>4, <2>5 DEF WebStart
<1>15. CASE KillRclone \/ RcloneExits
    BY <1>15 DEF KillRclone, RcloneExits
<1>16. CASE UNCHANGED vars
    BY <1>16 DEF vars
<1> QED
    BY <1>1, <1>2, <1>3, <1>4, <1>5, <1>6, <1>7, <1>8, <1>9, <1>10,
       <1>11, <1>12, <1>13, <1>14, <1>15, <1>16 DEF Next, Main

-----------------------------------------------------------------------------

(* "Always shutdown service to not keep any external commands running":     *)
(* the rclone process is gone when rview is, for every interleaving of      *)
(* starts, failures, signals and deadlines, except when a signal kills      *)
(* rview after the failure of a component.                                  *)
THEOREM RcloneNeverOutlivesMain == Spec => []NoOrphanRclone
<1>1. Init => OrphanInv
    BY DEF Init, OrphanInv, StartInv, ProcessInv, ExitInv, SignalInv, Starters
<1>2. OrphanInv => NoOrphanRclone
    BY DEF OrphanInv, StartInv, ProcessInv, ExitInv, SignalInv, StartsAreOver, StartFinished,
        Starters, NoOrphanRclone, Alive
<1> QED
    BY <1>1, <1>2, OrphanStep, PTL DEF Spec

(* Rview.Shutdown stops the services after the requests that use them,      *)
(* unless the Shutdown of the web server has run out of time.               *)
THEOREM RequestsEndFirst == Spec => []RequestsBeforeServices
<1>1. Init => RequestsInv
    BY DEF Init, RequestsInv, StartInv, ToldInv, ServedInv, DrainedInv, Starters
<1>2. RequestsInv => RequestsBeforeServices
    BY DEF RequestsInv, ToldInv, ServedInv, DrainedInv, RequestsBeforeServices
<1> QED
    BY <1>1, <1>2, RequestsStep, PTL DEF Spec

-----------------------------------------------------------------------------
(* Types, and the Shutdown of what Prepare has left *)

(* A component that is being waited for has been told to stop.              *)
WaitInv == stopping => pos <= Len(ShutdownOrder) /\ ShutdownOrder[pos] \in told

(* The parts of TypeOK, by who changes them.                                *)
MainType ==
    /\ mainPc \in {"prepare", "running", "shutdown", "waitStart", "exited", "panic", "killed"}
    /\ made \in 0..Len(PrepareOrder)
    /\ exitCode \in {0, 1}
    /\ startPc \in [Starters -> {"none", "begin", "spawn", "wait", "serve", "ok", "error"}]
    /\ process \in {"none", "running", "exited", "failed"}
    /\ stoppedCh \in {"nil", "open", "closed"}
    /\ active \in 0..MaxRequests

FlagType ==
    /\ config \in Configs
    /\ term \in BOOLEAN /\ caught \in BOOLEAN /\ canceled \in BOOLEAN /\ byShutdown \in BOOLEAN
    /\ refreshing \in BOOLEAN /\ stopping \in BOOLEAN /\ expired \in BOOLEAN

ListType ==
    /\ pos \in 1..(Len(ShutdownOrder) + 1)
    /\ told \subseteq Components /\ errs \subseteq told
    /\ WaitInv

(* The lists of Prepare and of Shutdown.                                    *)
LEMMA Orders ==
    /\ Len(ShutdownOrder) = 6
    /\ \A i \in 1..6 : ShutdownOrder[i] \in Components
    /\ Len(PrepareOrder) \in Nat
BY DEF ShutdownOrder, PrepareOrder, Components

LEMMA ListTypeStep ==
    ASSUME ListType, [Next]_vars
    PROVE  ListType'
<1> USE Orders DEF ListType, WaitInv, shutdownVars
<1>1. CASE Skip
    BY <1>1 DEF Skip
<1>2. CASE StopComponent
    BY <1>2 DEF StopComponent
<1>3. CASE ComponentStopped
    BY <1>3 DEF ComponentStopped
<1>4. CASE ComponentExpired
    BY <1>4 DEF ComponentExpired
<1>5. CASE ~(Skip \/ StopComponent \/ ComponentStopped \/ ComponentExpired)
    <2>1. UNCHANGED <<pos, stopping, told, errs>>
        BY <1>5 DEF Next, vars, Main, Prepare, PrepareFails, Start, Terminate, EndShutdown, Exit,
            Signal, SignalKills, Expire, RcloneStart, RcloneBegin, RcloneSpawn, RcloneSpawnFails,
            RcloneWaitReturns, SearchStart, SearchStarts, SearchStartFails, RefreshStops,
            WebStart, Listen, ListenFails, ServeReturns, Accept, Respond, KillRclone, RcloneExits
    <2> QED
        BY <2>1
<1> QED
    BY <1>1, <1>2, <1>3, <1>4, <1>5

(* "It is safe to call this method even if Prepare has failed": wherever    *)
(* Prepare stops, Rview.Shutdown calls no method of a component that was    *)
(* not created, with and without the disk caches.                           *)
THEOREM ShutdownNeverPanics == Spec => []ShutdownIsSafe
<1>1. Init => ShutdownIsSafe
    BY DEF Init, ShutdownIsSafe
<1>2. ShutdownIsSafe /\ [Next]_vars => ShutdownIsSafe'
    <2> SUFFICES ASSUME ShutdownIsSafe, [Next]_vars PROVE ShutdownIsSafe'
        OBVIOUS
    <2>1. CASE Main
        BY <2>1 DEF ShutdownIsSafe, Main, Prepare, PrepareFails, Start, Terminate, Skip,
            StopComponent, Initialized, ComponentStopped, ComponentExpired, EndShutdown, Exit
    <2>2. CASE \/ Signal \/ SignalKills \/ Expire \/ RcloneStart \/ SearchStart \/ RefreshStops
               \/ WebStart \/ Accept \/ Respond \/ KillRclone \/ RcloneExits \/ UNCHANGED vars
        BY <2>2 DEF ShutdownIsSafe, Signal, SignalKills, Expire, RcloneStart, RcloneBegin,
            RcloneSpawn, RcloneSpawnFails, RcloneWaitReturns, SearchStart, SearchStarts, SearchStartFails,
            RefreshStops, WebStart, Listen, ListenFails, ServeReturns, Accept, Respond,
            KillRclone, RcloneExits, vars
    <2> QED
        BY <2>1, <2>2 DEF Next
<1> QED
    BY <1>1, <1>2, PTL DEF Spec

LEMMA FlagTypeStep ==
    ASSUME FlagType, [Next]_vars
    PROVE  FlagType'
<1> USE DEF FlagType, Configs, rcloneVars, shutdownVars, Returns, OnError
<1>1. config' = config
    BY DEF Next, vars
<1>2. CASE Main
    <2>1. CASE Prepare \/ PrepareFails
        BY <1>1, <2>1 DEF Prepare, PrepareFails
    <2>2. CASE Start
        BY <1>1, <2>2 DEF Start
    <2>3. CASE Terminate \/ Skip
        BY <1>1, <2>3 DEF Terminate, Skip
    <2>4. CASE StopComponent
        BY <1>1, <2>4 DEF StopComponent, StopCmd
    <2>5. CASE ComponentStopped \/ ComponentExpired
        BY <1>1, <2>5 DEF ComponentStopped, ComponentExpired
    <2>6. CASE EndShutdown \/ Exit
        BY <1>1, <2>6 DEF EndShutdown, Exit
    <2> QED
        BY <1>2, <2>1, <2>2, <2>3, <2>4, <2>5, <2>6 DEF Main
<1>3. CASE \/ Signal \/ SignalKills \/ Expire \/ KillRclone \/ RcloneExits \/ Accept \/ Respond
    <2>1. CASE Signal \/ SignalKills \/ Expire
        BY <1>1, <2>1 DEF Signal, SignalKills, Expire
    <2>2. CASE KillRclone \/ RcloneExits \/ Accept \/ Respond
        BY <1>1, <2>2 DEF KillRclone, RcloneExits, Accept, Respond
    <2> QED
        BY <1>3, <2>1, <2>2
<1>4. CASE RcloneStart
    <2>1. CASE RcloneBegin
        BY <1>1, <2>1 DEF RcloneBegin
    <2>2. CASE RcloneSpawn
        BY <1>1, <2>2 DEF RcloneSpawn
    <2>3. CASE RcloneSpawnFails
        BY <1>1, <2>3 DEF RcloneSpawnFails
    <2>4. CASE RcloneWaitReturns
        BY <1>1, <2>4 DEF RcloneWaitReturns
    <2> QED
        BY <1>4, <2>1, <2>2, <2>3, <2>4 DEF RcloneStart
<1>5. CASE SearchStart \/ RefreshStops
    BY <1>1, <1>5 DEF SearchStart, SearchStarts, SearchStartFails, RefreshStops
<1>6. CASE WebStart
    BY <1>1, <1>6 DEF WebStart, Listen, ListenFails, ServeReturns
<1>7. CASE UNCHANGED vars
    BY <1>7 DEF vars
<1> QED
    BY <1>2, <1>3, <1>4, <1>5, <1>6, <1>7 DEF Next

LEMMA MainTypeStep ==
    ASSUME MainType, [Next]_vars
    PROVE  MainType'
<1>0. PrepareOrder' = PrepareOrder /\ MaxRequests \in Nat /\ Len(PrepareOrder) \in Nat
    BY LifecycleAssumption, Orders DEF LifecycleAssumption, Next, vars, PrepareOrder
<1> USE <1>0 DEF MainType, Starters, rcloneVars, shutdownVars, Returns, OnError
<1>1. CASE Prepare
    BY <1>1 DEF Prepare
<1>2. CASE PrepareFails
    BY <1>2 DEF PrepareFails
<1>3. CASE Start
    BY <1>3 DEF Start
<1>4. CASE Terminate \/ Skip \/ EndShutdown \/ Exit
    BY <1>4 DEF Terminate, Skip, EndShutdown, Exit
<1>5. CASE StopComponent
    BY <1>5 DEF StopComponent
<1>6. CASE ComponentStopped \/ ComponentExpired
    BY <1>6 DEF ComponentStopped, ComponentExpired
<1>7. CASE Signal \/ SignalKills \/ Expire \/ RefreshStops
    BY <1>7 DEF Signal, SignalKills, Expire, RefreshStops
<1>8. CASE RcloneBegin
    BY <1>8 DEF RcloneBegin
<1>9. CASE RcloneSpawn
    BY <1>9 DEF RcloneSpawn
<1>10. CASE RcloneSpawnFails
    BY <1>10 DEF RcloneSpawnFails
<1>11. CASE RcloneWaitReturns
    BY <1>11 DEF RcloneWaitReturns
<1>12. CASE SearchStarts
    BY <1>12 DEF SearchStarts
<1>13. CASE SearchStartFails
    BY <1>13 DEF SearchStartFails
<1>14. CASE Listen
    BY <1>14 DEF Listen
<1>15. CASE ListenFails
    BY <1>15 DEF ListenFails
<1>16. CASE ServeReturns
    BY <1>16 DEF ServeReturns
<1>17. CASE Accept
    BY <1>17 DEF Accept
<1>18. CASE Respond
    BY <1>18 DEF Respond
<1>19. CASE KillRclone \/ RcloneExits
    BY <1>19 DEF KillRclone, RcloneExits
<1>20. CASE UNCHANGED vars
    BY <1>20 DEF vars
<1> QED
    BY <1>1, <1>2, <1>3, <1>4, <1>5, <1>6, <1>7, <1>8, <1>9, <1>10, <1>11, <1>12, <1>13, <1>14,
       <1>15, <1>16, <1>17, <1>18, <1>19, <1>20
       DEF Next, Main, RcloneStart, SearchStart, WebStart

(* Every variable of the process keeps its type: the position in the list   *)
(* of Shutdown stays in it, and only components that were told to stop are  *)
(* waited for or reported.                                                  *)
THEOREM TypeCorrect == Spec => [](TypeOK /\ WaitInv)
<1>1. Init => MainType /\ FlagType /\ ListType
    <2> SUFFICES ASSUME Init
                 PROVE  MainType /\ FlagType /\ ListType
        OBVIOUS
    <2>1. MainType
        BY LifecycleAssumption, Orders DEF LifecycleAssumption, Init, MainType
    <2>2. FlagType
        BY DEF Init, FlagType
    <2>3. ListType
        BY Orders DEF Init, ListType, WaitInv
    <2> QED
        BY <2>1, <2>2, <2>3
<1>2. MainType /\ FlagType /\ ListType => TypeOK /\ WaitInv
    BY DEF MainType, FlagType, ListType, TypeOK
<1> QED
    BY <1>1, <1>2, MainTypeStep, FlagTypeStep, ListTypeStep, PTL DEF Spec

==============================================================================
