----------------------------- MODULE Lifecycle -----------------------------
(***************************************************************************)
(* The life of the process: main (main.go), Rview.Prepare, Start and        *)
(* Shutdown (cmd/rview.go), and the parts of the components they touch: the *)
(* rclone process (Rclone.Start and Shutdown in rclone/rclone.go), the HTTP *)
(* server (web/web.go) and the outside of the search service, the thumbnail *)
(* service and the disk caches, whose insides have modules of their own.    *)
(***************************************************************************)
EXTENDS Integers, Sequences, FiniteSets

CONSTANTS
    MaxRequests,   (* bound on the requests in progress                      *)
    Events         (* what may happen: "prepare", "spawn", "exit", "listen", *)
                   (* "index": these fail; "signal"; "deadline"              *)

ASSUME LifecycleAssumption ==
    /\ MaxRequests \in Nat
    /\ Events \subseteq {"prepare", "spawn", "exit", "listen", "index", "signal", "deadline"}

May(event) == event \in Events

Components == {"rclone", "thumbnailCache", "originalImageCache", "thumbnails", "search", "web"}

Starters == {"rclone", "search", "web"}

VARIABLES
    config,         (* what matters of rview.Config, which never changes:    *)
                    (* is the preview mode "thumbnails", and does rview run  *)
                    (* rclone itself (no rclone-url)?                        *)
    mainPc,         (* where main is                                         *)
    made,           (* how much of PrepareOrder has been created             *)
    term,           (* is termCtx done?                                      *)
    caught,         (* does signal.NotifyContext catch SIGINT and SIGTERM?   *)
    exitCode,
    startPc,        (* the goroutines of Rview.Start                         *)
    process,        (* the rclone process                                    *)
    canceled,       (* is the context of the rclone command canceled?        *)
    byShutdown,     (* stoppedByShutdown                                     *)
    stoppedCh,      (* Rclone.stoppedCh: "nil", "open" or "closed"           *)
    refreshing,     (* is the search service's background goroutine there?   *)
    active,         (* the number of requests in progress                    *)
    pos,            (* the position of Rview.Shutdown in its list,           *)
    stopping,       (* whether the component there has been told to stop,    *)
    told,           (* the components that have been told to stop,           *)
    errs,           (* and those whose Shutdown returned an error            *)
    expired         (* have the ten seconds of the context passed?           *)

rcloneVars == <<process, canceled, byShutdown, stoppedCh>>
shutdownVars == <<pos, stopping, told, errs, expired>>
vars == <<config, mainPc, made, term, caught, exitCode, startPc, rcloneVars, refreshing, active,
          shutdownVars>>

Configs == [thumbnails : BOOLEAN, ownRclone : BOOLEAN]

(* What Prepare creates, in its order.                                      *)
PrepareOrder ==
    IF config.thumbnails
      THEN <<"rclone", "thumbnailCache", "originalImageCache", "thumbnails", "search", "web">>
      ELSE <<"rclone", "thumbnails", "search", "web">>

Init ==
    /\ config \in Configs
    /\ mainPc = "prepare"
    /\ made = 0
    /\ term = FALSE /\ caught = FALSE
    /\ exitCode = 0
    /\ startPc = [s \in Starters |-> "none"]
    /\ process = "none"
    /\ canceled = FALSE
    /\ byShutdown = FALSE
    /\ stoppedCh = "nil"
    /\ refreshing = FALSE
    /\ active = 0
    /\ pos = 1 /\ stopping = FALSE /\ told = {} /\ errs = {}
    /\ expired = FALSE

-----------------------------------------------------------------------------
(* Prepare and Start *)

(* Prepare creates the next component.                                      *)
Prepare ==
    /\ mainPc = "prepare"
    /\ made < Len(PrepareOrder)
    /\ made' = made + 1
    /\ UNCHANGED <<mainPc, term, caught, exitCode, startPc, rcloneVars, refreshing, active,
                   shutdownVars>>

(* Everything but the services without a constructor error may fail, and    *)
(* main goes straight to its deferred function.                             *)
PrepareFails ==
    /\ May("prepare")
    /\ mainPc = "prepare"
    /\ made < Len(PrepareOrder)
    /\ PrepareOrder[made + 1] \in {"rclone", "thumbnailCache", "originalImageCache", "search"}
    /\ exitCode' = 1
    /\ mainPc' = "shutdown"
    /\ UNCHANGED <<made, term, caught, startPc, rcloneVars, refreshing, active, shutdownVars>>

(* main asks for the signals and calls Rview.Start: one goroutine for each  *)
(* component that has to be started.                                        *)
Start ==
    /\ mainPc = "prepare"
    /\ made = Len(PrepareOrder)
    /\ mainPc' = "running"
    /\ caught' = TRUE
    /\ startPc' = [s \in Starters |-> "begin"]
    /\ UNCHANGED <<made, term, exitCode, rcloneVars, refreshing, active, shutdownVars>>

SeededOnError(err) ==
    exitCode' = (IF err THEN 1 ELSE exitCode) /\ UNCHANGED <<term, caught>>

(* onError, called by a goroutine whose Start has returned an error.  The   *)
(* function it calls is the stop of NotifyContext: it ends termCtx, and     *)
(* signals have their default effect again.                                 *)
OnError(err) ==
    IF err
      THEN exitCode' = 1 /\ term' = TRUE /\ caught' = FALSE
      ELSE UNCHANGED <<exitCode, term, caught>>

(* The Start of s returns.                                                  *)
Returns(s, err) ==
    /\ startPc' = [startPc EXCEPT ![s] = IF err THEN "error" ELSE "ok"]
    /\ OnError(err)

StartFinished == \A s \in Starters : startPc[s] \in {"ok", "error"}

-----------------------------------------------------------------------------
(* Rclone.Start *)

(* stoppedCh is made; with an external rclone there is nothing else to do.  *)
RcloneBegin ==
    /\ startPc["rclone"] = "begin"
    /\ IF config.ownRclone
         THEN /\ stoppedCh' = "open"
              /\ startPc' = [startPc EXCEPT !["rclone"] = "spawn"]
              /\ UNCHANGED <<term, caught, exitCode>>
         ELSE stoppedCh' = "closed" /\ Returns("rclone", FALSE)
    /\ UNCHANGED <<mainPc, made, process, canceled, byShutdown, refreshing, active,
                   shutdownVars>>

(* cmd.Start runs the command unless its context is canceled already.       *)
RcloneSpawn ==
    /\ startPc["rclone"] = "spawn"
    /\ ~canceled
    /\ process' = "running"
    /\ startPc' = [startPc EXCEPT !["rclone"] = "wait"]
    /\ UNCHANGED <<mainPc, made, term, caught, exitCode, canceled, byShutdown, stoppedCh,
                   refreshing, active, shutdownVars>>

(* It fails on a canceled context, and when the command cannot be run.      *)
RcloneSpawnFails ==
    /\ startPc["rclone"] = "spawn"
    /\ canceled \/ May("spawn")
    /\ stoppedCh' = "closed"
    /\ Returns("rclone", TRUE)
    /\ UNCHANGED <<mainPc, made, process, canceled, byShutdown, refreshing, active, shutdownVars>>

(* cmd.Wait returns once the process is gone; after Shutdown its error does *)
(* not count.                                                               *)
RcloneWaitReturns ==
    /\ startPc["rclone"] = "wait"
    /\ process \in {"exited", "failed"}
    /\ stoppedCh' = "closed"
    /\ Returns("rclone", process = "failed" /\ ~byShutdown)
    /\ UNCHANGED <<mainPc, made, process, canceled, byShutdown, refreshing, active,
                   shutdownVars>>

(* The process ends on its own, well or badly.                              *)
RcloneExits ==
    /\ May("exit")
    /\ process = "running"
    /\ process' \in {"exited", "failed"}
    /\ UNCHANGED <<mainPc, made, term, caught, exitCode, startPc, canceled, byShutdown, stoppedCh,
                   refreshing, active, shutdownVars>>

(* exec.CommandContext kills the process when its context is canceled.      *)
KillRclone ==
    /\ canceled
    /\ process = "running"
    /\ process' = "failed"
    /\ UNCHANGED <<mainPc, made, term, caught, exitCode, startPc, canceled, byShutdown, stoppedCh,
                   refreshing, active, shutdownVars>>

-----------------------------------------------------------------------------
(* The Start of the search service and of the web server *)

RcloneAnswers == IF config.ownRclone THEN process = "running" ELSE TRUE

(* The index is loaded from its file, which is always possible, or built    *)
(* with rclone; a background goroutine keeps it fresh.                      *)
SearchStarts ==
    /\ startPc["search"] = "begin"
    /\ refreshing' = TRUE
    /\ Returns("search", FALSE)
    /\ UNCHANGED <<mainPc, made, rcloneVars, active, shutdownVars>>

(* Every try to build it has failed: rclone does not answer, or its answers *)
(* are no use.                                                              *)
SearchStartFails ==
    /\ startPc["search"] = "begin"
    /\ May("index") \/ ~RcloneAnswers
    /\ Returns("search", TRUE)
    /\ UNCHANGED <<mainPc, made, rcloneVars, refreshing, active, shutdownVars>>

(* The background goroutine sees stopCh closed.                             *)
RefreshStops ==
    /\ refreshing
    /\ "search" \in told
    /\ refreshing' = FALSE
    /\ UNCHANGED <<mainPc, made, term, caught, exitCode, startPc, rcloneVars, active, shutdownVars>>

Listen ==
    /\ startPc["web"] = "begin"
    /\ "web" \notin told
    /\ startPc' = [startPc EXCEPT !["web"] = "serve"]
    /\ UNCHANGED <<mainPc, made, term, caught, exitCode, rcloneVars, refreshing, active,
                   shutdownVars>>

ListenFails ==
    /\ May("listen")
    /\ startPc["web"] = "begin"
    /\ "web" \notin told
    /\ Returns("web", TRUE)
    /\ UNCHANGED <<mainPc, made, rcloneVars, refreshing, active, shutdownVars>>

(* http.ErrServerClosed, also when Shutdown was faster: not an error.       *)
ServeReturns ==
    /\ startPc["web"] \in {"begin", "serve"}
    /\ "web" \in told
    /\ Returns("web", FALSE)
    /\ UNCHANGED <<mainPc, made, rcloneVars, refreshing, active, shutdownVars>>

(* A request arrives, and ends; the server takes none once it is closing.   *)
Accept ==
    /\ startPc["web"] = "serve"
    /\ "web" \notin told
    /\ active < MaxRequests
    /\ active' = active + 1
    /\ UNCHANGED <<mainPc, made, term, caught, exitCode, startPc, rcloneVars, refreshing,
                   shutdownVars>>

Respond ==
    /\ active > 0
    /\ active' = active - 1
    /\ UNCHANGED <<mainPc, made, term, caught, exitCode, startPc, rcloneVars, refreshing,
                   shutdownVars>>

-----------------------------------------------------------------------------
(* Shutdown *)

(* SIGINT or SIGTERM, caught: termCtx is done.  A second one changes        *)
(* nothing, since NotifyContext keeps catching until its stop is called.    *)
Signal ==
    /\ May("signal")
    /\ caught /\ ~term
    /\ term' = TRUE
    /\ UNCHANGED <<mainPc, made, caught, exitCode, startPc, rcloneVars, refreshing, active,
                   shutdownVars>>

(* SIGINT or SIGTERM with its default effect, before NotifyContext or after *)
(* onError: the process is gone, and no deferred function runs.             *)
SignalKills ==
    /\ May("signal")
    /\ ~caught
    /\ mainPc' = "killed"
    /\ UNCHANGED <<made, term, caught, exitCode, startPc, rcloneVars, refreshing, active,
                   shutdownVars>>

Terminate ==
    /\ mainPc = "running"
    /\ term
    /\ mainPc' = "shutdown"
    /\ UNCHANGED <<made, term, caught, exitCode, startPc, rcloneVars, refreshing, active,
                   shutdownVars>>

(* The ten seconds are over.                                                *)
Expire ==
    /\ May("deadline")
    /\ mainPc = "shutdown" /\ ~expired
    /\ expired' = TRUE
    /\ UNCHANGED <<mainPc, made, term, caught, exitCode, startPc, rcloneVars, refreshing, active,
                   pos, stopping, told, errs>>

SeededServicesFirst ==
    <<"thumbnails", "thumbnailCache", "originalImageCache", "web", "search", "rclone">>

(* The list in Rview.Shutdown.                                              *)
ShutdownOrder ==
    <<"web", "thumbnails", "thumbnailCache", "originalImageCache", "search", "rclone">>

(* The field of Rview is not nil.                                           *)
Created(c) == \E i \in 1..made : PrepareOrder[i] = c

SeededAlways(c) == TRUE

(* The check in safeShutdown.                                               *)
Initialized(c) == Created(c)

Skip ==
    /\ mainPc = "shutdown" /\ ~stopping
    /\ pos <= Len(ShutdownOrder)
    /\ ~Initialized(ShutdownOrder[pos])
    /\ pos' = pos + 1
    /\ UNCHANGED <<mainPc, made, term, caught, exitCode, startPc, rcloneVars, refreshing, active,
                   stopping, told, errs, expired>>

SeededCheckFirst ==
    /\ byShutdown' = TRUE
    /\ canceled' = (stoppedCh # "nil")

(* Rclone.Shutdown cancels the command's context whether or not Start has   *)
(* begun.                                                                   *)
StopCmd ==
    /\ byShutdown' = TRUE
    /\ canceled' = config.ownRclone

(* The first half of a component's Shutdown, up to the wait.  On a nil      *)
(* component it panics.                                                     *)
StopComponent ==
    /\ mainPc = "shutdown" /\ ~stopping
    /\ pos <= Len(ShutdownOrder)
    /\ Initialized(ShutdownOrder[pos])
    /\ stopping' = TRUE
    /\ told' = told \cup {ShutdownOrder[pos]}
    /\ mainPc' = IF Created(ShutdownOrder[pos]) THEN mainPc ELSE "panic"
    /\ IF ShutdownOrder[pos] = "rclone" THEN StopCmd ELSE UNCHANGED <<byShutdown, canceled>>
    /\ UNCHANGED <<made, term, caught, exitCode, startPc, process, stoppedCh, refreshing, active,
                   pos, errs, expired>>

(* What the Shutdown of each component waits for.  The workers and the      *)
(* cleaners may be done at any time: Thumbnails and CacheCleaner have that. *)
Stopped(c) ==
    CASE c = "web"    -> active = 0
      [] c = "search" -> startPc["search"] = "error" \/ (startPc["search"] = "ok" /\ ~refreshing)
      [] c = "rclone" -> stoppedCh \in {"nil", "closed"}
      [] OTHER        -> TRUE

ComponentStopped ==
    /\ mainPc = "shutdown" /\ stopping
    /\ Stopped(ShutdownOrder[pos])
    /\ stopping' = FALSE
    /\ pos' = pos + 1
    /\ UNCHANGED <<mainPc, made, term, caught, exitCode, startPc, rcloneVars, refreshing, active,
                   told, errs, expired>>

(* ctx.Done: the error is logged and the next component is told to stop.    *)
ComponentExpired ==
    /\ mainPc = "shutdown" /\ stopping
    /\ expired
    /\ errs' = errs \cup {ShutdownOrder[pos]}
    /\ stopping' = FALSE
    /\ pos' = pos + 1
    /\ UNCHANGED <<mainPc, made, term, caught, exitCode, startPc, rcloneVars, refreshing, active,
                   told, expired>>

(* Rview.Shutdown returns; what it returns is logged.                       *)
EndShutdown ==
    /\ mainPc = "shutdown"
    /\ pos > Len(ShutdownOrder)
    /\ mainPc' = "waitStart"
    /\ UNCHANGED <<made, term, caught, exitCode, startPc, rcloneVars, refreshing, active,
                   pos, stopping, told, errs, expired>>

SeededNoWait == TRUE

(* <-startFinished, unless Rview.Start has never been called.               *)
StartsAreOver == StartFinished \/ \A s \in Starters : startPc[s] = "none"

Exit ==
    /\ mainPc = "waitStart"
    /\ StartsAreOver
    /\ mainPc' = "exited"
    /\ UNCHANGED <<made, term, caught, exitCode, startPc, rcloneVars, refreshing, active,
                   shutdownVars>>

-----------------------------------------------------------------------------

Main ==
    \/ Prepare \/ PrepareFails \/ Start \/ Terminate
    \/ Skip \/ StopComponent \/ ComponentStopped \/ ComponentExpired \/ EndShutdown \/ Exit

RcloneStart == RcloneBegin \/ RcloneSpawn \/ RcloneSpawnFails \/ RcloneWaitReturns
SearchStart == SearchStarts \/ SearchStartFails
WebStart == Listen \/ ListenFails \/ ServeReturns

(* os.Exit, a panic and a signal end every goroutine.                       *)
Alive == mainPc \notin {"exited", "panic", "killed"}

Next ==
    /\ \/ /\ Alive
          /\ \/ Main \/ Signal \/ SignalKills \/ Expire
             \/ RcloneStart \/ SearchStart \/ RefreshStops \/ WebStart \/ Accept \/ Respond
             \/ KillRclone
       \/ RcloneExits
       \/ ~Alive /\ UNCHANGED vars
    /\ UNCHANGED config

Spec == Init /\ [][Next]_vars

(* Goroutines run; every try to build the index ends, since requests to     *)
(* rclone have a timeout; the clock reaches the deadline; a killed process  *)
(* dies.  Requests and the rclone process may go on for ever.               *)
Running(A) == Alive /\ A /\ UNCHANGED config

Fairness ==
    /\ WF_vars(Running(Main)) /\ WF_vars(Running(Expire))
    /\ WF_vars(Running(RcloneStart)) /\ WF_vars(Running(SearchStart))
    /\ WF_vars(Running(RefreshStops)) /\ WF_vars(Running(WebStart))
    /\ WF_vars(Running(KillRclone))

FairSpec == Spec /\ Fairness

-----------------------------------------------------------------------------
(* Properties *)

(* Every variable keeps its type.                                           *)
TypeOK ==
    /\ config \in Configs
    /\ mainPc \in {"prepare", "running", "shutdown", "waitStart", "exited", "panic", "killed"}
    /\ made \in 0..Len(PrepareOrder)
    /\ {term, caught, canceled, byShutdown, refreshing, stopping, expired} \subseteq BOOLEAN
    /\ exitCode \in {0, 1}
    /\ startPc \in [Starters -> {"none", "begin", "spawn", "wait", "serve", "ok", "error"}]
    /\ process \in {"none", "running", "exited", "failed"}
    /\ stoppedCh \in {"nil", "open", "closed"}
    /\ active \in 0..MaxRequests
    /\ pos \in 1..(Len(ShutdownOrder) + 1)
    /\ told \subseteq Components /\ errs \subseteq told

(* "Always shutdown service to not keep any external commands running": the *)
(* rclone process does not outlive rview, although its Start may come later *)
(* than its Shutdown and every wait in Shutdown may expire.  There is one   *)
(* exception: a signal kills rview after onError has given the signals back *)
(* their default effect, see NothingLeftRunning.                            *)
NoOrphanRclone == process = "running" => Alive \/ (mainPc = "killed" /\ exitCode = 1)

(* The same promise of main.go without the exception.  It does not hold: a  *)
(* signal that comes while main shuts down because a component has failed   *)
(* ends rview without Rclone.Shutdown.                                      *)
NothingLeftRunning == process = "running" => Alive

(* "It is safe to call this method even if Prepare has failed."             *)
ShutdownIsSafe == mainPc # "panic"

(* No request is in progress while the services it uses are shut down,      *)
(* unless the web server's own shutdown ran out of time.                    *)
RequestsBeforeServices ==
    active > 0 /\ told \cap {"thumbnails", "search", "rclone"} # {} => "web" \in errs

(* Whatever asks rview to stop, and whatever the phase it is in, the        *)
(* process ends, although main waits for startFinished without a timeout.   *)
Exits == term \/ mainPc = "shutdown" ~> mainPc \in {"exited", "killed"}

(* A component that cannot start, or rclone failing later, brings rview     *)
(* down with exit code 1, unless a signal kills it on the way.              *)
FailureExits ==
    \A s \in Starters :
      startPc[s] = "error" ~> (mainPc = "exited" /\ exitCode = 1) \/ mainPc = "killed"

=============================================================================
