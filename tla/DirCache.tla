------------------------------ MODULE DirCache ------------------------------
(***************************************************************************)
(* Directory listings and their cache: Rclone.getDirInfo (rclone/rclone.go) *)
(* and dirCache (rclone/dir_cache.go).  A call locks the cache item of its  *)
(* path, serves what is stored there unless it has expired, and otherwise   *)
(* asks rclone and stores the answer, all under the lock.  A TTL of zero    *)
(* disables the cache and the lock with it.                                 *)
(*                                                                          *)
(* A directory's content is the number of times it has changed.             *)
(***************************************************************************)
EXTENDS Integers, FiniteSets

CONSTANTS
    Calls,       (* the calls of getDirInfo, each made once                  *)
    NoCall,
    Dirs,        (* the directories                                          *)
    TTLs,        (* the values of DirCacheTTL to look at                     *)
    MaxClock,    (* bound on the clock                                       *)
    MaxChanges,  (* bound on the changes of each directory                   *)
    Failures     (* may rclone fail, time out or see a canceled context?     *)

ASSUME DirCacheAssumption ==
    /\ NoCall \notin Calls
    /\ TTLs \subseteq Nat
    /\ MaxClock \in Nat
    /\ MaxChanges \in Nat
    /\ Failures \in BOOLEAN

NoData == -1

VARIABLES
    ttl,         (* DirCacheTTL, which never changes                         *)
    clock,
    content,     (* what rclone would answer                                 *)
    locks,       (* who holds the mutex of each item                         *)
    gobData,     (* the stored copy, NoData at first                         *)
    expiresAt,
    pc, dir,     (* of each call: where it is, its directory,                *)
    info,        (* and what it has got                                      *)
    seen,        (* history: the newest content a finished call has returned *)
    floor,       (* history: seen and content at the beginning of the call   *)
    current,
    staleSince   (* history: when the stored copy began to miss a change     *)

itemVars == <<locks, gobData, expiresAt>>
callVars == <<pc, dir, info, floor, current>>
vars == <<ttl, clock, content, itemVars, callVars, seen, staleSince>>

SeededEnabled == ttl >= 0

(* A TTL of zero disables the cache.                                        *)
Enabled == ttl > 0

Init ==
    /\ ttl \in TTLs
    /\ clock = 0
    /\ content = [d \in Dirs |-> 0]
    /\ locks = [d \in Dirs |-> NoCall]
    /\ gobData = [d \in Dirs |-> NoData]
    /\ expiresAt = [d \in Dirs |-> 0]
    /\ pc = [c \in Calls |-> "new"]
    /\ dir \in [Calls -> Dirs]
    /\ info = [c \in Calls |-> NoData]
    /\ seen = [d \in Dirs |-> NoData]
    /\ floor = [c \in Calls |-> NoData]
    /\ current = [c \in Calls |-> NoData]
    /\ staleSince = [d \in Dirs |-> 0]

Goes(c, place) == pc' = [pc EXCEPT ![c] = place]

-----------------------------------------------------------------------------

(* Entry; without a cache there is no item to lock.                         *)
Call(c) ==
    /\ pc[c] = "new"
    /\ floor' = [floor EXCEPT ![c] = seen[dir[c]]]
    /\ current' = [current EXCEPT ![c] = content[dir[c]]]
    /\ Goes(c, IF Enabled THEN "lock" ELSE "request")
    /\ UNCHANGED <<clock, content, itemVars, dir, info, seen, staleSince>>

SeededNoLock(d) == TRUE

LockFree(d) == locks[d] = NoCall

(* cacheItem.Lock, which waits however long the holder's request takes.     *)
Lock(c) ==
    /\ pc[c] = "lock"
    /\ LockFree(dir[c])
    /\ locks' = [locks EXCEPT ![dir[c]] = c]
    /\ Goes(c, "load")
    /\ UNCHANGED <<clock, content, gobData, expiresAt, dir, info, seen, floor, current, staleSince>>

SeededNeverExpires(d) == gobData[d] # NoData

(* LoadLocked: stored and not After(expiresAt).                             *)
Fresh(d) == gobData[d] # NoData /\ clock <= expiresAt[d]

Load(c) ==
    /\ pc[c] = "load"
    /\ IF Fresh(dir[c])
         THEN Goes(c, "return") /\ info' = [info EXCEPT ![c] = gobData[dir[c]]]
         ELSE Goes(c, "request") /\ UNCHANGED info
    /\ UNCHANGED <<clock, content, itemVars, dir, seen, floor, current, staleSince>>

(* makeRequest: rclone lists the directory at some moment of the request.   *)
Request(c) ==
    /\ pc[c] = "request"
    /\ info' = [info EXCEPT ![c] = content[dir[c]]]
    /\ Goes(c, "store")
    /\ UNCHANGED <<clock, content, itemVars, dir, seen, floor, current, staleSince>>

(* saveToCache: StoreLocked, or nothing without a cache.                    *)
Store(c) ==
    /\ pc[c] = "store"
    /\ IF Enabled
         THEN /\ gobData' = [gobData EXCEPT ![dir[c]] = info[c]]
              /\ expiresAt' = [expiresAt EXCEPT ![dir[c]] = clock + ttl]
              /\ staleSince' = [staleSince EXCEPT ![dir[c]] = clock]
         ELSE UNCHANGED <<gobData, expiresAt, staleSince>>
    /\ Goes(c, "return")
    /\ UNCHANGED <<clock, content, locks, dir, info, seen, floor, current>>

SeededKeepLock(c) == UNCHANGED locks

(* The deferred Unlock.                                                     *)
Unlock(c) ==
    locks' = [d \in Dirs |-> IF locks[d] = c THEN NoCall ELSE locks[d]]

(* The decoding of a stored listing, the request, or the decoding of its    *)
(* answer fails: nothing is stored.                                         *)
Fail(c) ==
    /\ Failures
    /\ pc[c] \in {"request", "store"} \/ (pc[c] = "load" /\ Fresh(dir[c]))
    /\ Unlock(c)
    /\ Goes(c, "failed")
    /\ UNCHANGED <<clock, content, gobData, expiresAt, dir, info, seen, floor, current, staleSince>>

Return(c) ==
    /\ pc[c] = "return"
    /\ Unlock(c)
    /\ Goes(c, "done")
    /\ seen' = [seen EXCEPT ![dir[c]] = IF info[c] > @ THEN info[c] ELSE @]
    /\ UNCHANGED <<clock, content, gobData, expiresAt, dir, info, floor, current, staleSince>>

CallStep(c) == Lock(c) \/ Load(c) \/ Request(c) \/ Store(c) \/ Fail(c) \/ Return(c)

(* The environment: time passes, directories change.                        *)
Tick ==
    /\ clock < MaxClock
    /\ clock' = clock + 1
    /\ UNCHANGED <<content, itemVars, callVars, seen, staleSince>>

Change(d) ==
    /\ content[d] < MaxChanges
    /\ content' = [content EXCEPT ![d] = @ + 1]
    /\ staleSince' = [staleSince EXCEPT ![d] = IF gobData[d] = content[d] THEN clock ELSE @]
    /\ UNCHANGED <<clock, itemVars, callVars, seen>>

Finished ==
    /\ \A c \in Calls : pc[c] \in {"done", "failed"}
    /\ UNCHANGED vars

Next ==
    /\ \/ \E c \in Calls : Call(c) \/ CallStep(c)
       \/ \E d \in Dirs : Change(d)
       \/ Tick \/ Finished
    /\ UNCHANGED ttl

Spec == Init /\ [][Next]_vars

(* Calls run, and rclone answers or the HTTP client gives up after ten      *)
(* minutes.  A mutex is handed to a waiter in the end.                      *)
Fairness == \A c \in Calls : WF_vars(CallStep(c) /\ UNCHANGED ttl)

FairSpec == Spec /\ Fairness

-----------------------------------------------------------------------------
(* Properties *)

Contents == 0..MaxChanges

Pcs == {"new", "lock", "load", "request", "store", "return", "done", "failed"}

(* Every variable keeps its type.                                           *)
TypeOK ==
    /\ ttl \in TTLs
    /\ clock \in 0..MaxClock
    /\ content \in [Dirs -> Contents]
    /\ locks \in [Dirs -> Calls \cup {NoCall}]
    /\ gobData \in [Dirs -> Contents \cup {NoData}]
    /\ expiresAt \in [Dirs -> 0..(MaxClock + ttl)]
    /\ pc \in [Calls -> Pcs]
    /\ dir \in [Calls -> Dirs]
    /\ info \in [Calls -> Contents \cup {NoData}]
    /\ seen \in [Dirs -> Contents \cup {NoData}]
    /\ floor \in [Calls -> Contents \cup {NoData}]
    /\ current \in [Calls -> Contents \cup {NoData}]
    /\ staleSince \in [Dirs -> 0..MaxClock]

(* "Prevent parallel requests for the same dir": with a cache, rclone works *)
(* on one request per directory at most.                                    *)
NoParallelRequests ==
    Enabled =>
      \A c1, c2 \in Calls :
        pc[c1] \in {"request", "store"} /\ pc[c2] \in {"request", "store"} /\ dir[c1] = dir[c2]
          => c1 = c2

(* A call never returns an older listing than a call that had ended before  *)
(* it began: slow requests do not overwrite newer answers, and an expired   *)
(* listing is never followed by one from before it.                         *)
ReadsMonotone == \A c \in Calls : pc[c] = "done" => info[c] >= floor[c]

(* A change stays hidden behind the cache for the TTL at most, counted from *)
(* the change, or from StoreLocked when the change overtook the request.    *)
(* Other calls for the same directory never prolong it.                     *)
StaleForTTL ==
    [][\A c \in Calls :
         pc[c] = "load" /\ pc'[c] = "return" /\ gobData[dir[c]] # content[dir[c]]
           => clock <= staleSince[dir[c]] + ttl]_vars

(* With a TTL of zero a call returns the directory as it was when the call  *)
(* began, or later: nothing that other calls have loaded is shared.         *)
NeverStaleWithoutTTL ==
    ttl = 0 => \A c \in Calls : pc[c] = "done" => info[c] >= current[c]

(* Every call ends, also behind calls that fail while they hold the lock.   *)
CallsEnd == \A c \in Calls : pc[c] \in {"lock", "request"} ~> pc[c] \in {"done", "failed"}

=============================================================================
