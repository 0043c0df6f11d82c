--------------------------- MODULE DirCacheProofs ---------------------------
(***************************************************************************)
(* Proofs about DirCache, and about FileAccess, which extends it, for any   *)
(* number of calls, readers, directories and changes.                       *)
(*                                                                          *)
(* The mutex of an item is the key: who is past Lock and not yet returned   *)
(* holds it (LockInv).  Under it the stored listing, the listing in a       *)
(* call's hands and the newest one a finished call has returned are in      *)
(* order (OrderInv), so neither a slow answer nor an expired copy can take  *)
(* a caller back in time.                                                   *)
(*                                                                          *)
(* The two checks of a response tell every two versions of a file apart,    *)
(* and a listing does not change once it has been returned, so that what    *)
(* passes the checks is what was listed, piece by piece.                    *)
(***************************************************************************)
EXTENDS FileAccess, TLAPS

Critical == {"load", "request", "store", "return"}

(* A call between Lock and Unlock holds the mutex of its directory.         *)
LockInv == Enabled => \A c \in Calls : pc[c] \in Critical => locks[dir[c]] = c

(* Nothing is newer than the directory itself.                              *)
NothingNewer ==
    /\ \A d \in Dirs : seen[d] <= content[d] /\ gobData[d] <= content[d]
    /\ \A c \in Calls : info[c] <= content[dir[c]]

(* What has been returned is stored, or older than what is.                 *)
StoredIsNewest ==
    Enabled =>
      /\ \A d \in Dirs : seen[d] <= gobData[d]
      /\ \A c \in Calls : pc[c] = "store" => gobData[dir[c]] <= info[c]
      /\ \A c \in Calls : pc[c] = "return" => info[c] = gobData[dir[c]]

(* A call is above what had been returned when it began.                    *)
AboveFloor ==
    \A c \in Calls :
      /\ pc[c] # "new" => floor[c] <= seen[dir[c]]
      /\ pc[c] \in {"store", "return", "done"} => floor[c] <= info[c]

(* Without a cache nobody looks at it.                                      *)
OnlyWithCache == \A c \in Calls : pc[c] \in {"lock", "load"} => Enabled

OrderInv == NothingNewer /\ StoredIsNewest /\ AboveFloor /\ OnlyWithCache

(* Without a cache a call is above what the directory was when it began.    *)
AboveCurrent ==
    ~Enabled =>
      \A c \in Calls :
        /\ current[c] <= content[dir[c]]
        /\ pc[c] \in {"store", "return", "done"} => current[c] <= info[c]

(* A copy expires TTL after it began to miss a change, or earlier.          *)
TimeInv ==
    \A d \in Dirs : staleSince[d] <= clock /\ expiresAt[d] <= staleSince[d] + ttl

-----------------------------------------------------------------------------

(* The initial state has the types and the order.                           *)
LEMMA InitInv == Init => TypeOK /\ LockInv /\ OrderInv /\ AboveCurrent /\ TimeInv
BY DirCacheAssumption DEF Init, DirCacheAssumption, TypeOK, LockInv, OrderInv, NothingNewer,
    StoredIsNewest, AboveFloor, OnlyWithCache, AboveCurrent, TimeInv, Contents, NoData, Pcs, Critical

(* Every step keeps the types.                                              *)
LEMMA TypeStep == TypeOK /\ [Next]_vars => TypeOK'
<1> SUFFICES ASSUME TypeOK, [Next]_vars
             PROVE  TypeOK'
    OBVIOUS
<1>0. ttl' = ttl /\ (Enabled' <=> Enabled)
    BY DEF Next, vars, Enabled
<1> USE DirCacheAssumption, <1>0 DEF DirCacheAssumption, TypeOK, Contents, Pcs, NoData, Goes
<1>1. ASSUME NEW c \in Calls, Call(c) PROVE TypeOK'
    BY <1>1 DEF Call, itemVars
<1>2. ASSUME NEW c \in Calls, Lock(c) PROVE TypeOK'
    BY <1>2 DEF Lock
<1>3. ASSUME NEW c \in Calls, Load(c) PROVE TypeOK'
    BY <1>3 DEF Load, itemVars
<1>4. ASSUME NEW c \in Calls, Request(c) PROVE TypeOK'
    BY <1>4 DEF Request, itemVars
<1>5. ASSUME NEW c \in Calls, Store(c) PROVE TypeOK'
    BY <1>5 DEF Store
<1>6. ASSUME NEW c \in Calls, Fail(c) PROVE TypeOK'
    BY <1>6 DEF Fail, Unlock
<1>7. ASSUME NEW c \in Calls, Return(c) PROVE TypeOK'
    BY <1>7 DEF Return, Unlock
<1>8. CASE Tick
    BY <1>8 DEF Tick, itemVars, callVars
<1>9. ASSUME NEW d \in Dirs, Change(d) PROVE TypeOK'
    BY <1>9 DEF Change, itemVars, callVars
<1>10. CASE UNCHANGED vars
    BY <1>10 DEF vars, itemVars, callVars
<1> QED
    BY <1>1, <1>2, <1>3, <1>4, <1>5, <1>6, <1>7, <1>8, <1>9, <1>10
    DEF Next, CallStep, Finished

(* Every step keeps the mutex with the calls in their critical sections.    *)
LEMMA LockStep == TypeOK /\ LockInv /\ [Next]_vars => LockInv'
<1>0. [Next]_vars => ttl' = ttl /\ (Enabled' <=> Enabled)
    BY DEF Next, vars, Enabled
<1> SUFFICES ASSUME TypeOK, LockInv, [Next]_vars, Enabled
             PROVE  \A x \in Calls : pc'[x] \in Critical => locks'[dir'[x]] = x
    BY <1>0 DEF LockInv
<1> USE DirCacheAssumption, <1>0 DEF DirCacheAssumption, TypeOK, Pcs, Critical, LockInv, Goes
<1>1. ASSUME NEW c \in Calls, Call(c)
      PROVE  \A x \in Calls : pc'[x] \in Critical => locks'[dir'[x]] = x
    BY <1>1 DEF Call, itemVars
<1>2. ASSUME NEW c \in Calls, Lock(c)
      PROVE  \A x \in Calls : pc'[x] \in Critical => locks'[dir'[x]] = x
    BY <1>2 DEF Lock, LockFree
<1>3. ASSUME NEW c \in Calls, Load(c) \/ Request(c) \/ Store(c)
      PROVE  \A x \in Calls : pc'[x] \in Critical => locks'[dir'[x]] = x
    BY <1>3 DEF Load, Request, Store, itemVars
<1>4. ASSUME NEW c \in Calls, Fail(c) \/ Return(c)
      PROVE  \A x \in Calls : pc'[x] \in Critical => locks'[dir'[x]] = x
    BY <1>4 DEF Fail, Return, Unlock
<1>5. CASE Tick \/ (\E d \in Dirs : Change(d)) \/ UNCHANGED vars
    BY <1>5 DEF Tick, Change, vars, itemVars, callVars
<1> QED
    BY <1>1, <1>2, <1>3, <1>4, <1>5 DEF Next, CallStep, Finished

(* Every step keeps the listings in order.                                  *)
LEMMA OrderStep == TypeOK /\ LockInv /\ OrderInv /\ [Next]_vars => OrderInv'
<1> SUFFICES ASSUME TypeOK, LockInv, OrderInv, [Next]_vars
             PROVE  OrderInv'
    OBVIOUS
<1>0. ttl' = ttl /\ (Enabled' <=> Enabled)
    BY DEF Next, vars, Enabled
<1> USE DirCacheAssumption, <1>0 DEF DirCacheAssumption, TypeOK, Contents, Pcs, NoData, Goes,
        OrderInv, NothingNewer, StoredIsNewest, AboveFloor, OnlyWithCache
<1>1. ASSUME NEW c \in Calls, Call(c) PROVE OrderInv'
    BY <1>1 DEF Call, itemVars
<1>2. ASSUME NEW c \in Calls, Lock(c) PROVE OrderInv'
    BY <1>2 DEF Lock
<1>3. ASSUME NEW c \in Calls, Load(c) PROVE OrderInv'
    <2>1. Enabled
        BY <1>3 DEF Load
    <2> QED
        BY <1>3, <2>1 DEF Load, itemVars
<1>4. ASSUME NEW c \in Calls, Request(c) PROVE OrderInv'
    BY <1>4 DEF Request, itemVars
<1>5. ASSUME NEW c \in Calls, Store(c) PROVE OrderInv'
    BY <1>5 DEF Store, LockInv, Critical
<1>6. ASSUME NEW c \in Calls, Fail(c) PROVE OrderInv'
    BY <1>6 DEF Fail
<1>7. ASSUME NEW c \in Calls, Return(c) PROVE OrderInv'
    BY <1>7 DEF Return
<1>8. CASE Tick
    BY <1>8 DEF Tick, itemVars, callVars
<1>9. ASSUME NEW d \in Dirs, Change(d) PROVE OrderInv'
    BY <1>9 DEF Change, itemVars, callVars
<1>10. CASE UNCHANGED vars
    BY <1>10 DEF vars, itemVars, callVars
<1> QED
    BY <1>1, <1>2, <1>3, <1>4, <1>5, <1>6, <1>7, <1>8, <1>9, <1>10
    DEF Next, CallStep, Finished

(* Every step keeps what bounds the age of a listing.                       *)
LEMMA AgeStep ==
    TypeOK /\ OrderInv /\ AboveCurrent /\ TimeInv /\ [Next]_vars => (AboveCurrent /\ TimeInv)'
<1> SUFFICES ASSUME TypeOK, OrderInv, AboveCurrent, TimeInv, [Next]_vars
             PROVE  (AboveCurrent /\ TimeInv)'
    OBVIOUS
<1>0. ttl' = ttl /\ (Enabled' <=> Enabled)
    BY DEF Next, vars, Enabled
<1> USE DirCacheAssumption, <1>0 DEF DirCacheAssumption, TypeOK, Contents, Pcs, NoData, Goes,
        OrderInv, NothingNewer, OnlyWithCache, AboveCurrent, TimeInv
<1>1. ASSUME NEW c \in Calls, Call(c) PROVE (AboveCurrent /\ TimeInv)'
    BY <1>1 DEF Call, itemVars
<1>2. ASSUME NEW c \in Calls, Lock(c) PROVE (AboveCurrent /\ TimeInv)'
    BY <1>2 DEF Lock
<1>3. ASSUME NEW c \in Calls, Load(c) PROVE (AboveCurrent /\ TimeInv)'
    BY <1>3 DEF Load, itemVars
<1>4. ASSUME NEW c \in Calls, Request(c) PROVE (AboveCurrent /\ TimeInv)'
    BY <1>4 DEF Request, itemVars
<1>5. ASSUME NEW c \in Calls, Store(c) PROVE (AboveCurrent /\ TimeInv)'
    BY <1>5 DEF Store
<1>6. ASSUME NEW c \in Calls, Fail(c) PROVE (AboveCurrent /\ TimeInv)'
    BY <1>6 DEF Fail
<1>7. ASSUME NEW c \in Calls, Return(c) PROVE (AboveCurrent /\ TimeInv)'
    BY <1>7 DEF Return
<1>8. CASE Tick
    BY <1>8 DEF Tick, itemVars, callVars
<1>9. ASSUME NEW d \in Dirs, Change(d) PROVE (AboveCurrent /\ TimeInv)'
    BY <1>9 DEF Change, itemVars, callVars
<1>10. CASE UNCHANGED vars
    BY <1>10 DEF vars, itemVars, callVars
<1> QED
    BY <1>1, <1>2, <1>3, <1>4, <1>5, <1>6, <1>7, <1>8, <1>9, <1>10
    DEF Next, CallStep, Finished

-----------------------------------------------------------------------------

ListingsInv == TypeOK /\ LockInv /\ OrderInv /\ AboveCurrent /\ TimeInv

(* The inductive invariant of the listings.                                 *)
LEMMA ListingsInvariant == Spec => []ListingsInv
<1>1. Init => ListingsInv
    BY InitInv DEF ListingsInv
<1>2. ListingsInv /\ [Next]_vars => ListingsInv'
    BY TypeStep, LockStep, OrderStep, AgeStep DEF ListingsInv
<1> QED
    BY <1>1, <1>2, PTL DEF Spec

(* "Prevent parallel requests for the same dir": with the cache enabled,    *)
(* getDirInfo has one request per directory in progress at most.            *)
THEOREM OneRequestPerDir == Spec => []NoParallelRequests
<1>1. ListingsInv => NoParallelRequests
    BY DEF ListingsInv, LockInv, NoParallelRequests, Critical
<1> QED
    BY <1>1, ListingsInvariant, PTL

(* getDirInfo never returns an older listing than a call that had ended     *)
(* before it began.                                                         *)
THEOREM ListingsNeverGoBack == Spec => []ReadsMonotone
<1>1. ListingsInv => ReadsMonotone
    BY DEF ListingsInv, TypeOK, Contents, NoData, OrderInv, AboveFloor, ReadsMonotone
<1> QED
    BY <1>1, ListingsInvariant, PTL

(* With DirCacheTTL zero getDirInfo returns the directory as it was when    *)
(* the call began, or later.                                                *)
THEOREM NeverStaleWhenDisabled == Spec => []NeverStaleWithoutTTL
<1>1. ListingsInv => NeverStaleWithoutTTL
    BY DEF ListingsInv, TypeOK, Contents, NoData, AboveCurrent, Enabled, NeverStaleWithoutTTL
<1> QED
    BY <1>1, ListingsInvariant, PTL

(* LoadLocked hides a change of the directory for DirCacheTTL at most.      *)
THEOREM HiddenForTTL == Spec => StaleForTTL
<1> DEFINE InTime(c) ==
      pc[c] = "load" /\ pc'[c] = "return" /\ gobData[dir[c]] # content[dir[c]]
        => clock <= staleSince[dir[c]] + ttl
<1>1. ASSUME ListingsInv, [Next]_vars, NEW c \in Calls
      PROVE  InTime(c)
    <2> SUFFICES ASSUME pc[c] = "load", pc'[c] = "return"
                 PROVE  clock <= staleSince[dir[c]] + ttl
        OBVIOUS
    <2> USE DEF ListingsInv, TypeOK, Pcs, Goes
    <2>1. Load(c)
        BY <1>1 DEF Next, CallStep, Call, Lock, Load, Request, Store, Fail, Return, Tick,
            Change, Finished, vars, itemVars, callVars
    <2>2. clock <= expiresAt[dir[c]]
        BY <1>1, <2>1 DEF Load, Fresh
    <2> QED
        BY <1>1, <2>2, DirCacheAssumption DEF DirCacheAssumption, TimeInv
<1>2. ListingsInv /\ [Next]_vars => [\A c \in Calls : InTime(c)]_vars
    BY <1>1
<1> QED
    BY <1>2, ListingsInvariant, PTL DEF Spec, StaleForTTL

-----------------------------------------------------------------------------
(* Reading files by a listing *)

(* The time and the size of a file determine its version.                   *)
LEMMA VersionDetermined ==
    ASSUME NEW v \in Int, NEW u \in Int, ModTime(v) = ModTime(u), Size(v) = Size(u)
    PROVE  v = u
BY DEF ModTime, Size

(* Readers follow finished calls, and have checked pieces in hand only.     *)
ReaderInv ==
    /\ rpc \in [Readers -> {"idle", "header", "proxied", "range", "opened", "refused"}]
    /\ pieces \in [Readers -> SUBSET Contents]
    /\ \A c \in Readers :
         /\ rpc[c] # "idle" => pc[c] = "done"
         /\ rpc[c] = "idle" => pieces[c] = {}
         /\ rpc[c] \in {"header", "proxied", "opened"} => pieces[c] = {info[c]}

(* What a call has returned stays as it is.                                 *)
LEMMA DoneStays ==
    ASSUME TypeOK, [Next]_vars, NEW c \in Calls, pc[c] = "done"
    PROVE  pc'[c] = "done" /\ info'[c] = info[c]
  <1> USE DEF TypeOK, Goes, callVars
  <1>1. ASSUME NEW x \in Calls, Call(x) \/ CallStep(x)
        PROVE  pc'[c] = "done" /\ info'[c] = info[c]
    BY <1>1 DEF Call, CallStep, Lock, Load, Request, Store, Fail, Return
  <1>2. CASE \/ \E d \in Dirs : Change(d)
             \/ Tick \/ Finished \/ UNCHANGED vars
    BY <1>2 DEF Change, Tick, Finished, vars
  <1> QED BY <1>1, <1>2 DEF Next

(* A checked response that is read is of the listed version.                *)
LEMMA CheckedIsListed ==
    ASSUME TypeOK, NEW c \in Readers,
           checkModTime(c, Answer(c)), checkSize(c, Answer(c))
    PROVE  Answer(c) = info[c]
  <1>1. c \in Calls
    BY ReadersAssumption DEF ReadersAssumption
  <1>2. Answer(c) \in Int /\ info[c] \in Int
    BY <1>1, DirCacheAssumption DEF DirCacheAssumption, TypeOK, Answer, Contents, NoData
  <1> QED BY <1>2, VersionDetermined DEF checkModTime, checkSize

LEMMA ReaderStep == TypeOK /\ ReaderInv /\ [FileNext]_allVars => ReaderInv'
  <1> SUFFICES ASSUME TypeOK, ReaderInv, [FileNext]_allVars PROVE ReaderInv'
    OBVIOUS
  <1>calls. \A c \in Readers : c \in Calls
    BY ReadersAssumption DEF ReadersAssumption
  <1>1. CASE [Next]_vars /\ UNCHANGED fileVars
    <2>1. \A c \in Readers : pc[c] = "done" => pc'[c] = "done" /\ info'[c] = info[c]
      BY <1>1, <1>calls, DoneStays
    <2> QED BY <1>1, <2>1 DEF ReaderInv, fileVars
  <1>2. ASSUME NEW c \in Readers, ReadStep(c), UNCHANGED vars
        PROVE  ReaderInv'
    <2>0. UNCHANGED <<pc, info>>
      BY <1>2 DEF vars, callVars
    <2>1. Answer(c) \in Contents
      BY <1>calls DEF TypeOK, Answer
    <2>2. CASE Refuses(c) /\ (Follows(c) \/ rpc[c] = "header")
      BY <2>0, <2>2 DEF Refuses, Follows, ReaderInv
    <2>3. CASE ProxyRange(c)
      BY <2>0, <2>1, <2>3 DEF ProxyRange, Follows, Reads, ReaderInv
    <2>4. ASSUME NEW place \in {"proxied", "header", "opened"}, Reads(c, place, Answer(c)),
                 Answer(c) = info[c], Follows(c) \/ rpc[c] = "header"
          PROVE  ReaderInv'
      <3>1. pieces'[c] = {info[c]} /\ pc[c] = "done"
        BY <2>4 DEF Reads, Follows, ReaderInv
      <3> QED BY <2>0, <2>1, <2>4, <3>1 DEF Reads, ReaderInv
    <2>5. ASSUME NEW place \in {"proxied", "header", "opened"}, ReadsChecked(c, place),
                 Follows(c) \/ rpc[c] = "header"
          PROVE  ReaderInv'
      BY <2>2, <2>4, <2>5, CheckedIsListed DEF ReadsChecked
    <2>6. CASE \/ ProxyFileRequest(c) \/ OpenFile(c) \/ RequestHeader(c) \/ RequestPreview(c)
      BY <2>5, <2>6 DEF ProxyFileRequest, OpenFile, RequestHeader, RequestPreview
    <2>7. CASE ReadFails(c)
      BY <2>2, <2>7 DEF ReadFails
    <2> QED BY <1>2, <2>3, <2>6, <2>7 DEF ReadStep
  <1> QED BY <1>1, <1>2 DEF FileNext, allVars

-----------------------------------------------------------------------------

(* Reading files does not disturb the listings: the readers' specification  *)
(* implements the one of the directory cache.                               *)
LEMMA ListingsUnderneath == FileSpec => Spec
  <1>1. FileInit => Init
    BY DEF FileInit
  <1>2. [FileNext]_allVars => [Next]_vars
    BY DEF FileNext, allVars
  <1> QED BY <1>1, <1>2, PTL DEF FileSpec, Spec

(* What handleFile delivers whole, and what openImage stores under a listed *)
(* id, is of the listed version and of no other, also when it is put        *)
(* together from two requests, however old the listing is and whenever the  *)
(* file changes.                                                            *)
THEOREM DeliveredAsListed == FileSpec => []ReadAsListed
  <1>1. FileInit => ReaderInv
    BY DEF FileInit, ReaderInv
  <1>2. ReaderInv => ReadAsListed
    BY DEF ReaderInv, ReadAsListed
  <1>3. Spec => []TypeOK
    BY InitInv, TypeStep, PTL DEF Spec
  <1> QED BY <1>1, <1>2, <1>3, ReaderStep, ListingsUnderneath, PTL DEF FileSpec

(* The promises of the directory cache hold while files are read: one       *)
(* request per directory, listings that never go back, and a change hidden  *)
(* for the TTL at most.                                                     *)
THEOREM ListingsHoldWhileReading ==
    FileSpec => [](NoParallelRequests /\ ReadsMonotone /\ NeverStaleWithoutTTL) /\ StaleForTTL
BY ListingsUnderneath, OneRequestPerDir, ListingsNeverGoBack, NeverStaleWhenDisabled,
   HiddenForTTL, PTL

=============================================================================
