------------------------- MODULE CacheCleanerProofs -------------------------
(***************************************************************************)
(* Proofs about CacheCleaner.  As long as nothing disturbs a round, what    *)
(* Walk has found and what it has still to visit are the files on disk, and *)
(* while the files are removed those on disk are the tail of the sorted     *)
(* list from which the next victim is taken.                                *)
(***************************************************************************)
EXTENDS CacheCleaner, ListProofs

-----------------------------------------------------------------------------
(* After Shutdown *)

(* Shutdown returns without an error only once the goroutine has ended.     *)
EndInv == clock \in 0..MaxEvents /\ (shutdownPc = "ok" => pc = "finished")

LEMMA EndStep ==
    ASSUME EndInv, [Next]_vars
    PROVE  EndInv'
<1> USE CleanerAssumption DEF CleanerAssumption, EndInv, Disturb
<1>1. CASE Cleanup
    <2>0. clock' = clock \/ Disturb
        BY <1>1 DEF Cleanup, ReadRoot, ReadMonth, VisitFile, WalkFails, NotExist,
            GetFilesToRemove, RemoveNext, NextRound, Stop
    <2>1. clock' \in 0..MaxEvents
        BY <2>0
    <2>3. shutdownPc' = shutdownPc
        BY <1>1 DEF Cleanup, ReadRoot, ReadMonth, VisitFile, WalkFails, NotExist,
            GetFilesToRemove, RemoveNext, NextRound, Stop
    <2>2. pc # "finished"
        BY <1>1 DEF Cleanup, ReadRoot, ReadMonth, VisitFile, WalkFails, NotExist,
            GetFilesToRemove, RemoveNext, NextRound, Stop
    <2> QED
        BY <2>1, <2>2, <2>3
<1>2. CASE Tick \/ BeginShutdown \/ ShutdownOk \/ ShutdownExpired
    BY <1>2 DEF Tick, BeginShutdown, ShutdownOk, ShutdownExpired, CleanupFinished
<1>3. CASE \E m \in Months, s \in 1..MaxSize : \E p \in FilesOf[m] : Write(m, p, s)
    BY <1>3 DEF Write
<1>4. CASE \E p \in Paths : RemoveFailed(p)
    BY <1>4 DEF RemoveFailed
<1>5. CASE UNCHANGED vars
    BY <1>5 DEF vars
<1> QED
    BY <1>1, <1>2, <1>3, <1>4, <1>5 DEF Next

(* Only a worker changes the files after a Shutdown without an error, and a *)
(* worker's change is counted by the clock.                                 *)
THEOREM CleanerStops == Spec => QuietAfterShutdown
<1>1. Init => EndInv
    BY CleanerAssumption DEF CleanerAssumption, Init, EndInv
<1>2. ASSUME EndInv, [Next]_vars, shutdownPc = "ok", clock' = clock
      PROVE  UNCHANGED files
    <2> USE <1>2 DEF EndInv, Disturb
    <2>1. CASE Cleanup
        BY <2>1 DEF Cleanup, ReadRoot, ReadMonth, VisitFile, WalkFails, NotExist,
            GetFilesToRemove, RemoveNext, NextRound, Stop
    <2>2. CASE Tick \/ BeginShutdown \/ ShutdownOk \/ ShutdownExpired
        BY <2>2 DEF Tick, BeginShutdown, ShutdownOk, ShutdownExpired
    <2>3. CASE \E m \in Months, s \in 1..MaxSize : \E p \in FilesOf[m] : Write(m, p, s)
        BY <2>3 DEF Write
    <2>4. CASE \E p \in Paths : RemoveFailed(p)
        BY <2>4 DEF RemoveFailed
    <2>5. CASE UNCHANGED vars
        BY <2>5 DEF vars
    <2> QED
        BY <2>1, <2>2, <2>3, <2>4, <2>5, <1>2 DEF Next
<1> QED
    BY <1>1, <1>2, EndStep, PTL DEF Spec, QuietAfterShutdown

-----------------------------------------------------------------------------
(* The oldest files and no more than necessary *)

(* Files are in the directories that have been created.                     *)
FilesInv ==
    /\ clock \in 0..MaxEvents
    /\ made \subseteq Months
    /\ files \in [DOMAIN files -> FileRecords]
    /\ \A p \in DOMAIN files : \E m \in made : p \in FilesOf[m]
    /\ DOMAIN allFiles \subseteq Paths

(* In an undisturbed round Walk has found, as it is, every file that it has *)
(* not still to visit.                                                      *)
WalkInv ==
    quiet /\ pc = "walk" =>
        /\ DOMAIN allFiles \subseteq DOMAIN files
        /\ names \subseteq DOMAIN files
        /\ allFiles = Restrict(files, DOMAIN allFiles)
        /\ \A p \in DOMAIN files :
              p \in DOMAIN allFiles \cup names \/ \E m \in months : p \in FilesOf[m]

(* What the loop of getFilesToRemove leaves after i files of the list s.    *)
Rest(s, i) == Restrict(allFiles, {s[j] : j \in (i + 1)..Len(s)})

(* The first n files of s have to go, and k of them are gone.               *)
Removing(s, n, k) ==
    /\ Sorted(s)
    /\ \A i \in 0..(n - 1) : ~(Total(Rest(s, i)) < maxTotalFileSize)
    /\ victims = SubSeq(s, k + 1, n)
    /\ files = Rest(s, k)

(* In an undisturbed round the files on disk are the rest of the list.      *)
RemoveInv ==
    quiet /\ pc = "remove" =>
        \E s \in SetToSeqs(DOMAIN allFiles) :
            \E n \in 1..Len(s) : \E k \in 0..(n - 1) : Removing(s, n, k)

LEMMA InitialFiles == Init => FilesInv
<1> SUFFICES ASSUME Init
             PROVE  FilesInv
    OBVIOUS
<1>1. PICK P \in SUBSET UNION {FilesOf[m] : m \in made} :
        files \in [P -> [size : 1..MaxSize, modTime : {0}]]
    BY DEF Init
<1>2. DOMAIN files = P /\ files \in [P -> FileRecords]
    BY <1>1, CleanerAssumption DEF CleanerAssumption, FileRecords
<1>3. DOMAIN allFiles = {}
    BY DEF Init, NoFiles
<1> QED
    BY <1>1, <1>2, <1>3, CleanerAssumption DEF CleanerAssumption, Init, FilesInv

(* What a step does to the files: a worker writes one or removes one, which *)
(* disturbs the round, or the cleaner removes the next one of its list.     *)
LEMMA FilesStep ==
    ASSUME FilesInv, [Next]_vars
    PROVE  FilesInv'
<1> USE CleanerAssumption DEF CleanerAssumption, FilesInv, Disturb
<1>1. ASSUME UNCHANGED <<files, made>>, clock' = clock \/ Disturb,
             DOMAIN allFiles' \subseteq Paths
      PROVE  FilesInv'
    BY <1>1
<1>2. CASE ReadRoot
    BY <1>1, <1>2 DEF ReadRoot, NoFiles
<1>3. ASSUME NEW p \in Paths, VisitFile(p)
      PROVE  FilesInv'
    <2>1. DOMAIN allFiles' \subseteq Paths
        BY <1>3 DEF VisitFile
    <2> QED
        BY <1>1, <1>3, <2>1 DEF VisitFile
<1>4. CASE (\E m \in Months : ReadMonth(m)) \/ WalkFails \/ NotExist \/ GetFilesToRemove
    <2>1. UNCHANGED <<files, made, allFiles>> /\ (clock' = clock \/ Disturb)
        BY <1>4 DEF ReadMonth, WalkFails, NotExist, GetFilesToRemove, walkVars
    <2> QED
        BY <1>1, <2>1
<1>5. CASE NextRound \/ Stop \/ Tick \/ BeginShutdown \/ ShutdownOk \/ ShutdownExpired
    <2>1. UNCHANGED <<files, made, allFiles, clock>>
        BY <1>5 DEF NextRound, Stop, Tick, BeginShutdown, ShutdownOk, ShutdownExpired, walkVars
    <2> QED
        BY <1>1, <2>1
<1>6. ASSUME NEW P, files' = Restrict(files, DOMAIN files \ P),
             UNCHANGED <<made, allFiles>>, clock' = clock \/ Disturb
      PROVE  FilesInv'
    BY <1>6 DEF Restrict
<1>7. CASE RemoveNext
    <2>1. UNCHANGED <<made, allFiles>> /\ (clock' = clock \/ Disturb)
        BY <1>7 DEF RemoveNext, walkVars
    <2>2. files' = files \/ files' = Restrict(files, DOMAIN files \ {Head(victims)})
        BY <1>7 DEF RemoveNext
    <2> QED
        BY <1>1, <1>6, <2>1, <2>2
<1>8. ASSUME NEW p \in Paths, RemoveFailed(p)
      PROVE  FilesInv'
    <2>1. UNCHANGED <<made, allFiles>> /\ Disturb
        BY <1>8 DEF RemoveFailed, walkVars
    <2>2. files' = Restrict(files, DOMAIN files \ {p})
        BY <1>8 DEF RemoveFailed
    <2> QED
        BY <1>6, <2>1, <2>2
<1>9. ASSUME NEW m \in Months, NEW s \in 1..MaxSize, NEW p \in FilesOf[m], Write(m, p, s)
      PROVE  FilesInv'
    <2>1. clock' \in 0..MaxEvents /\ clock + 1 \in 0..MaxEvents
        BY <1>9 DEF Write
    <2>2. [size |-> s, modTime |-> clock + 1] \in FileRecords
        BY <2>1 DEF FileRecords
    <2>3. /\ DOMAIN files' = DOMAIN files \cup {p}
          /\ files' \in [DOMAIN files' -> FileRecords]
        BY <1>9, <2>2 DEF Write
    <2>4. made' = made \cup {m} /\ allFiles' = allFiles
        BY <1>9 DEF Write, walkVars
    <2> QED
        BY <2>1, <2>3, <2>4
<1>10. CASE UNCHANGED vars
    BY <1>1, <1>10 DEF vars, walkVars
<1> QED
    BY <1>2, <1>3, <1>4, <1>5, <1>7, <1>8, <1>9, <1>10 DEF Next, Cleanup

LEMMA WalkStep ==
    ASSUME FilesInv, WalkInv, [Next]_vars
    PROVE  WalkInv'
<1> SUFFICES ASSUME quiet', pc' = "walk"
             PROVE  WalkInv'
    BY DEF WalkInv
<1>1. CASE ReadRoot
    <2>1. allFiles' = NoFiles /\ names' = {} /\ months' = made /\ files' = files
        BY <1>1 DEF ReadRoot
    <2>2. DOMAIN NoFiles = {} /\ NoFiles = Restrict(files, {})
        BY DEF NoFiles, Restrict
    <2> QED
        BY <2>1, <2>2 DEF WalkInv, FilesInv
<1>2. ASSUME NEW m \in Months, ReadMonth(m)
      PROVE  WalkInv'
    <2>1. /\ quiet /\ pc = "walk" /\ names = {}
          /\ m \in months /\ months' = months \ {m}
          /\ names' = FilesOf[m] \cap DOMAIN files
          /\ files' = files /\ allFiles' = allFiles
        BY <1>2 DEF ReadMonth
    <2> QED
        BY <2>1 DEF WalkInv
<1>3. ASSUME NEW p \in Paths, VisitFile(p)
      PROVE  WalkInv'
    <2>1. quiet /\ pc = "walk" /\ p \in names /\ p \in DOMAIN files
        BY <1>3 DEF VisitFile, WalkInv
    <2>2. /\ names' = names \ {p} /\ months' = months /\ files' = files
          /\ allFiles' = [q \in DOMAIN allFiles \cup {p} |->
                            IF q = p THEN files[p] ELSE allFiles[q]]
        BY <1>3, <2>1 DEF VisitFile
    <2>3. \A q \in DOMAIN allFiles : allFiles[q] = files[q]
        BY <2>1 DEF WalkInv, Restrict
    <2>4. DOMAIN allFiles' = DOMAIN allFiles \cup {p} /\ allFiles' = Restrict(files, DOMAIN allFiles')
        BY <2>2, <2>3 DEF Restrict
    <2> QED
        BY <2>1, <2>2, <2>4 DEF WalkInv
<1>4. CASE WalkFails \/ NotExist \/ GetFilesToRemove \/ RemoveNext \/ NextRound \/ Stop
    BY <1>4 DEF WalkFails, NotExist, GetFilesToRemove, RemoveNext, NextRound, Stop
<1>5. CASE Tick \/ BeginShutdown \/ ShutdownOk \/ ShutdownExpired \/ UNCHANGED vars
    <2>1. UNCHANGED <<files, pc, months, names, allFiles, quiet>>
        BY <1>5 DEF Tick, BeginShutdown, ShutdownOk, ShutdownExpired, walkVars, vars
    <2> QED
        BY <2>1 DEF WalkInv
<1>6. CASE \E m \in Months, s \in 1..MaxSize : \E p \in FilesOf[m] : Write(m, p, s)
    BY <1>6 DEF Write, Disturb
<1>7. CASE \E p \in Paths : RemoveFailed(p)
    BY <1>7 DEF RemoveFailed, Disturb
<1> QED
    BY <1>1, <1>2, <1>3, <1>4, <1>5, <1>6, <1>7 DEF Next, Cleanup

(* Index is the first place at which the rest is below the limit, or the    *)
(* end of the list: at every place before it the cache is at its limit.     *)
LEMMA IndexProperties ==
    ASSUME NEW s \in Seq(Paths)
    PROVE  /\ Index(s) \in 0..Len(s)
           /\ \A i \in 1..(Index(s) - 1) : ~(Total(Rest(s, i)) < maxTotalFileSize)
<1> DEFINE enough == {i \in 1..Len(s) : Left(s, i) < maxTotalFileSize}
<1>1. \A i : Left(s, i) = Total(Rest(s, i))
    BY DEF Left, SizeOf, Rest
<1>2. Len(s) \in Nat
    OBVIOUS
<1>3. Index(s) = IF enough = {} THEN Len(s) ELSE Min(enough)
    BY DEF Index
<1>4. CASE enough = {}
    BY <1>1, <1>2, <1>3, <1>4
<1>5. CASE enough # {}
    <2>1. enough \in SUBSET Nat
        BY <1>2
    <2>2. Min(enough) \in enough /\ \A y \in enough : Min(enough) <= y
        BY <1>5, <2>1, LeastNumber
    <2>3. Min(enough) \in 1..Len(s)
        BY <2>2
    <2>4. ASSUME NEW i \in 1..(Min(enough) - 1)
          PROVE  ~(Total(Rest(s, i)) < maxTotalFileSize)
        <3>1. i \notin enough
            BY <1>2, <2>2, <2>3
        <3>2. i \in 1..Len(s)
            BY <1>2, <2>3
        <3> QED
            BY <1>1, <3>1, <3>2
    <2> QED
        BY <1>2, <1>3, <1>5, <2>3, <2>4
<1> QED
    BY <1>4, <1>5

(* The choice of getFilesToRemove begins a removal.                         *)
LEMMA RemovalBegins ==
    ASSUME FilesInv, WalkInv, GetFilesToRemove, quiet, pc' = "remove"
    PROVE  RemoveInv'
<1>1. /\ pc = "walk" /\ months = {} /\ names = {}
      /\ victims' \in FilesToRemove /\ victims' # <<>>
      /\ files' = files /\ allFiles' = allFiles
    BY DEF GetFilesToRemove, walkVars
<1>2. DOMAIN allFiles = DOMAIN files /\ allFiles = files
    BY <1>1 DEF WalkInv, FilesInv, Restrict
<1>3. IsFiniteSet(DOMAIN allFiles)
    BY FS_Subset, CleanerAssumption DEF CleanerAssumption, FilesInv
<1>4. ~(SizeOf(DOMAIN allFiles) < maxTotalFileSize)
    BY <1>1 DEF FilesToRemove
<1>5. PICK s \in SetToSeqs(DOMAIN allFiles) : Sorted(s) /\ victims' = SubSeq(s, 1, Index(s))
    BY <1>1, <1>4 DEF FilesToRemove
<1>6. /\ s \in Seq(DOMAIN allFiles)
      /\ DOMAIN allFiles = {s[j] : j \in 1..Len(s)}
    <2> DEFINE S == DOMAIN allFiles
    <2>1. IsFiniteSet(S) /\ s \in SetToSeqs(S)
        BY <1>3, <1>5
    <2> HIDE DEF S
    <2>2. s \in Seq(S) /\ S = {s[j] : j \in 1..Len(s)}
        BY <2>1, Listing
    <2> QED
        BY <2>2 DEF S
<1>7. s \in Seq(Paths)
    BY <1>6 DEF FilesInv
<1>8. PICK n \in 0..Len(s) :
        n = Index(s) /\ \A i \in 1..(n - 1) : ~(Total(Rest(s, i)) < maxTotalFileSize)
    BY <1>7, IndexProperties
<1>9. n \in 1..Len(s)
    <2>1. n # 0
        BY <1>1, <1>5, <1>8, SubSeqEmpty
    <2> QED
        BY <2>1
<1>10. Rest(s, 0) = files /\ Total(Rest(s, 0)) = SizeOf(DOMAIN allFiles)
    <2>1. Rest(s, 0) = Restrict(allFiles, DOMAIN allFiles)
        BY <1>6 DEF Rest
    <2>2. Restrict(allFiles, DOMAIN allFiles) = allFiles
        BY <1>2 DEF FilesInv, Restrict
    <2> QED
        BY <1>2, <2>1, <2>2 DEF SizeOf
<1>11. \A i \in 0..(n - 1) : ~(Total(Rest(s, i)) < maxTotalFileSize)
    BY <1>4, <1>8, <1>10
<1>12. \A i : Rest(s, i)' = Rest(s, i)
    BY <1>1 DEF Rest
<1>13. Sorted(s)'
    BY <1>1, <1>5 DEF Sorted
<1>14. victims' = SubSeq(s, 0 + 1, n)
    BY <1>5, <1>8
<1>15. Removing(s, n, 0)'
    BY <1>1, <1>10, <1>11, <1>12, <1>13, <1>14 DEF Removing
<1>16. s \in SetToSeqs(DOMAIN allFiles)' /\ 0 \in 0..(n - 1)
    BY <1>1, <1>9
<1> QED
    BY <1>9, <1>15, <1>16 DEF RemoveInv

(* The next file of the list is the first of those on disk.                 *)
LEMMA NextVictim ==
    ASSUME FilesInv, NEW s \in SetToSeqs(DOMAIN allFiles),
           NEW n \in 1..Len(s), NEW k \in 0..(n - 1), Removing(s, n, k)
    PROVE  /\ s \in Seq(Paths)
           /\ \A i, j \in 1..Len(s) : i # j => s[i] # s[j]
           /\ Head(victims) = s[k + 1]
           /\ Tail(victims) = SubSeq(s, (k + 1) + 1, n)
           /\ Len(victims) = n - k
           /\ Restrict(files, DOMAIN files \ {Head(victims)}) = Rest(s, k + 1)
<1>1. IsFiniteSet(DOMAIN allFiles)
    BY FS_Subset, CleanerAssumption DEF CleanerAssumption, FilesInv
<1>2. s \in Seq(DOMAIN allFiles) /\ \A i, j \in 1..Len(s) : i # j => s[i] # s[j]
    BY <1>1, Listing
<1>3. s \in Seq(Paths)
    BY <1>2 DEF FilesInv
<1>4. Len(s) \in Nat /\ k + 1 \in 1..Len(s) /\ n \in (k + 1)..Len(s)
    BY <1>3
<1>5. victims = SubSeq(s, k + 1, n) /\ files = Rest(s, k)
    BY DEF Removing
<1>6. Head(victims) = s[k + 1] /\ Tail(victims) = SubSeq(s, (k + 1) + 1, n)
    BY <1>3, <1>4, <1>5, HeadTailOfSubSeq
<1>7. Len(victims) = n - k
    BY <1>3, <1>4, <1>5
<1>8. Restrict(files, DOMAIN files \ {s[k + 1]}) = Rest(s, k + 1)
    <2> DEFINE Tails(i) == {s[j] : j \in (i + 1)..Len(s)}
    <2>1. Tails(k) \ {s[k + 1]} = Tails(k + 1)
        <3>1. \A j \in (k + 1)..Len(s) : j = k + 1 \/ j \in ((k + 1) + 1)..Len(s)
            BY <1>4
        <3>2. \A j \in ((k + 1) + 1)..Len(s) : j \in (k + 1)..Len(s) /\ s[j] # s[k + 1]
            BY <1>2, <1>4
        <3> QED
            BY <3>1, <3>2
    <2>2. DOMAIN files = Tails(k) /\ \A p \in Tails(k) : files[p] = allFiles[p]
        BY <1>5 DEF Rest, Restrict
    <2>3. Rest(s, k + 1) = Restrict(allFiles, Tails(k + 1))
        BY DEF Rest
    <2> HIDE DEF Tails
    <2> QED
        BY <2>1, <2>2, <2>3 DEF Restrict
<1> QED
    BY <1>2, <1>3, <1>6, <1>7, <1>8

LEMMA RemoveStep ==
    ASSUME FilesInv, WalkInv, RemoveInv, [Next]_vars
    PROVE  RemoveInv'
<1> SUFFICES ASSUME quiet', pc' = "remove"
             PROVE  RemoveInv'
    BY DEF RemoveInv
<1>1. CASE GetFilesToRemove
    <2>1. quiet
        BY <1>1 DEF GetFilesToRemove
    <2> QED
        BY <1>1, <2>1, RemovalBegins
<1>2. CASE RemoveNext
    <2>1. /\ quiet /\ pc = "remove"
          /\ files' = Restrict(files, DOMAIN files \ {Head(victims)})
          /\ victims' = Tail(victims) /\ Len(victims) # 1
          /\ allFiles' = allFiles
        BY <1>2 DEF RemoveNext, Disturb, walkVars
    <2>2. PICK s \in SetToSeqs(DOMAIN allFiles) :
            \E n \in 1..Len(s) : \E k \in 0..(n - 1) : Removing(s, n, k)
        BY <2>1 DEF RemoveInv
    <2>n. PICK n \in 1..Len(s) : \E k \in 0..(n - 1) : Removing(s, n, k)
        BY <2>2
    <2>3. PICK k \in 0..(n - 1) : Removing(s, n, k)
        BY <2>n
    <2>4. /\ s \in Seq(Paths)
          /\ Tail(victims) = SubSeq(s, (k + 1) + 1, n)
          /\ Len(victims) = n - k
          /\ Restrict(files, DOMAIN files \ {Head(victims)}) = Rest(s, k + 1)
        BY <2>3, NextVictim
    <2>5. k + 1 \in 0..(n - 1)
        BY <2>1, <2>4
    <2>6. \A i : Rest(s, i)' = Rest(s, i)
        BY <2>1 DEF Rest
    <2>7. Sorted(s)'
        BY <2>1, <2>3 DEF Sorted, Removing
    <2>8. Removing(s, n, k + 1)'
        BY <2>1, <2>3, <2>4, <2>6, <2>7 DEF Removing
    <2>9. s \in SetToSeqs(DOMAIN allFiles)'
        BY <2>1
    <2> QED
        BY <2>5, <2>8, <2>9 DEF RemoveInv
<1>3. CASE ReadRoot \/ WalkFails \/ NotExist \/ NextRound \/ Stop
    BY <1>3 DEF ReadRoot, WalkFails, NotExist, NextRound, Stop
<1>4. CASE (\E m \in Months : ReadMonth(m)) \/ (\E p \in Paths : VisitFile(p))
    BY <1>4 DEF ReadMonth, VisitFile
<1>5. CASE Tick \/ BeginShutdown \/ ShutdownOk \/ ShutdownExpired \/ UNCHANGED vars
    <2>1. UNCHANGED <<files, pc, allFiles, victims, quiet>>
        BY <1>5 DEF Tick, BeginShutdown, ShutdownOk, ShutdownExpired, walkVars, vars
    <2> QED
        BY <2>1 DEF RemoveInv, Removing, Rest, Sorted
<1>6. CASE \E m \in Months, s \in 1..MaxSize : \E p \in FilesOf[m] : Write(m, p, s)
    BY <1>6 DEF Write, Disturb
<1>7. CASE \E p \in Paths : RemoveFailed(p)
    BY <1>7 DEF RemoveFailed, Disturb
<1> QED
    BY <1>1, <1>2, <1>3, <1>4, <1>5, <1>6, <1>7 DEF Next, Cleanup

(* One removal of an undisturbed round.                                     *)
LEMMA RemovalIsRight ==
    ASSUME FilesInv, RemoveInv, RemoveNext, Removed # {}
    PROVE  /\ quiet => ~(Total(files) < maxTotalFileSize)
           /\ quiet' => \A p \in Removed, q \in DOMAIN files' :
                          files[p].modTime <= files[q].modTime
<1>1. /\ pc = "remove" /\ quiet' = quiet
      /\ files' = Restrict(files, DOMAIN files \ {Head(victims)})
    BY DEF RemoveNext, Removed
<1> SUFFICES ASSUME quiet
             PROVE  /\ ~(Total(files) < maxTotalFileSize)
                    /\ \A p \in Removed, q \in DOMAIN files' :
                         files[p].modTime <= files[q].modTime
    BY <1>1
<1>2. PICK s \in SetToSeqs(DOMAIN allFiles) :
        \E n \in 1..Len(s) : \E k \in 0..(n - 1) : Removing(s, n, k)
    BY <1>1 DEF RemoveInv
<1>n. PICK n \in 1..Len(s) : \E k \in 0..(n - 1) : Removing(s, n, k)
    BY <1>2
<1>3. PICK k \in 0..(n - 1) : Removing(s, n, k)
    BY <1>n
<1>4. /\ s \in Seq(Paths)
      /\ Head(victims) = s[k + 1]
      /\ files' = Rest(s, k + 1)
    BY <1>1, <1>3, NextVictim
<1>5. ~(Total(files) < maxTotalFileSize)
    BY <1>3 DEF Removing
<1>6. ASSUME NEW p \in Removed, NEW q \in DOMAIN files'
      PROVE  files[p].modTime <= files[q].modTime
    <2>1. p = s[k + 1] /\ p \in DOMAIN files /\ q \in DOMAIN files
        BY <1>1, <1>4 DEF Removed, Restrict
    <2>2. PICK j \in ((k + 1) + 1)..Len(s) : q = s[j]
        BY <1>4 DEF Rest, Restrict
    <2>3. k + 1 \in DOMAIN s /\ j \in DOMAIN s /\ k + 1 < j
        BY <1>4
    <2>4. allFiles[s[k + 1]].modTime <= allFiles[s[j]].modTime
        BY <1>3, <2>3 DEF Removing, Sorted
    <2>5. files[p] = allFiles[p] /\ files[q] = allFiles[q]
        BY <1>3, <2>1 DEF Removing, Rest, Restrict
    <2> QED
        BY <2>1, <2>2, <2>4, <2>5
<1> QED
    BY <1>5, <1>6

(* A round that nothing disturbs removes a file only while the cache is at  *)
(* its limit, and never one that is newer than a file it leaves.            *)
THEOREM OldestGoFirst == Spec => RemovesOldestExcess
<1> DEFINE Inv == FilesInv /\ WalkInv /\ RemoveInv
<1>1. Init => Inv
    <2> SUFFICES ASSUME Init
                 PROVE  Inv
        OBVIOUS
    <2>1. WalkInv /\ RemoveInv
        BY DEF Init, WalkInv, RemoveInv
    <2> QED
        BY <2>1, InitialFiles
<1>2. Inv /\ [Next]_vars => Inv'
    BY FilesStep, WalkStep, RemoveStep
<1>3. Inv /\ [Next]_vars =>
        [RemoveNext /\ Removed # {} =>
           /\ quiet => ~(Total(files) < maxTotalFileSize)
           /\ quiet' => \A p \in Removed, q \in DOMAIN files' :
                          files[p].modTime <= files[q].modTime]_vars
    BY RemovalIsRight
<1> QED
    BY <1>1, <1>2, <1>3, PTL DEF Spec, RemovesOldestExcess

-----------------------------------------------------------------------------
(* Types *)

VictimInv ==
    /\ victims \in Seq(Paths)
    /\ Len(victims) <= Cardinality(Paths)
    /\ pc = "remove" => victims # <<>>

RestType ==
    /\ allFiles \in [DOMAIN allFiles -> FileRecords]
    /\ months \subseteq made
    /\ pc \in Pcs
    /\ names \subseteq Paths
    /\ ticked \in BOOLEAN /\ stopped \in BOOLEAN /\ quiet \in BOOLEAN
    /\ shutdownPc \in {"none", "waiting", "ok", "expired"}

LEMMA VictimStep ==
    ASSUME FilesInv, VictimInv, [Next]_vars
    PROVE  VictimInv'
<1> USE DEF VictimInv
<1>0. IsFiniteSet(Paths) /\ IsFiniteSet(DOMAIN allFiles)
    BY FS_Subset, CleanerAssumption DEF CleanerAssumption, FilesInv
<1>c. Cardinality(Paths) \in Nat /\ Cardinality(DOMAIN allFiles) <= Cardinality(Paths)
    BY <1>0, FS_Subset, FS_CardinalityType DEF FilesInv
<1>1. CASE GetFilesToRemove
    <2>1. victims' \in FilesToRemove /\ (pc' = "remove" => victims' # <<>>)
        BY <1>1 DEF GetFilesToRemove
    <2>2. CASE victims' = <<>>
        BY <1>c, <2>1, <2>2
    <2>3. CASE victims' # <<>>
        <3>1. PICK s \in SetToSeqs(DOMAIN allFiles) : victims' = SubSeq(s, 1, Index(s))
            BY <2>1, <2>3 DEF FilesToRemove
        <3>2. s \in Seq(DOMAIN allFiles)
            BY <1>0, Listing
        <3>3. Len(s) = Cardinality(DOMAIN allFiles)
            <4>1. s \in [1..Cardinality(DOMAIN allFiles) -> DOMAIN allFiles]
                BY DEF SetToSeqs
            <4>2. Cardinality(DOMAIN allFiles) \in Nat
                BY <1>0, FS_CardinalityType
            <4> QED
                BY <4>1, <4>2, IsASeq
        <3>4. s \in Seq(Paths)
            BY <3>2 DEF FilesInv
        <3>5. Index(s) \in 0..Len(s)
            BY <3>4, IndexProperties
        <3>6. victims' \in Seq(Paths) /\ Len(victims') <= Len(s)
            BY <3>1, <3>4, <3>5
        <3> QED
            BY <1>c, <2>1, <3>3, <3>4, <3>6
    <2> QED
        BY <2>2, <2>3
<1>2. CASE RemoveNext
    <2>1. victims # <<>> /\ victims' = Tail(victims)
        BY <1>2 DEF RemoveNext
    <2>2. victims' \in Seq(Paths) /\ Len(victims') = Len(victims) - 1
        BY <2>1, HeadTailProperties
    <2>3. pc' = "remove" => Len(victims) # 1
        BY <1>2 DEF RemoveNext
    <2>4. Len(victims) \in Nat /\ Len(<<>>) = 0
        OBVIOUS
    <2> QED
        BY <1>c, <2>2, <2>3, <2>4
<1>3. CASE ReadRoot \/ WalkFails \/ NotExist \/ NextRound \/ Stop
    BY <1>3 DEF ReadRoot, WalkFails, NotExist, NextRound, Stop
<1>4. CASE (\E m \in Months : ReadMonth(m)) \/ (\E p \in Paths : VisitFile(p))
    BY <1>4 DEF ReadMonth, VisitFile
<1>5. CASE Tick \/ BeginShutdown \/ ShutdownOk \/ ShutdownExpired \/ UNCHANGED vars
    BY <1>5 DEF Tick, BeginShutdown, ShutdownOk, ShutdownExpired, vars
<1>6. CASE \E m \in Months, s \in 1..MaxSize : \E p \in FilesOf[m] : Write(m, p, s)
    BY <1>6 DEF Write
<1>7. CASE \E p \in Paths : RemoveFailed(p)
    BY <1>7 DEF RemoveFailed
<1> QED
    BY <1>1, <1>2, <1>3, <1>4, <1>5, <1>6, <1>7 DEF Next, Cleanup

LEMMA RestTypeStep ==
    ASSUME FilesInv, RestType, [Next]_vars
    PROVE  RestType'
<1> USE DEF RestType, Pcs
<1>1. CASE ReadRoot
    BY <1>1 DEF ReadRoot, NoFiles
<1>2. ASSUME NEW m \in Months, ReadMonth(m)
      PROVE  RestType'
    BY <1>2 DEF ReadMonth, Paths
<1>3. ASSUME NEW p \in Paths, VisitFile(p)
      PROVE  RestType'
    <2>1. allFiles' \in [DOMAIN allFiles' -> FileRecords]
        BY <1>3 DEF VisitFile, FilesInv
    <2> QED
        BY <1>3, <2>1 DEF VisitFile
<1>4. CASE WalkFails \/ NotExist \/ GetFilesToRemove \/ NextRound \/ Stop \/ Tick
    BY <1>4 DEF WalkFails, NotExist, GetFilesToRemove, NextRound, Stop, Tick, Disturb, walkVars
<1>5. CASE RemoveNext
    BY <1>5 DEF RemoveNext, Disturb, walkVars
<1>6. CASE BeginShutdown \/ ShutdownOk \/ ShutdownExpired \/ UNCHANGED vars
    BY <1>6 DEF BeginShutdown, ShutdownOk, ShutdownExpired, vars, walkVars
<1>7. CASE \E m \in Months, s \in 1..MaxSize : \E p \in FilesOf[m] : Write(m, p, s)
    BY <1>7 DEF Write, Disturb, walkVars
<1>8. CASE \E p \in Paths : RemoveFailed(p)
    BY <1>8 DEF RemoveFailed, Disturb, walkVars
<1> QED
    BY <1>1, <1>2, <1>3, <1>4, <1>5, <1>6, <1>7, <1>8 DEF Next, Cleanup

LEMMA InitialTypes == Init => VictimInv /\ RestType
<1> SUFFICES ASSUME Init
             PROVE  VictimInv /\ RestType
    OBVIOUS
<1>1. VictimInv
    <2>1. Cardinality(Paths) \in Nat
        BY FS_CardinalityType, CleanerAssumption DEF CleanerAssumption
    <2> QED
        BY <2>1 DEF Init, VictimInv
<1>2. RestType
    BY DEF Init, RestType, Pcs, NoFiles
<1> QED
    BY <1>1, <1>2

(* Every variable of the cleaner keeps its type, and the loop of            *)
(* removeFiles never runs on an empty list.                                 *)
THEOREM TypeCorrect == Spec => [](TypeOK /\ VictimInv)
<1>1. FilesInv /\ VictimInv /\ RestType => TypeOK
    <2> SUFFICES ASSUME FilesInv, VictimInv, RestType
                 PROVE  TypeOK
        OBVIOUS
    <2>1. DOMAIN files \in SUBSET Paths /\ DOMAIN allFiles \in SUBSET Paths
        BY DEF FilesInv, Paths
    <2>2. files \in UNION {[P -> FileRecords] : P \in SUBSET Paths}
        BY <2>1 DEF FilesInv
    <2>3. allFiles \in UNION {[P -> FileRecords] : P \in SUBSET Paths}
        BY <2>1 DEF RestType
    <2>4. Len(victims) \in 0..Cardinality(Paths)
        BY FS_CardinalityType, CleanerAssumption DEF CleanerAssumption, VictimInv
    <2>5. victims \in [1..Len(victims) -> Paths]
        BY DEF VictimInv
    <2>6. victims \in UNION {[1..n -> Paths] : n \in 0..Cardinality(Paths)}
        BY <2>4, <2>5
    <2>7. {ticked, stopped, quiet} \subseteq BOOLEAN
        BY Zenon DEF RestType
    <2> QED
        BY <2>2, <2>3, <2>6, <2>7 DEF FilesInv, RestType, TypeOK
<1> QED
    BY <1>1, InitialFiles, InitialTypes, FilesStep, VictimStep, RestTypeStep, PTL DEF Spec

=============================================================================
