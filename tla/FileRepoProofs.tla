--------------------------- MODULE FileRepoProofs ---------------------------
(***************************************************************************)
(* What holds of the file repository for every number of uploads, keys and *)
(* tickets, and whatever the environment may do.                           *)
(***************************************************************************)
EXTENDS FileRepo, TLAPS

Active == {"recv", "next", "done", "stuck"}
Owning == Active \cup {"commit", "discard", "forget", "close"}

\* The tickets of the values that are cached, or being evicted.
Evicted == {e.ticket : e \in evicting \cup removing}
Served == {t \in Ticket : \E k \in Key : fileCache[k] = t}

\* A ticket belongs to one upload, until that has committed it.
Owners ==
  /\ \A u \in Uploader : pc[u] \in Owning => lockCh[u] \in Ticket
  /\ \A u, v \in Uploader :
       pc[u] \in Owning /\ pc[v] \in Owning /\ lockCh[u] = lockCh[v] => u = v
  /\ \A u \in Uploader :
       pc[u] \in Owning \ {"close"} => lockCh[u] \notin Served \cup Evicted

\* A ticket is cached under one key, and no more when it is evicted; nobody
\* writes under it.
Values ==
  /\ \A j, k \in Key : Cached(j) /\ fileCache[j] = fileCache[k] => j = k
  /\ Served \cap Evicted = {}
  /\ \A t \in Served : writer[t] = "none"

\* What an upload knows of its files.
Written ==
  \A u \in Uploader :
    /\ pc[u] \in Active /\ writer[lockCh[u]] = "writing" => files[lockCh[u]] = "partial"
    /\ pc[u] \in Active /\ writer[lockCh[u]] = "stored" => files[lockCh[u]] = "complete"
    /\ pc[u] = "commit" => files[lockCh[u]] = "complete" /\ writer[lockCh[u]] = "none"

UploadInv == TypeOK /\ Owners /\ Values /\ Written /\ ServedComplete

-----------------------------------------------------------------------------
(* Types *)

\* A repository starts with its variables in their types (New).
LEMMA TypeInit == Init => TypeOK
  BY DEF Init, TypeOK, Labels

\* No step takes a variable out of its type.
LEMMA TypeStep == TypeOK /\ [Next]_vars => TypeOK'
<1> SUFFICES ASSUME TypeOK, [Next]_vars
             PROVE  TypeOK'
  OBVIOUS
<1> USE FileRepoAssumption DEF TypeOK, Labels, Goto, cacheVars, writerVars, uploadVars
<1>1. ASSUME NEW u \in Uploader, NEW k \in Key, Start(u, k) PROVE TypeOK'
  BY <1>1 DEF Start
<1>2. ASSUME NEW u \in Uploader, StoreLock(u) PROVE TypeOK'
  BY <1>2 DEF StoreLock
<1>3. ASSUME NEW u \in Uploader, Woken(u) PROVE TypeOK'
  BY <1>3 DEF Woken, Return
<1>4. ASSUME NEW u \in Uploader, Timeout(u) PROVE TypeOK'
  BY <1>4 DEF Timeout
<1>5. ASSUME NEW u \in Uploader, Retry(u) PROVE TypeOK'
  BY <1>5 DEF Retry, RemoveStoreLock
<1>6. ASSUME NEW u \in Uploader, FirstFile(u) PROVE TypeOK'
  BY <1>6 DEF FirstFile
<1>7. ASSUME NEW u \in Uploader, Chunk(u) PROVE TypeOK'
  BY <1>7 DEF Chunk
<1>8. ASSUME NEW u \in Uploader, NextFile(u) \/ Done(u) PROVE TypeOK'
  BY <1>8 DEF NextFile, Done, FileSent
<1>9. ASSUME NEW u \in Uploader, FileStored(u) PROVE TypeOK'
  BY <1>9 DEF FileStored, WriterGone
<1>10. ASSUME NEW u \in Uploader, Break(u) PROVE TypeOK'
  BY <1>10 DEF Break, WriterGone
<1>11. ASSUME NEW u \in Uploader, Commit(u) PROVE TypeOK'
  BY <1>11 DEF Commit, Drop, Eviction
<1>12. ASSUME NEW u \in Uploader, Discard(u) PROVE TypeOK'
  BY <1>12 DEF Discard
<1>13. ASSUME NEW u \in Uploader, Forget(u) PROVE TypeOK'
  BY <1>13 DEF Forget, RemoveStoreLock
<1>14. ASSUME NEW u \in Uploader, Close(u) PROVE TypeOK'
  BY <1>14 DEF Close, Return
<1>15. ASSUME NEW t \in Ticket, StoreDeleteLRU(t) PROVE TypeOK'
  BY <1>15 DEF StoreDeleteLRU, Drop, Eviction
<1>16. ASSUME NEW t \in Ticket, StoreCreate(t) PROVE TypeOK'
  BY <1>16 DEF StoreCreate
<1>17. ASSUME NEW t \in Ticket, StoreDone(t) PROVE TypeOK'
  BY <1>17 DEF StoreDone, WriterEnds, WriterGone
<1>18. ASSUME NEW t \in Ticket, StoreFails(t) PROVE TypeOK'
  BY <1>18 DEF StoreFails
<1>19. ASSUME NEW t \in Ticket, StoreDelete(t) PROVE TypeOK'
  BY <1>19 DEF StoreDelete, Drop, Eviction
<1>20. ASSUME NEW t \in Ticket, StoreFailed(t) PROVE TypeOK'
  BY <1>20 DEF StoreFailed, WriterEnds, WriterGone
<1>21. ASSUME NEW e \in Eviction, HandlerLock(e) PROVE TypeOK'
  BY <1>21 DEF HandlerLock, EvictLock
<1>22. ASSUME NEW e \in Eviction, HandlerRemove(e) PROVE TypeOK'
  BY <1>22 DEF HandlerRemove, Eviction
<1>23. ASSUME NEW k \in Key, Expire(k) PROVE TypeOK'
  BY <1>23 DEF Expire, Drop, Eviction
<1>24. CASE UNCHANGED vars
  BY <1>24 DEF vars
<1> QED
  BY <1>1, <1>2, <1>3, <1>4, <1>5, <1>6, <1>7, <1>8, <1>9, <1>10,
     <1>11, <1>12, <1>13, <1>14, <1>15, <1>16, <1>17, <1>18, <1>19, <1>20,
     <1>21, <1>22, <1>23, <1>24
  DEF Next, UploadStep, WriterStep

\* TypeOK holds in every state of the file repository (app/filerepo/repo.go).
THEOREM TypeCorrect == Spec => []TypeOK
<1>1. Init => TypeOK
  BY TypeInit
<1>2. TypeOK /\ [Next]_vars => TypeOK'
  BY TypeStep
<1> QED
  BY <1>1, <1>2, PTL DEF Spec

-----------------------------------------------------------------------------
(* What is served is complete *)

\* A repository starts with nothing cached and nobody uploading (New).
LEMMA UploadInit == Init => UploadInv
  BY TypeInit
  DEF Init, UploadInv, Owners, Values, Written, ServedComplete, Active, Owning, Evicted, Served,
      Cached

\* Values that are removed from the cache go from the served to the evicted.
LEMMA DropValues ==
  ASSUME TypeOK, Values, NEW S, NEW by \in Ticket \cup {None},
         Drop(S, fileCache, by), UNCHANGED removing
  PROVE  /\ \A j, k \in Key : fileCache'[j] # None /\ fileCache'[j] = fileCache'[k] => j = k
         /\ Served' \subseteq Served
         /\ Evicted' \subseteq Evicted \cup Served
         /\ Served' \cap Evicted' = {}
<1> USE DEF TypeOK, Values, Cached, Drop
<1>1. \A k \in Key : fileCache'[k] = IF k \in S THEN None ELSE fileCache[k]
  OBVIOUS
<1>2. Served' \subseteq Served /\ \A t \in Served' : \E k \in Key \ S : fileCache[k] = t
  BY <1>1, FileRepoAssumption DEF Served
<1>3. \A e \in evicting' \ evicting :
         e.ticket \in Ticket /\ \E k \in S \cap Key : fileCache[k] = e.ticket
  BY DEF Eviction
<1>4. Evicted' \subseteq Evicted \cup Served
  BY <1>3 DEF Evicted, Served
<1>5. Served' \cap Evicted' = {}
  <2> SUFFICES ASSUME NEW t \in Served', t \in Evicted'
               PROVE  FALSE
    OBVIOUS
  <2>1. PICK k \in Key \ S : fileCache[k] = t
    BY <1>2
  <2>2. PICK e \in evicting' \ evicting : e.ticket = t
    BY <1>2 DEF Evicted
  <2>3. PICK j \in S \cap Key : fileCache[j] = t
    BY <1>3, <2>2
  <2> QED
    BY <2>1, <2>3, FileRepoAssumption DEF Served
<1> QED
  BY <1>1, <1>2, <1>4, <1>5

\* So nothing is cached twice, or both served and evicted, afterwards.
LEMMA DropKeepsValues ==
  ASSUME TypeOK, TypeOK', Values, NEW S, NEW by \in Ticket \cup {None},
         Drop(S, fileCache, by), UNCHANGED removing,
         \A t \in Ticket : writer[t] = "none" => writer'[t] = "none"
  PROVE  Values'
<1>1. \A j, k \in Key : fileCache'[j] # None /\ fileCache'[j] = fileCache'[k] => j = k
  BY DropValues
<1>2. Served' \cap Evicted' = {}
  BY DropValues
<1>3. \A t \in Served' : writer'[t] = "none"
  <2>1. Served' \subseteq Served /\ Served \subseteq Ticket
    BY DropValues DEF Served
  <2> QED
    BY <2>1 DEF Values
<1> QED
  BY <1>1, <1>2, <1>3 DEF Values, Cached

\* No step breaks what is known of the uploads and values.
LEMMA UploadStepInv == UploadInv /\ [Next]_vars => UploadInv'
<1> SUFFICES ASSUME UploadInv, [Next]_vars
             PROVE  UploadInv'
  OBVIOUS
<1>0. TypeOK /\ TypeOK'
  BY TypeStep DEF UploadInv
<1>lru. ASSUME NEW t \in Ticket, StoreDeleteLRU(t) PROVE Values'
  <2>1. PICK k \in Key : Drop({k}, fileCache, t)
    BY <1>lru DEF StoreDeleteLRU
  <2>2. UNCHANGED <<removing, writer>>
    BY <1>lru DEF StoreDeleteLRU, writerVars
  <2> QED
    BY <1>0, <2>1, <2>2, DropKeepsValues DEF UploadInv
<1>del. ASSUME NEW t \in Ticket, StoreDelete(t) PROVE Values'
  <2>1. removing' = removing /\ writer' = [writer EXCEPT ![t] = "deleted"] /\ writer[t] = "failing"
    BY <1>del DEF StoreDelete
  <2>2. \A s \in Ticket : writer[s] = "none" => writer'[s] = "none"
    BY <1>0, <2>1 DEF TypeOK
  <2>3. CASE Drop({wkey[t]}, fileCache, t)
    BY <1>0, <2>1, <2>2, <2>3, DropKeepsValues DEF UploadInv
  <2>4. CASE UNCHANGED <<fileCache, evicting>>
    BY <1>0, <2>1, <2>2, <2>4 DEF UploadInv, Values, Served, Evicted, Cached
  <2> QED
    BY <1>del, <2>3, <2>4 DEF StoreDelete
<1>exp. ASSUME NEW k \in Key, Expire(k) PROVE Values'
  <2>1. Drop({k}, fileCache, None) /\ UNCHANGED <<removing, writer>>
    BY <1>exp DEF Expire, writerVars
  <2> QED
    BY <1>0, <2>1, DropKeepsValues DEF UploadInv
<1> USE FileRepoAssumption
    DEF UploadInv, Owners, Values, Written, ServedComplete, Active, Owning, Evicted, Served,
        TypeOK, Labels, Goto, Cached, Eviction, cacheVars, writerVars, uploadVars
<1>1. ASSUME NEW u \in Uploader, NEW k \in Key, Start(u, k) PROVE UploadInv'
  BY <1>0, <1>1 DEF Start
<1>2. ASSUME NEW u \in Uploader, StoreLock(u) PROVE UploadInv'
  <2>1. CASE storeLocks[upkey[u]] = None
    <3>1. PICK t \in Ticket :
            /\ Fresh(t) /\ pc' = [pc EXCEPT ![u] = "recv"]
            /\ lockCh' = [lockCh EXCEPT ![u] = t]
            /\ files' = [files EXCEPT ![t] = "none"]
      BY <1>2, <2>1 DEF StoreLock
    <3>2. UNCHANGED <<cacheVars, writerVars, upkey>>
      BY <1>2 DEF StoreLock
    <3>3. Owners'
      BY <1>0, <3>1, <3>2 DEF Fresh
    <3>4. Values'
      BY <1>0, <3>1, <3>2
    <3>5. Written' /\ ServedComplete'
      BY <1>0, <3>1, <3>2 DEF Fresh
    <3> QED
      BY <1>0, <3>3, <3>4, <3>5
  <2>2. CASE storeLocks[upkey[u]] # None
    BY <1>0, <1>2, <2>2 DEF StoreLock
  <2> QED
    BY <2>1, <2>2
<1>3. ASSUME NEW u \in Uploader, Woken(u) PROVE UploadInv'
  BY <1>0, <1>3 DEF Woken, Return
<1>4. ASSUME NEW u \in Uploader, Timeout(u) PROVE UploadInv'
  BY <1>0, <1>4 DEF Timeout
<1>5. ASSUME NEW u \in Uploader, Retry(u) PROVE UploadInv'
  BY <1>0, <1>5 DEF Retry, RemoveStoreLock
<1>6. ASSUME NEW u \in Uploader, FirstFile(u) PROVE UploadInv'
  BY <1>0, <1>6 DEF FirstFile
<1>7. ASSUME NEW u \in Uploader, Chunk(u) PROVE UploadInv'
  BY <1>0, <1>7 DEF Chunk
<1>8. ASSUME NEW u \in Uploader, NextFile(u) \/ Done(u) PROVE UploadInv'
  BY <1>0, <1>8 DEF NextFile, Done, FileSent
<1>9. ASSUME NEW u \in Uploader, FileStored(u) PROVE UploadInv'
  BY <1>0, <1>9 DEF FileStored, WriterGone, FileOk
<1>10. ASSUME NEW u \in Uploader, Break(u) PROVE UploadInv'
  BY <1>0, <1>10 DEF Break, WriterGone
<1>11. ASSUME NEW u \in Uploader, Commit(u) PROVE UploadInv'
  BY <1>0, <1>11 DEF Commit, Drop
<1>12. ASSUME NEW u \in Uploader, Discard(u) PROVE UploadInv'
  BY <1>0, <1>12 DEF Discard
<1>13. ASSUME NEW u \in Uploader, Forget(u) PROVE UploadInv'
  BY <1>0, <1>13 DEF Forget, RemoveStoreLock
<1>14. ASSUME NEW u \in Uploader, Close(u) PROVE UploadInv'
  BY <1>0, <1>14 DEF Close, Return
<1>15. ASSUME NEW t \in Ticket, StoreDeleteLRU(t) PROVE UploadInv'
  <2>1. Values'
    BY <1>15, <1>lru
  <2>2. Owners'
    BY <1>0, <1>15 DEF StoreDeleteLRU, Drop
  <2>3. Written'
    BY <1>0, <1>15 DEF StoreDeleteLRU, Drop
  <2>4. ServedComplete'
    BY <1>0, <1>15 DEF StoreDeleteLRU, Drop
  <2> QED
    BY <1>0, <2>1, <2>2, <2>3, <2>4
<1>16. ASSUME NEW t \in Ticket, StoreCreate(t) PROVE UploadInv'
  BY <1>0, <1>16 DEF StoreCreate
<1>17. ASSUME NEW t \in Ticket, StoreDone(t) PROVE UploadInv'
  BY <1>0, <1>17 DEF StoreDone, WriterEnds, WriterGone, Awaited
<1>18. ASSUME NEW t \in Ticket, StoreFails(t) PROVE UploadInv'
  BY <1>0, <1>18 DEF StoreFails
<1>19. ASSUME NEW t \in Ticket, StoreDelete(t) PROVE UploadInv'
  <2>1. Values'
    BY <1>19, <1>del
  <2>2. Owners'
    BY <1>0, <1>19 DEF StoreDelete, Drop
  <2>3. Written'
    BY <1>0, <1>19 DEF StoreDelete, Drop
  <2>4. ServedComplete'
    BY <1>0, <1>19 DEF StoreDelete, Drop
  <2> QED
    BY <1>0, <2>1, <2>2, <2>3, <2>4
<1>20. ASSUME NEW t \in Ticket, StoreFailed(t) PROVE UploadInv'
  BY <1>0, <1>20 DEF StoreFailed, WriterEnds, WriterGone, Awaited
<1>21. ASSUME NEW e \in Eviction, HandlerLock(e) PROVE UploadInv'
  BY <1>0, <1>21 DEF HandlerLock, EvictLock
<1>22. ASSUME NEW e \in Eviction, HandlerRemove(e) PROVE UploadInv'
  BY <1>0, <1>22 DEF HandlerRemove
<1>23. ASSUME NEW k \in Key, Expire(k) PROVE UploadInv'
  <2>1. Values'
    BY <1>23, <1>exp
  <2>2. Owners'
    BY <1>0, <1>23 DEF Expire, Drop
  <2>3. Written'
    BY <1>0, <1>23 DEF Expire, Drop
  <2>4. ServedComplete'
    BY <1>0, <1>23 DEF Expire, Drop
  <2> QED
    BY <1>0, <2>1, <2>2, <2>3, <2>4
<1>24. CASE UNCHANGED vars
  BY <1>0, <1>24 DEF vars
<1> QED
  BY <1>1, <1>2, <1>3, <1>4, <1>5, <1>6, <1>7, <1>8, <1>9, <1>10,
     <1>11, <1>12, <1>13, <1>14, <1>15, <1>16, <1>17, <1>18, <1>19, <1>20,
     <1>21, <1>22, <1>23, <1>24
  DEF Next, UploadStep, WriterStep

\* A key that is in the cache leads to files that were stored completely and
\* are still on disk: Get never serves an upload that is not over, failed or
\* was evicted (StoreUnlock, store and onValueEvictedHandler).
THEOREM ServedIsComplete == Spec => []ServedComplete
<1>1. Init => UploadInv
  BY UploadInit
<1>2. UploadInv /\ [Next]_vars => UploadInv'
  BY UploadStepInv
<1>3. UploadInv => ServedComplete
  BY DEF UploadInv
<1> QED
  BY <1>1, <1>2, <1>3, PTL DEF Spec

-----------------------------------------------------------------------------
(* Nothing is left on disk, and no lock *)

\* The upload that stores files under t, or has still to discard them.
Works(u, t) == lockCh[u] = t /\ pc[u] \in Active \cup {"commit", "discard"}

\* Files, and goroutines that write them, have an upload that is to commit or
\* discard them, or lost it before it could.
Kept ==
  /\ \A t \in Ticket : files[t] # "none" =>
       t \in Served \cup Evicted \cup orphans \/ \E u \in Uploader : Works(u, t)
  /\ \A t \in Ticket : writer[t] # "none" =>
       t \in orphans \/ \E u \in Uploader : Works(u, t)

\* The lock of a key leads to an upload of that key that is not over, to the
\* value that it committed, or is about to be deleted with an evicted value.
Locks ==
  /\ \A u \in Uploader : pc[u] \in Owning => lockCh[u] \notin closed
  /\ \A k \in Key : storeLocks[k] # None =>
       \/ fileCache[k] = storeLocks[k]
       \/ \E e \in evicting : e.key = k
       \/ \E u \in Uploader :
            lockCh[u] = storeLocks[k] /\ upkey[u] = k /\ pc[u] \in Owning \ {"close"}

\* What is removed from the cache c is being evicted afterwards.
LEMMA DropEvicts ==
  ASSUME TypeOK, NEW S, NEW c \in [Key -> Ticket \cup {None}], NEW by \in Ticket \cup {None},
         Drop(S, c, by), UNCHANGED removing
  PROVE  /\ \A k \in Key : \/ fileCache'[k] = c[k]
                           \/ c[k] = None
                           \/ \E e \in evicting' : e.key = k /\ e.ticket = c[k]
         /\ evicting \subseteq evicting'
         /\ \A t \in Ticket : t \in Evicted \/ (\E k \in Key : c[k] = t) => t \in Served' \cup Evicted'
<1>1. ASSUME NEW k \in Key, k \in S, c[k] # None
      PROVE  \E e \in evicting' : e.key = k /\ e.ticket = c[k]
  <2> DEFINE e == [key |-> k, ticket |-> c[k], by |-> by]
  <2>1. e \in Eviction
    BY <1>1 DEF Eviction
  <2>2. e \in evicting'
    BY <1>1, <2>1 DEF Drop
  <2> QED
    BY <2>2
<1>2. \A k \in Key : k \notin S => fileCache'[k] = c[k]
  BY DEF Drop
<1>3. evicting \subseteq evicting'
  BY DEF Drop
<1>4. \A t \in Ticket : t \in Evicted => t \in Evicted'
  BY <1>3 DEF Evicted
<1>5. ASSUME NEW t \in Ticket, NEW k \in Key, c[k] = t PROVE t \in Served' \cup Evicted'
  <2>1. CASE k \in S
    BY <1>1, <1>5, <2>1, FileRepoAssumption DEF Evicted
  <2>2. CASE k \notin S
    BY <1>2, <1>5, <2>2 DEF Served
  <2> QED
    BY <2>1, <2>2
<1> QED
  BY <1>1, <1>2, <1>3, <1>4, <1>5

\* Files and writers that appear have an upload, and nobody who works is lost
\* with them.
LEMMA SameKept ==
  ASSUME Kept, \A t \in Ticket : t \in Served \cup Evicted => t \in Served' \cup Evicted',
         \A t \in Ticket : files'[t] # "none" => files[t] # "none" \/ writer[t] # "none",
         \A t \in Ticket : writer'[t] # "none" =>
           writer[t] # "none" \/ \E u \in Uploader : Works(u, t)',
         orphans' = orphans,
         \A u \in Uploader, t \in Ticket : Works(u, t) => Works(u, t)'
  PROVE  Kept'
<1>1. ASSUME NEW t \in Ticket, writer[t] # "none"
      PROVE  t \in orphans' \/ \E u \in Uploader : Works(u, t)'
  BY <1>1 DEF Kept
<1>2. ASSUME NEW t \in Ticket, files[t] # "none"
      PROVE  t \in Served' \cup Evicted' \cup orphans' \/ \E u \in Uploader : Works(u, t)'
  BY <1>2 DEF Kept
<1> QED
  BY <1>1, <1>2 DEF Kept

LEMMA KeptStep == UploadInv /\ Kept /\ [Next]_vars => Kept'
<1> SUFFICES ASSUME UploadInv, Kept, [Next]_vars PROVE Kept'
  OBVIOUS
<1>0. TypeOK /\ Owners /\ Written
  BY DEF UploadInv
<1> USE DEF cacheVars, writerVars, uploadVars
\* Nothing happens to files and values.
<1>s. ASSUME UNCHANGED <<fileCache, evicting, removing, files, orphans>>,
             \A t \in Ticket : writer'[t] # "none" =>
               writer[t] # "none" \/ \E u \in Uploader : Works(u, t)',
             \A u \in Uploader, t \in Ticket : Works(u, t) => Works(u, t)'
      PROVE  Kept'
  <2>1. \A t \in Ticket : t \in Served \cup Evicted => t \in Served' \cup Evicted'
    BY <1>s DEF Served, Evicted
  <2> QED
    BY <1>s, <2>1, SameKept
\* An upload moves on, and has a ticket until it has committed or discarded.
<1>g. ASSUME NEW u \in Uploader, NEW label, Goto(u, label), UNCHANGED <<cacheVars, files, orphans>>,
             \A v \in Uploader : v # u => lockCh'[v] = lockCh[v],
             pc[u] \in Active \cup {"commit", "discard"} =>
               label \in Active \cup {"commit", "discard"} /\ lockCh'[u] = lockCh[u],
             \A t \in Ticket : writer'[t] # "none" => writer[t] # "none"
      PROVE  Kept'
  <2>1. pc'[u] = label /\ \A v \in Uploader : v # u => pc'[v] = pc[v]
    BY <1>0, <1>g DEF Goto, TypeOK
  <2>2. \A v \in Uploader, t \in Ticket : Works(v, t) => Works(v, t)'
    BY <1>g, <2>1 DEF Works
  <2> QED
    BY <1>g, <1>s, <2>2
<1>d. ASSUME NEW S, NEW by \in Ticket \cup {None}, Drop(S, fileCache, by), UNCHANGED removing,
             UNCHANGED <<files, orphans, uploadVars>>,
             \A t \in Ticket : writer'[t] # "none" => writer[t] # "none"
      PROVE  Kept'
  <2>1. \A t \in Ticket : t \in Served \cup Evicted => t \in Served' \cup Evicted'
    BY <1>0, <1>d, DropEvicts DEF TypeOK, Served
  <2>2. \A u \in Uploader, t \in Ticket : Works(u, t) => Works(u, t)'
    BY <1>d DEF Works
  <2> QED
    BY <1>d, <2>1, <2>2, SameKept
<1>1. ASSUME NEW u \in Uploader, NEW k \in Key, Start(u, k) PROVE Kept'
  BY <1>1, <1>g DEF Start, Active
<1>2. ASSUME NEW u \in Uploader, StoreLock(u) PROVE Kept'
  <2>1. CASE storeLocks[upkey[u]] = None
    <3>1. PICK n \in Ticket :
            /\ Fresh(n) /\ Goto(u, "recv")
            /\ lockCh' = [lockCh EXCEPT ![u] = n]
            /\ files' = [files EXCEPT ![n] = "none"]
            /\ orphans' = orphans \ {n}
      BY <1>2, <2>1 DEF StoreLock
    <3>2. UNCHANGED <<cacheVars, writerVars, upkey>> /\ pc[u] = "lock"
      BY <1>2 DEF StoreLock
    <3>3. /\ pc'[u] = "recv" /\ lockCh'[u] = n /\ files'[n] = "none"
          /\ \A v \in Uploader : v # u => pc'[v] = pc[v] /\ lockCh'[v] = lockCh[v]
          /\ \A t \in Ticket : t # n => files'[t] = files[t]
      BY <1>0, <3>1 DEF Goto, TypeOK
    <3>4. \A v \in Uploader, t \in Ticket : Works(v, t) => Works(v, t)'
      BY <3>2, <3>3 DEF Works, Active
    <3>5. Served' = Served /\ Evicted' = Evicted /\ writer[n] = "none"
      BY <3>1, <3>2 DEF Served, Evicted, Fresh
    <3> QED
      BY <3>1, <3>2, <3>3, <3>4, <3>5 DEF Kept
  <2>2. CASE storeLocks[upkey[u]] # None
    <3>1. pc[u] = "lock" /\ Goto(u, "wait") /\ UNCHANGED <<cacheVars, writerVars, files, orphans>>
          /\ lockCh' = [lockCh EXCEPT ![u] = storeLocks[upkey[u]]]
      BY <1>2, <2>2 DEF StoreLock
    <3>2. \A v \in Uploader : v # u => lockCh'[v] = lockCh[v]
      BY <1>0, <3>1 DEF TypeOK
    <3> QED
      BY <1>g, <3>1, <3>2 DEF Active
  <2> QED
    BY <2>1, <2>2
<1>r. ASSUME NEW u \in Uploader, Return(u), pc[u] \in {"wait", "close"},
             UNCHANGED <<cacheVars, writerVars, files, orphans>>
      PROVE  Kept'
  <2>1. \A v \in Uploader : v # u => lockCh'[v] = lockCh[v]
    BY <1>0, <1>r DEF Return, TypeOK
  <2> QED
    BY <1>g, <1>r, <2>1 DEF Return, Active
<1>3. ASSUME NEW u \in Uploader, Woken(u) PROVE Kept'
  <2>1. CASE Cached(upkey[u])
    BY <1>3, <1>r, <2>1 DEF Woken
  <2>2. CASE ~Cached(upkey[u])
    BY <1>3, <1>g, <2>2 DEF Woken, Active
  <2> QED
    BY <2>1, <2>2
<1>4. ASSUME NEW u \in Uploader, Timeout(u) PROVE Kept'
  BY <1>4, <1>g DEF Timeout, Active
<1>5. ASSUME NEW u \in Uploader, Retry(u) PROVE Kept'
  <2>1. \A v \in Uploader : v # u => lockCh'[v] = lockCh[v]
    BY <1>0, <1>5 DEF Retry, TypeOK
  <2> QED
    BY <1>5, <1>g, <2>1 DEF Retry, Active
<1>6. ASSUME NEW u \in Uploader, FirstFile(u) PROVE Kept'
  <2>1. /\ pc[u] = "recv" /\ writer' = [writer EXCEPT ![lockCh[u]] = "new"]
        /\ UNCHANGED <<cacheVars, files, orphans, uploadVars>>
    BY <1>6 DEF FirstFile
  <2>2. \A v \in Uploader, t \in Ticket : Works(v, t)' <=> Works(v, t)
    BY <2>1 DEF Works
  <2>3. \A t \in Ticket : t # lockCh[u] => writer'[t] = writer[t]
    BY <1>0, <2>1 DEF TypeOK
  <2>4. \A t \in Ticket : t = lockCh[u] => Works(u, t)
    BY <2>1 DEF Works, Active
  <2> QED
    BY <1>s, <2>1, <2>2, <2>3, <2>4
<1>7. ASSUME NEW u \in Uploader, Chunk(u) PROVE Kept'
  <2>1. /\ pc[u] = "recv" /\ UNCHANGED <<cacheVars, files, orphans, writer, lockCh>>
        /\ Goto(u, "stuck") \/ UNCHANGED pc
    BY <1>7 DEF Chunk
  <2>2. CASE UNCHANGED pc
    BY <1>s, <2>1, <2>2 DEF Works
  <2> QED
    BY <1>g, <2>1, <2>2 DEF Active
<1>8. ASSUME NEW u \in Uploader, NextFile(u) \/ Done(u) PROVE Kept'
  BY <1>8, <1>g DEF NextFile, Done, FileSent, Active
<1>9. ASSUME NEW u \in Uploader, FileStored(u) PROVE Kept'
  <2>1. PICK label \in {"recv", "commit", "discard"} : Goto(u, label)
    BY <1>9 DEF FileStored
  <2>2. /\ pc[u] \in {"next", "done"} /\ writer[lockCh[u]] # "none"
        /\ UNCHANGED <<cacheVars, files, orphans, lockCh>>
    BY <1>9 DEF FileStored
  <2>3. \A t \in Ticket : writer'[t] # "none" => writer[t] # "none"
    BY <1>0, <1>9, <2>2 DEF FileStored, WriterGone, TypeOK
  <2> QED
    BY <1>g, <2>1, <2>2, <2>3 DEF Active
<1>10. ASSUME NEW u \in Uploader, Break(u) PROVE Kept'
  <2>1. pc[u] = "recv" /\ Goto(u, "discard") /\ UNCHANGED <<cacheVars, files, orphans, lockCh>>
    BY <1>10 DEF Break
  <2>2. \A t \in Ticket : writer'[t] # "none" => writer[t] # "none"
    BY <1>0, <1>10 DEF Break, WriterGone, TypeOK
  <2> QED
    BY <1>g, <2>1, <2>2 DEF Active
<1>11. ASSUME NEW u \in Uploader, Commit(u) PROVE Kept'
  <2>1. /\ pc[u] = "commit" /\ upkey[u] \in Key /\ lockCh[u] \in Ticket
        /\ UNCHANGED <<removing, files, orphans, writerVars, lockCh>>
    BY <1>0, <1>11 DEF Commit, Owners, Owning, TypeOK
  <2>2. CASE Cached(upkey[u])
    <3>1. Goto(u, "discard") /\ UNCHANGED <<fileCache, evicting>>
      BY <1>11, <2>2 DEF Commit
    <3> QED
      BY <1>g, <2>1, <3>1
  <2>3. CASE ~Cached(upkey[u])
    <3>1. PICK c \in [Key -> Ticket \cup {None}] : c = [fileCache EXCEPT ![upkey[u]] = lockCh[u]]
      BY <1>0, <2>1 DEF TypeOK
    <3>2. Goto(u, "close") /\ \E S \in SUBSET Key : Drop(S, c, lockCh[u])
      BY <1>11, <2>3, <3>1 DEF Commit
    <3>3. PICK S \in SUBSET Key : Drop(S, c, lockCh[u])
      BY <3>2
    <3>4. \A t \in Ticket : t \in Served => \E k \in Key : c[k] = t
      BY <1>0, <2>1, <2>3, <3>1, FileRepoAssumption DEF Served, Cached, TypeOK
    <3>5. \E k \in Key : c[k] = lockCh[u]
      BY <1>0, <2>1, <3>1 DEF TypeOK
    <3>6. \A t \in Ticket : t \in Served \cup Evicted \cup {lockCh[u]} => t \in Served' \cup Evicted'
      BY <1>0, <2>1, <3>3, <3>4, <3>5, DropEvicts
    <3>7. \A v \in Uploader, t \in Ticket : v # u /\ Works(v, t) => Works(v, t)'
      BY <1>0, <2>1, <3>2 DEF Works, Goto, TypeOK
    <3>8. \A t \in Ticket : writer'[t] # "none" => writer[t] # "none" /\ t # lockCh[u]
      BY <1>0, <2>1 DEF Written
    <3> QED
      BY <2>1, <3>6, <3>7, <3>8 DEF Kept, Works
  <2> QED
    BY <2>2, <2>3
<1>12. ASSUME NEW u \in Uploader, Discard(u) PROVE Kept'
  <2>1. /\ pc[u] = "discard" /\ Goto(u, "forget") /\ files' = [files EXCEPT ![lockCh[u]] = "none"]
        /\ orphans' = IF writer[lockCh[u]] = "none" THEN orphans ELSE orphans \cup {lockCh[u]}
        /\ UNCHANGED <<cacheVars, writerVars, lockCh>>
    BY <1>12 DEF Discard
  <2>2. \A v \in Uploader, t \in Ticket : v # u /\ Works(v, t) => Works(v, t)'
    BY <1>0, <2>1 DEF Works, Goto, TypeOK
  <2>3. \A t \in Ticket : files'[t] = IF t = lockCh[u] THEN "none" ELSE files[t]
    BY <1>0, <2>1 DEF TypeOK
  <2>4. Served' = Served /\ Evicted' = Evicted
    BY <2>1 DEF Served, Evicted
  <2> QED
    BY <2>1, <2>2, <2>3, <2>4 DEF Kept, Works
<1>13. ASSUME NEW u \in Uploader, Forget(u) PROVE Kept'
  BY <1>13, <1>g DEF Forget, Active
<1>14. ASSUME NEW u \in Uploader, Close(u) PROVE Kept'
  BY <1>14, <1>r DEF Close
<1>15. ASSUME NEW t \in Ticket, StoreDeleteLRU(t) PROVE Kept'
  BY <1>15, <1>d DEF StoreDeleteLRU
\* The steps of a writer that stays one or is gone.
<1>w. ASSUME NEW t \in Ticket, writer[t] # "none", UNCHANGED <<cacheVars, uploadVars, orphans>>,
             \A n \in Ticket : n # t => writer'[n] = writer[n] /\ files'[n] = files[n]
      PROVE  Kept'
  <2>1. \A n \in Ticket : n \in Served \cup Evicted => n \in Served' \cup Evicted'
    BY <1>w DEF Served, Evicted
  <2>2. \A v \in Uploader, n \in Ticket : Works(v, n) => Works(v, n)'
    BY <1>w DEF Works
  <2> QED
    BY <1>w, <2>1, <2>2, SameKept
<1>16. ASSUME NEW t \in Ticket, StoreCreate(t) PROVE Kept'
  BY <1>0, <1>16, <1>w DEF StoreCreate, TypeOK
<1>17. ASSUME NEW t \in Ticket, StoreDone(t) PROVE Kept'
  <2>1. \A n \in Ticket : n # t => writer'[n] = writer[n] /\ files'[n] = files[n]
    BY <1>0, <1>17 DEF StoreDone, WriterEnds, WriterGone, TypeOK
  <2> QED
    BY <1>17, <1>w, <2>1 DEF StoreDone
<1>18. ASSUME NEW t \in Ticket, StoreFails(t) PROVE Kept'
  BY <1>0, <1>18, <1>w DEF StoreFails, TypeOK
<1>19. ASSUME NEW t \in Ticket, StoreDelete(t) PROVE Kept'
  <2>1. writer[t] = "failing" /\ UNCHANGED <<removing, files, uploadVars, orphans>>
        /\ \A n \in Ticket : n # t => writer'[n] = writer[n]
    BY <1>0, <1>19 DEF StoreDelete, TypeOK
  <2>2. CASE Drop({wkey[t]}, fileCache, t)
    BY <1>d, <2>1, <2>2
  <2>3. CASE UNCHANGED <<fileCache, evicting>>
    BY <1>w, <2>1, <2>3
  <2> QED
    BY <1>19, <2>2, <2>3 DEF StoreDelete
<1>20. ASSUME NEW t \in Ticket, StoreFailed(t) PROVE Kept'
  <2>1. \A n \in Ticket : n # t => writer'[n] = writer[n]
    BY <1>0, <1>20 DEF StoreFailed, WriterEnds, WriterGone, TypeOK
  <2> QED
    BY <1>20, <1>w, <2>1 DEF StoreFailed
<1>21. ASSUME NEW e \in Eviction, HandlerLock(e) PROVE Kept'
  <2>1. UNCHANGED <<fileCache, files, writerVars, uploadVars, orphans>>
        /\ evicting' \cup removing' = evicting \cup removing
    BY <1>21 DEF HandlerLock
  <2>2. Served' = Served /\ Evicted' = Evicted
    BY <2>1 DEF Served, Evicted
  <2>3. \A v \in Uploader, n \in Ticket : Works(v, n) => Works(v, n)'
    BY <2>1 DEF Works
  <2> QED
    BY <2>1, <2>2, <2>3, SameKept
<1>22. ASSUME NEW e \in Eviction, HandlerRemove(e) PROVE Kept'
  <2>1. e \in removing /\ removing' = removing \ {e} /\ files' = [files EXCEPT ![e.ticket] = "none"]
        /\ UNCHANGED <<fileCache, evicting, writerVars, uploadVars, orphans>>
    BY <1>22 DEF HandlerRemove
  <2>2. Served' = Served /\ Evicted \subseteq Evicted' \cup {e.ticket}
    BY <2>1 DEF Served, Evicted
  <2>3. \A t \in Ticket : files'[t] = IF t = e.ticket THEN "none" ELSE files[t]
    BY <1>0, <2>1 DEF TypeOK
  <2>4. \A v \in Uploader, n \in Ticket : Works(v, n) => Works(v, n)'
    BY <2>1 DEF Works
  <2> QED
    BY <2>1, <2>2, <2>3, <2>4 DEF Kept
<1>23. ASSUME NEW k \in Key, Expire(k) PROVE Kept'
  BY <1>23, <1>d DEF Expire
<1>24. CASE UNCHANGED vars
  BY <1>24, <1>s DEF vars, Works
<1> QED
  BY <1>1, <1>2, <1>3, <1>4, <1>5, <1>6, <1>7, <1>8, <1>9, <1>10,
     <1>11, <1>12, <1>13, <1>14, <1>15, <1>16, <1>17, <1>18, <1>19, <1>20,
     <1>21, <1>22, <1>23, <1>24
  DEF Next, UploadStep, WriterStep

\* Discarding an upload, evicting its value or replacing it leaves no file
\* behind that nobody will remove, unless a file was still being written when
\* the upload was discarded (StoreUnlock, onValueEvictedHandler).
THEOREM NothingLeftOver == Spec => []NoLeftovers
<1>1. Init => UploadInv /\ Kept
  BY UploadInit DEF Init, Kept
<1>2. UploadInv /\ Kept /\ [Next]_vars => UploadInv' /\ Kept'
  BY UploadStepInv, KeptStep
<1>3. Kept => NoLeftovers
  BY DEF Kept, NoLeftovers, Works, Holds, Served, Evicted, Active
<1> QED
  BY <1>1, <1>2, <1>3, PTL DEF Spec

\* The upload of k that has the lock t and is not over.
Uploads(u, k, t) == lockCh[u] = t /\ upkey[u] = k /\ pc[u] \in Owning \ {"close"}

\* A step that sets no lock, and after which each one leads where it did.
LEMMA SameLocks ==
  ASSUME Locks, \A k \in Key : storeLocks'[k] \in {storeLocks[k], None},
         \A k \in Key : storeLocks'[k] # None /\ fileCache[k] = storeLocks[k] =>
           fileCache'[k] = storeLocks[k] \/ \E e \in evicting' : e.key = k,
         \A e \in evicting : e \in evicting' \/ storeLocks'[e.key] = None,
         \A u \in Uploader, k \in Key :
           Uploads(u, k, storeLocks[k]) /\ storeLocks'[k] # None =>
             fileCache'[k] = storeLocks[k] \/ Uploads(u, k, storeLocks[k])',
         \A u \in Uploader : pc'[u] \in Owning => lockCh'[u] \notin closed'
  PROVE  Locks'
  BY DEF Locks, Uploads

LEMMA LocksStep == UploadInv /\ Locks /\ [Next]_vars => Locks'
<1> SUFFICES ASSUME UploadInv, Locks, [Next]_vars PROVE Locks'
  OBVIOUS
<1>0. TypeOK /\ Owners
  BY DEF UploadInv
<1>o. \A u \in Uploader : pc[u] \in Owning => lockCh[u] \notin closed
  BY DEF Locks
<1> USE DEF cacheVars, writerVars, uploadVars
<1>s. ASSUME UNCHANGED <<storeLocks, fileCache, evicting, lockCh, upkey, closed>>,
             \A u \in Uploader : pc'[u] \in Owning <=> pc[u] \in Owning,
             \A u \in Uploader : pc'[u] = "close" => pc[u] = "close"
      PROVE  Locks'
  BY <1>s, <1>o, SameLocks DEF Uploads
\* An upload moves on with the lock it has, or without one.
<1>g. ASSUME NEW u \in Uploader, NEW label, Goto(u, label),
             label \in Owning \ {"close"} \/ pc[u] \notin Owning,
             label \in Owning => pc[u] \in Owning /\ UNCHANGED <<lockCh, upkey>>,
             \A v \in Uploader : v # u => lockCh'[v] = lockCh[v] /\ upkey'[v] = upkey[v],
             \A k \in Key : storeLocks'[k] \in {storeLocks[k], None},
             UNCHANGED <<cacheVars, closed>>
      PROVE  Locks'
  <2>1. pc'[u] = label /\ \A v \in Uploader : v # u => pc'[v] = pc[v]
    BY <1>0, <1>g DEF Goto, TypeOK
  <2>2. \A v \in Uploader, k \in Key :
          Uploads(v, k, storeLocks[k]) => Uploads(v, k, storeLocks[k])'
                                          \/ storeLocks'[k] = None
    BY <1>g, <2>1 DEF Uploads
  <2>3. \A v \in Uploader : pc'[v] \in Owning => lockCh'[v] \notin closed'
    BY <1>g, <1>o, <2>1
  <2> QED
    BY <1>g, <2>2, <2>3, SameLocks
<1>d. ASSUME NEW S, NEW by \in Ticket \cup {None}, Drop(S, fileCache, by),
             UNCHANGED <<removing, storeLocks, closed, uploadVars>>
      PROVE  Locks'
  <2>1. /\ \A k \in Key : fileCache'[k] = fileCache[k] \/ fileCache[k] = None
                          \/ \E e \in evicting' : e.key = k
        /\ evicting \subseteq evicting'
    BY <1>0, <1>d, DropEvicts DEF TypeOK
  <2> QED
    BY <1>d, <1>o, <2>1, SameLocks DEF Uploads
<1>1. ASSUME NEW u \in Uploader, NEW k \in Key, Start(u, k) PROVE Locks'
  BY <1>0, <1>1, <1>g DEF Start, Owning, Active, TypeOK
<1>2. ASSUME NEW u \in Uploader, StoreLock(u) PROVE Locks'
  <2>1. CASE storeLocks[upkey[u]] = None
    <3>1. PICK n \in Ticket :
            /\ Fresh(n) /\ Goto(u, "recv")
            /\ lockCh' = [lockCh EXCEPT ![u] = n]
            /\ storeLocks' = [storeLocks EXCEPT ![upkey[u]] = n]
            /\ closed' = closed \ {n}
      BY <1>2, <2>1 DEF StoreLock
    <3>2. UNCHANGED <<cacheVars, writerVars, upkey>> /\ pc[u] = "lock" /\ upkey[u] \in Key
      BY <1>0, <1>2 DEF StoreLock, TypeOK
    <3>3. /\ pc'[u] = "recv" /\ lockCh'[u] = n /\ storeLocks'[upkey[u]] = n
          /\ \A v \in Uploader : v # u => pc'[v] = pc[v] /\ lockCh'[v] = lockCh[v]
          /\ \A k \in Key : k # upkey[u] => storeLocks'[k] = storeLocks[k]
      BY <1>0, <3>1, <3>2 DEF Goto, TypeOK
    <3>4. \A v \in Uploader : pc'[v] \in Owning => lockCh'[v] \notin closed'
      BY <1>o, <3>1, <3>3
    <3>5. \A v \in Uploader, k \in Key :
            k # upkey[u] /\ Uploads(v, k, storeLocks[k]) => Uploads(v, k, storeLocks[k])'
      BY <3>2, <3>3 DEF Uploads, Owning, Active
    <3>6. Uploads(u, upkey[u], n)'
      BY <3>2, <3>3 DEF Uploads, Owning, Active
    <3> QED
      BY <3>2, <3>3, <3>4, <3>5, <3>6 DEF Locks, Uploads
  <2>2. CASE storeLocks[upkey[u]] # None
    <3>1. /\ pc[u] = "lock" /\ Goto(u, "wait") /\ UNCHANGED <<cacheVars, storeLocks, closed, upkey>>
          /\ lockCh' = [lockCh EXCEPT ![u] = storeLocks[upkey[u]]]
      BY <1>2, <2>2 DEF StoreLock
    <3> QED
      BY <1>0, <1>g, <3>1 DEF Owning, Active, TypeOK
  <2> QED
    BY <2>1, <2>2
<1>3. ASSUME NEW u \in Uploader, Woken(u) PROVE Locks'
  <2>1. pc[u] = "wait" /\ UNCHANGED <<cacheVars, storeLocks, closed>>
    BY <1>3 DEF Woken
  <2>2. CASE Return(u)
    BY <1>0, <1>g, <2>1, <2>2 DEF Return, Owning, Active, TypeOK
  <2>3. CASE Goto(u, "retry") /\ UNCHANGED <<upkey, lockCh>>
    BY <1>g, <2>1, <2>3 DEF Owning, Active
  <2> QED
    BY <1>3, <2>2, <2>3 DEF Woken
<1>4. ASSUME NEW u \in Uploader, Timeout(u) PROVE Locks'
  BY <1>4, <1>g DEF Timeout, Owning, Active
<1>5. ASSUME NEW u \in Uploader, Retry(u) PROVE Locks'
  <2>1. /\ pc[u] = "retry" /\ Goto(u, "lock") /\ UNCHANGED <<cacheVars, closed, upkey>>
        /\ \A k \in Key : storeLocks'[k] \in {storeLocks[k], None}
        /\ \A v \in Uploader : v # u => lockCh'[v] = lockCh[v]
    BY <1>0, <1>5 DEF Retry, RemoveStoreLock, TypeOK
  <2> QED
    BY <1>g, <2>1 DEF Owning, Active
<1>6. ASSUME NEW u \in Uploader, FirstFile(u) PROVE Locks'
  BY <1>6, <1>s DEF FirstFile
<1>7. ASSUME NEW u \in Uploader, Chunk(u) PROVE Locks'
  <2>1. /\ pc[u] = "recv" /\ UNCHANGED <<cacheVars, storeLocks, closed, upkey, lockCh>>
        /\ Goto(u, "stuck") \/ UNCHANGED pc
    BY <1>7 DEF Chunk
  <2> QED
    BY <1>g, <1>s, <2>1 DEF Owning, Active
<1>8. ASSUME NEW u \in Uploader, NextFile(u) \/ Done(u) PROVE Locks'
  BY <1>8, <1>g DEF NextFile, Done, FileSent, Owning, Active
<1>9. ASSUME NEW u \in Uploader, FileStored(u) PROVE Locks'
  <2>1. PICK label \in {"recv", "commit", "discard"} : Goto(u, label)
    BY <1>9 DEF FileStored
  <2>2. pc[u] \in {"next", "done"} /\ UNCHANGED <<cacheVars, storeLocks, closed, upkey, lockCh>>
    BY <1>9 DEF FileStored
  <2> QED
    BY <1>g, <2>1, <2>2 DEF Owning, Active
<1>10. ASSUME NEW u \in Uploader, Break(u) PROVE Locks'
  BY <1>10, <1>g DEF Break, Owning, Active
<1>11. ASSUME NEW u \in Uploader, Commit(u) PROVE Locks'
  <2>1. /\ pc[u] = "commit" /\ upkey[u] \in Key /\ lockCh[u] \in Ticket
        /\ UNCHANGED <<removing, storeLocks, closed, upkey, lockCh>>
    BY <1>0, <1>11 DEF Commit, Owners, Owning, TypeOK
  <2>2. CASE Cached(upkey[u])
    <3>1. Goto(u, "discard") /\ UNCHANGED <<fileCache, evicting>>
      BY <1>11, <2>2 DEF Commit
    <3> QED
      BY <1>g, <2>1, <3>1 DEF Owning, Active
  <2>3. CASE ~Cached(upkey[u])
    <3>1. PICK c \in [Key -> Ticket \cup {None}] : c = [fileCache EXCEPT ![upkey[u]] = lockCh[u]]
      BY <1>0, <2>1 DEF TypeOK
    <3>2. PICK S \in SUBSET (Key \ {upkey[u]}) : Drop(S, c, lockCh[u])
      BY <1>11, <2>3, <3>1 DEF Commit
    <3>3. Goto(u, "close")
      BY <1>11, <2>3 DEF Commit
    <3>4. /\ pc'[u] = "close" /\ \A v \in Uploader : v # u => pc'[v] = pc[v]
          /\ c[upkey[u]] = lockCh[u] /\ \A k \in Key : k # upkey[u] => c[k] = fileCache[k]
      BY <1>0, <2>1, <3>1, <3>3 DEF Goto, TypeOK
    <3>5. /\ \A k \in Key : fileCache'[k] = c[k] \/ c[k] = None
                            \/ \E e \in evicting' : e.key = k
          /\ evicting \subseteq evicting'
      BY <1>0, <2>1, <3>2, DropEvicts
    <3>6. fileCache'[upkey[u]] = lockCh[u]
      BY <2>1, <3>2, <3>4 DEF Drop
    <3>7. \A k \in Key : storeLocks[k] # None /\ fileCache[k] = storeLocks[k] =>
            fileCache'[k] = storeLocks[k] \/ \E e \in evicting' : e.key = k
      BY <2>3, <3>4, <3>5 DEF Cached
    <3>8. \A v \in Uploader, k \in Key :
            Uploads(v, k, storeLocks[k]) => fileCache'[k] = storeLocks[k] \/ Uploads(v, k, storeLocks[k])'
      BY <2>1, <3>4, <3>6 DEF Uploads
    <3>9. \A v \in Uploader : pc'[v] \in Owning => lockCh'[v] \notin closed'
      BY <1>o, <2>1, <3>4 DEF Owning
    <3> QED
      BY <2>1, <3>5, <3>7, <3>8, <3>9, SameLocks
  <2> QED
    BY <2>2, <2>3
<1>12. ASSUME NEW u \in Uploader, Discard(u) PROVE Locks'
  BY <1>12, <1>g DEF Discard, Owning, Active
<1>13. ASSUME NEW u \in Uploader, Forget(u) PROVE Locks'
  <2>1. /\ pc[u] = "forget" /\ Goto(u, "close") /\ RemoveStoreLock(u)
        /\ UNCHANGED <<cacheVars, closed, upkey, lockCh>>
    BY <1>13 DEF Forget
  <2>2. pc'[u] = "close" /\ \A v \in Uploader : v # u => pc'[v] = pc[v]
    BY <1>0, <2>1 DEF Goto, TypeOK
  <2>3. \A k \in Key : storeLocks'[k] = IF k = upkey[u] /\ storeLocks[k] = lockCh[u]
                                        THEN None ELSE storeLocks[k]
    BY <1>0, <2>1 DEF RemoveStoreLock, TypeOK
  <2>4. \A v \in Uploader, k \in Key :
          Uploads(v, k, storeLocks[k]) /\ storeLocks'[k] # None => Uploads(v, k, storeLocks[k])'
    BY <2>1, <2>2, <2>3 DEF Uploads
  <2>5. \A v \in Uploader : pc'[v] \in Owning => lockCh'[v] \notin closed'
    BY <1>o, <2>1, <2>2 DEF Owning
  <2> QED
    BY <2>1, <2>3, <2>4, <2>5, SameLocks
<1>14. ASSUME NEW u \in Uploader, Close(u) PROVE Locks'
  <2>1. /\ pc[u] = "close" /\ closed' = closed \cup {lockCh[u]} /\ Return(u)
        /\ UNCHANGED <<cacheVars, storeLocks>>
    BY <1>14 DEF Close
  <2>2. /\ pc'[u] = "idle"
        /\ \A v \in Uploader : v # u => pc'[v] = pc[v] /\ lockCh'[v] = lockCh[v] /\ upkey'[v] = upkey[v]
    BY <1>0, <2>1 DEF Return, Goto, TypeOK
  <2>3. \A v \in Uploader, k \in Key : Uploads(v, k, storeLocks[k]) => Uploads(v, k, storeLocks[k])'
    BY <2>1, <2>2 DEF Uploads
  <2>4. \A v \in Uploader : pc'[v] \in Owning => lockCh'[v] \notin closed'
    BY <1>0, <1>o, <2>1, <2>2 DEF Owners, Owning, Active
  <2> QED
    BY <2>1, <2>3, <2>4, SameLocks
<1>15. ASSUME NEW t \in Ticket, StoreDeleteLRU(t) PROVE Locks'
  BY <1>15, <1>d DEF StoreDeleteLRU
<1>16. ASSUME NEW t \in Ticket, \/ StoreCreate(t) \/ StoreDone(t)
                                \/ StoreFails(t) \/ StoreFailed(t)
       PROVE  Locks'
  BY <1>16, <1>s DEF StoreCreate, StoreDone, StoreFails, StoreFailed
<1>19. ASSUME NEW t \in Ticket, StoreDelete(t) PROVE Locks'
  BY <1>19, <1>d, <1>s DEF StoreDelete
<1>21. ASSUME NEW e \in Eviction, HandlerLock(e) PROVE Locks'
  <2>1. /\ evicting' = evicting \ {e} /\ UNCHANGED <<fileCache, closed, uploadVars>>
        /\ \A k \in Key : storeLocks'[k] = IF k = e.key THEN None ELSE storeLocks[k]
    BY <1>0, <1>21 DEF HandlerLock, EvictLock, TypeOK
  <2>2. e.key \in Key
    BY DEF Eviction
  <2> QED
    BY <1>o, <2>1, <2>2, SameLocks DEF Uploads
<1>22. ASSUME NEW e \in Eviction, HandlerRemove(e) PROVE Locks'
  BY <1>22, <1>s DEF HandlerRemove
<1>23. ASSUME NEW k \in Key, Expire(k) PROVE Locks'
  BY <1>23, <1>d DEF Expire
<1>24. CASE UNCHANGED vars
  BY <1>24, <1>s DEF vars
<1> QED
  BY <1>1, <1>2, <1>3, <1>4, <1>5, <1>6, <1>7, <1>8, <1>9, <1>10,
     <1>11, <1>12, <1>13, <1>14, <1>15, <1>16, <1>19, <1>21, <1>22, <1>23, <1>24
  DEF Next, UploadStep, WriterStep

\* The lock of an upload that is over stays in storeLocks only with its value,
\* so that removing the value removes it: StoreUnlock, a timeout and the
\* eviction of another value of the key never leave one behind.
THEOREM LocksNotStale == Spec => []NoStaleLock
<1>1. Init => UploadInv /\ Locks
  BY UploadInit DEF Init, Locks, Owning, Active
<1>2. UploadInv /\ Locks /\ [Next]_vars => UploadInv' /\ Locks'
  BY UploadStepInv, LocksStep
<1>3. UploadInv /\ Locks => NoStaleLock
  BY FileRepoAssumption DEF UploadInv, TypeOK, Locks, NoStaleLock
<1> QED
  BY <1>1, <1>2, <1>3, PTL DEF Spec

-----------------------------------------------------------------------------
(* What the repository promises *)

\* Steps that leave the cache, the stages and the keys of the uploads alone are
\* no steps of RepoStore.
LEMMA Stutters ==
  ASSUME UNCHANGED <<fileCache, upkey>>, Stages' = Stages
  PROVE  UNCHANGED <<ServedKeys, Stages, Subjects>>
  BY DEF ServedKeys, Cached, Subjects

\* An upload that goes from one label to another goes from the one's stage to
\* the other's.
LEMMA Staged ==
  ASSUME TypeOK, NEW u \in Uploader, NEW label \in Labels, Goto(u, label)
  PROVE  /\ Stages' = [Stages EXCEPT ![u] = StageAt(label)]
         /\ Stages[u] = StageAt(pc[u])
  BY DEF TypeOK, Goto, Stages

\* The keys of the other uploads stay, and this one's is none at the end.
LEMMA StagedSubject ==
  ASSUME TypeOK, NEW u \in Uploader, NEW label \in Labels, Goto(u, label),
         \/ UNCHANGED upkey
         \/ \E k \in Key \cup {None} : upkey' = [upkey EXCEPT ![u] = k]
  PROVE  Subjects' = [Subjects EXCEPT ![u] =
                        IF StageAt(label) = "idle" THEN None ELSE upkey'[u]]
<1>1. Stages' = [Stages EXCEPT ![u] = StageAt(label)]
  BY Staged
<1>2. \A v \in Uploader \ {u} : Stages'[v] = Stages[v] /\ upkey'[v] = upkey[v]
  BY <1>1 DEF TypeOK, Stages
<1>3. Stages'[u] = StageAt(label)
  BY <1>1 DEF Stages
<1> QED
  BY <1>2, <1>3 DEF Subjects

\* Within a stage, nothing changes.
LEMMA StageKept ==
  ASSUME TypeOK, NEW u \in Uploader, NEW label \in Labels, Goto(u, label),
         StageAt(label) = StageAt(pc[u])
  PROVE  Stages' = Stages
<1>1. \A v \in Uploader : StageAt(pc'[v]) = StageAt(pc[v])
  BY DEF TypeOK, Goto
<1> QED
  BY <1>1 DEF Stages

\* Taking a value out of the cache without a step of an upload.
LEMMA Evicts ==
  ASSUME NEW k \in Key, Cached(k), NEW by, Drop({k}, fileCache, by), UNCHANGED <<pc, upkey>>
  PROVE  Promise!Evict(k)
<1>1. ServedKeys' = ServedKeys \ {k}
  BY DEF Drop, ServedKeys, Cached
<1>2. k \in ServedKeys
  BY DEF ServedKeys
<1>3. Stages' = Stages /\ Subjects' = Subjects
  BY DEF Stages, Subjects
<1> QED
  BY <1>1, <1>2, <1>3 DEF Promise!Evict

\* An upload of the repository (Upload, StoreLock, StoreUnlock) is one of
\* RepoStore.
LEMMA UploadKeeps ==
  ASSUME TypeOK, NEW u \in Uploader, UploadStep(u)
  PROVE  Promise!StoreNext \/ UNCHANGED <<ServedKeys, Stages, Subjects>>
<1> USE DEF TypeOK, Labels
<1>st. ASSUME NEW label \in Labels, Goto(u, label), StageAt(label) = StageAt(pc[u]),
              UNCHANGED <<fileCache, upkey>>
       PROVE  UNCHANGED <<ServedKeys, Stages, Subjects>>
  BY <1>st, StageKept, Stutters
<1>0. UNCHANGED pc => Stages' = Stages
  BY DEF Stages
<1>1. CASE StoreLock(u)
  <2>1. CASE storeLocks[upkey[u]] = None
    <3>1. Goto(u, "recv") /\ pc[u] = "lock" /\ UNCHANGED <<fileCache, upkey>>
      BY <1>1, <2>1 DEF StoreLock, cacheVars
    <3>2. UNCHANGED ServedKeys
      BY <3>1 DEF ServedKeys, Cached
    <3>3. Stages[u] = "asked" /\ Stages' = [Stages EXCEPT ![u] = "accepted"]
      BY <3>1, Staged DEF StageAt
    <3>4. UNCHANGED Subjects
      BY <3>1, <3>3, StagedSubject DEF StageAt, Subjects
    <3>5. Promise!Accept(u)
      BY <3>2, <3>3, <3>4 DEF Promise!Accept, Promise!Move
    <3> QED
      BY <3>5 DEF Promise!StoreNext
  <2>2. CASE storeLocks[upkey[u]] # None
    BY <1>1, <2>2, <1>st DEF StoreLock, cacheVars, StageAt
  <2> QED
    BY <2>1, <2>2
<1>2. CASE Woken(u)
  <2>1. CASE Cached(upkey[u])
    <3>1. Goto(u, "idle") /\ pc[u] = "wait" /\ upkey' = [upkey EXCEPT ![u] = None]
          /\ UNCHANGED fileCache
      BY <1>2, <2>1 DEF Woken, Return, cacheVars
    <3>2. UNCHANGED ServedKeys
      BY <3>1 DEF ServedKeys, Cached
    <3>3. Stages[u] = "asked" /\ Stages' = [Stages EXCEPT ![u] = "idle"]
      BY <3>1, Staged DEF StageAt
    <3>4. Subjects[u] \in ServedKeys
      BY <2>1, <3>1, <3>3 DEF ServedKeys, Subjects
    <3>5. Subjects' = [Subjects EXCEPT ![u] = None]
      BY <3>1, StagedSubject DEF StageAt
    <3>6. Promise!Reject(u)
      BY <3>2, <3>3, <3>4, <3>5 DEF Promise!Reject, Promise!Move
    <3> QED
      BY <3>6 DEF Promise!StoreNext
  <2>2. CASE ~Cached(upkey[u])
    BY <1>2, <2>2, <1>st DEF Woken, cacheVars, StageAt
  <2> QED
    BY <2>1, <2>2
<1>3. CASE Timeout(u)
  BY <1>3, <1>st DEF Timeout, cacheVars, StageAt
<1>4. CASE Retry(u)
  BY <1>4, <1>st DEF Retry, cacheVars, StageAt
<1>5. CASE FirstFile(u)
  BY <1>5, <1>0, Stutters DEF FirstFile, cacheVars, uploadVars
<1>6. CASE Chunk(u)
  BY <1>6, <1>st, <1>0, Stutters DEF Chunk, cacheVars, StageAt
<1>7. CASE NextFile(u)
  BY <1>7, <1>st DEF NextFile, FileSent, cacheVars, StageAt
<1>8. CASE Done(u)
  BY <1>8, <1>st DEF Done, FileSent, cacheVars, StageAt
<1>fail. ASSUME Goto(u, "discard"), StageAt(pc[u]) = "accepted", UNCHANGED <<fileCache, upkey>>
         PROVE  Promise!StoreNext
  <2>1. UNCHANGED ServedKeys
    BY <1>fail DEF ServedKeys, Cached
  <2>2. Stages[u] = "accepted" /\ Stages' = [Stages EXCEPT ![u] = "idle"]
    BY <1>fail, Staged DEF StageAt
  <2>3. Subjects' = [Subjects EXCEPT ![u] = None]
    BY <1>fail, StagedSubject DEF StageAt
  <2>4. Promise!Fail(u)
    BY <2>1, <2>2, <2>3 DEF Promise!Fail, Promise!Move
  <2> QED
    BY <2>4 DEF Promise!StoreNext
<1>9. CASE FileStored(u)
  <2>1. UNCHANGED <<fileCache, upkey>> /\ pc[u] \in {"next", "done"}
    BY <1>9 DEF FileStored, cacheVars
  <2>2. CASE Goto(u, "discard")
    BY <2>1, <2>2, <1>fail DEF StageAt
  <2>3. CASE Goto(u, "recv") \/ Goto(u, "commit")
    BY <2>1, <2>3, <1>st DEF StageAt
  <2> QED
    BY <1>9, <2>2, <2>3 DEF FileStored
<1>10. CASE Break(u)
  <2>1. UNCHANGED <<fileCache, upkey>> /\ pc[u] = "recv" /\ Goto(u, "discard")
    BY <1>10 DEF Break, cacheVars
  <2> QED
    BY <2>1, <1>fail DEF StageAt
<1>11. CASE Commit(u)
  <2>1. PICK label \in {"discard", "close"} : Goto(u, label)
    BY <1>11 DEF Commit
  <2>2. pc[u] = "commit" /\ upkey[u] \in Key /\ UNCHANGED upkey
    BY <1>11, <2>1 DEF Commit
  <2>3. \/ ServedKeys' = ServedKeys \cup {upkey[u]}
        \/ \E k \in ServedKeys : ServedKeys' = (ServedKeys \ {k}) \cup {upkey[u]}
    <3>1. CASE Cached(upkey[u])
      BY <1>11, <2>2, <3>1 DEF Commit, ServedKeys, Cached
    <3>2. CASE ~Cached(upkey[u])
      <4> DEFINE c == [fileCache EXCEPT ![upkey[u]] = lockCh[u]]
      <4>1. lockCh[u] # None
        BY <2>2
      <4>2. CASE Drop({}, c, lockCh[u])
        <5>1. ServedKeys' = ServedKeys \cup {upkey[u]}
          BY <2>2, <4>1, <4>2 DEF Drop, ServedKeys, Cached
        <5> QED
          BY <5>1
      <4>3. ASSUME NEW j \in Key \ {upkey[u]}, Cached(j), Drop({j}, c, lockCh[u])
            PROVE  \E k \in ServedKeys : ServedKeys' = (ServedKeys \ {k}) \cup {upkey[u]}
        <5>1. ServedKeys' = (ServedKeys \ {j}) \cup {upkey[u]}
          BY <2>2, <4>1, <4>3 DEF Drop, ServedKeys, Cached
        <5> QED
          BY <4>3, <5>1 DEF ServedKeys
      <4> QED
        BY <1>11, <3>2, <4>2, <4>3 DEF Commit
    <3> QED
      BY <3>1, <3>2
  <2>4. Stages[u] = "accepted" /\ Stages' = [Stages EXCEPT ![u] = "idle"]
    BY <2>1, <2>2, Staged DEF StageAt
  <2>5. Subjects' = [Subjects EXCEPT ![u] = None]
    BY <2>1, <2>2, StagedSubject DEF StageAt
  <2>6. Subjects[u] = upkey[u]
    BY <2>4 DEF Subjects
  <2>7. Promise!Commit(u)
    BY <2>3, <2>4, <2>5, <2>6 DEF Promise!Commit, Promise!Move
  <2> QED
    BY <2>7 DEF Promise!StoreNext
<1>12. CASE Discard(u)
  BY <1>12, <1>st DEF Discard, cacheVars, StageAt
<1>13. CASE Forget(u)
  BY <1>13, <1>st DEF Forget, cacheVars, StageAt
<1>14. CASE Close(u)
  <2>1. Goto(u, "idle") /\ pc[u] = "close" /\ upkey' = [upkey EXCEPT ![u] = None]
        /\ UNCHANGED fileCache
    BY <1>14 DEF Close, Return, cacheVars
  <2>2. UNCHANGED ServedKeys
    BY <2>1 DEF ServedKeys, Cached
  <2>3. Stages' = Stages /\ Stages[u] = "idle"
    BY <2>1, StageKept, Staged DEF StageAt
  <2>4. Subjects' = [Subjects EXCEPT ![u] = None]
    BY <2>1, StagedSubject DEF StageAt
  <2>5. Subjects' = Subjects
    BY <2>3, <2>4 DEF Subjects
  <2> QED
    BY <2>2, <2>3, <2>5
<1> QED
  BY <1>1, <1>2, <1>3, <1>4, <1>5, <1>6, <1>7, <1>8, <1>9, <1>10, <1>11, <1>12, <1>13, <1>14
  DEF UploadStep

\* Every step of the repository is one of RepoStore, or none.
LEMMA StepKeeps ==
  ASSUME TypeOK, [Next]_vars
  PROVE  Promise!StoreNext \/ UNCHANGED <<ServedKeys, Stages, Subjects>>
<1>0. UNCHANGED <<fileCache, pc, upkey>> => UNCHANGED <<ServedKeys, Stages, Subjects>>
  BY Stutters DEF Stages
<1>1. ASSUME NEW u \in Uploader, NEW k \in Key, Start(u, k)
      PROVE  Promise!StoreNext
  <2>1. Goto(u, "lock") /\ pc[u] = "idle" /\ UNCHANGED fileCache
        /\ upkey' = [upkey EXCEPT ![u] = k]
    BY <1>1 DEF Start, cacheVars
  <2>2. UNCHANGED ServedKeys
    BY <2>1 DEF ServedKeys, Cached
  <2>3. Stages[u] = "idle" /\ Stages' = [Stages EXCEPT ![u] = "asked"]
    BY <2>1, Staged DEF StageAt, Labels
  <2>4. upkey'[u] = k
    BY <2>1 DEF TypeOK
  <2>5. Subjects' = [Subjects EXCEPT ![u] = k]
    BY <2>1, <2>4, StagedSubject DEF StageAt, Labels
  <2>6. Promise!Ask(u, k)
    BY <2>2, <2>3, <2>5 DEF Promise!Ask, Promise!Move
  <2> QED
    BY <2>6 DEF Promise!StoreNext
<1>2. ASSUME NEW u \in Uploader, UploadStep(u)
      PROVE  Promise!StoreNext \/ UNCHANGED <<ServedKeys, Stages, Subjects>>
  BY <1>2, UploadKeeps
<1>3. ASSUME NEW t \in Ticket, WriterStep(t)
      PROVE  Promise!StoreNext \/ UNCHANGED <<ServedKeys, Stages, Subjects>>
  <2>1. CASE StoreDeleteLRU(t)
    <3>1. PICK k \in Key : Cached(k) /\ Drop({k}, fileCache, t)
      BY <2>1 DEF StoreDeleteLRU
    <3>2. UNCHANGED <<pc, upkey>>
      BY <2>1 DEF StoreDeleteLRU, uploadVars
    <3>3. Promise!Evict(k)
      BY <3>1, <3>2, Evicts
    <3> QED
      BY <3>3 DEF Promise!StoreNext
  <2>2. CASE StoreDelete(t) /\ Cached(wkey[t]) /\ wkey[t] \in Key
    <3>1. Drop({wkey[t]}, fileCache, t) /\ UNCHANGED <<pc, upkey>>
      BY <2>2 DEF StoreDelete, uploadVars
    <3>2. Promise!Evict(wkey[t])
      BY <2>2, <3>1, Evicts
    <3> QED
      BY <2>2, <3>2 DEF Promise!StoreNext
  <2>3. CASE StoreDelete(t) /\ ~(Cached(wkey[t]) /\ wkey[t] \in Key)
    <3>1. UNCHANGED fileCache
      BY <2>3 DEF StoreDelete, Drop, TypeOK
    <3> QED
      BY <2>3, <3>1, <1>0 DEF StoreDelete, uploadVars
  <2>4. CASE StoreCreate(t) \/ StoreDone(t) \/ StoreFails(t) \/ StoreFailed(t)
    BY <2>4, <1>0 DEF StoreCreate, StoreDone, StoreFails, StoreFailed, cacheVars, uploadVars
  <2> QED
    BY <1>3, <2>1, <2>2, <2>3, <2>4 DEF WriterStep
<1>4. ASSUME NEW e \in Eviction, HandlerLock(e) \/ HandlerRemove(e)
      PROVE  UNCHANGED <<ServedKeys, Stages, Subjects>>
  BY <1>4, <1>0 DEF HandlerLock, HandlerRemove, uploadVars
<1>5. ASSUME NEW k \in Key, Expire(k)
      PROVE  Promise!StoreNext
  <2>1. Promise!Evict(k)
    BY <1>5, Evicts DEF Expire, uploadVars
  <2> QED
    BY <2>1 DEF Promise!StoreNext
<1>6. CASE UNCHANGED vars
  BY <1>6, <1>0 DEF vars, cacheVars, uploadVars
<1> QED
  BY <1>1, <1>2, <1>3, <1>4, <1>5, <1>6 DEF Next

\* The repository implements RepoStore: an upload is rejected only while its key
\* is served, also after it has waited for the lock of another one, and leaves
\* its key served when it commits (Upload, StoreLock, StoreUnlock).  The broker
\* builds on that when it takes a rejected upload for a success.
THEOREM ImplementsStore == Spec => KeepsPromise
<1>1. Init => Promise!StoreInit
  BY DEF Init, Promise!StoreInit, ServedKeys, Cached, Stages, Subjects, StageAt
<1>2. TypeOK /\ [Next]_vars => [Promise!StoreNext]_<<ServedKeys, Stages, Subjects>>
  BY StepKeeps
<1> QED
  BY <1>1, <1>2, TypeCorrect, PTL DEF Spec, KeepsPromise, Promise!StoreSpec

=============================================================================
