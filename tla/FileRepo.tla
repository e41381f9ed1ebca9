------------------------------ MODULE FileRepo ------------------------------
(***************************************************************************)
(* Uploads into the cache of a file repository (app/filerepo/repo.go),     *)
(* which the load balancer and every worker serve (app/filerepo/server.go).*)
(*                                                                         *)
(* An upload of a key takes the store lock of the key, stores files under  *)
(* a path of its own and puts that path into the cache.  Each file is      *)
(* written by a goroutine of its own, which can outlive the upload.        *)
(* Whoever takes a value out of the cache runs onValueEvictedHandler, after*)
(* the cache has been unlocked.                                            *)
(***************************************************************************)
EXTENDS Naturals, FiniteSets

CONSTANTS
  Uploader,  \* goroutines serving Upload, reused for one upload after another
  Key,
  Ticket,    \* a storeKey with its lock channel, reused once nothing refers to it
  Capacity,  \* of the cache
  Events,    \* what the environment may do, a subset of AllEvents
  None

AllEvents ==
  {"break",    \* a client breaks off its upload
   "disk",     \* the disk is full, or writing to it fails
   "expire",   \* the cache's janitor removes a value
   "timeout"}  \* an upload does not get the lock within StoreLockTimeout

ASSUME FileRepoAssumption ==
  /\ IsFiniteSet(Key) /\ IsFiniteSet(Ticket)
  /\ Capacity \in Nat \ {0}
  /\ Events \subseteq AllEvents
  /\ None \notin Ticket \cup Key

VARIABLES
  storeLocks,  \* [Key -> Ticket or None]
  closed,      \* tickets whose channel is closed
  fileCache,   \* [Key -> Ticket or None]: the Resource of a key
  evicting,    \* values taken out of the cache whose handler is at its first step
  removing,    \* and at its second
  files,       \* [Ticket -> what is at its path]
  writer,      \* [Ticket -> the goroutine that stores a file for it]
  wkey,        \* [Ticket -> the key that this goroutine was given]
  sent,        \* tickets whose chunkCh is closed: the file has been sent
  full,        \* tickets whose writer is gone and left a chunk in chunkCh
  pc,          \* [Uploader -> where the upload is]
  upkey,       \* [Uploader -> Key or None]
  lockCh,      \* [Uploader -> the channel it waits for, then the ticket it has]
  orphans      \* history: tickets discarded under their writer

cacheVars  == <<fileCache, evicting, removing>>
writerVars == <<writer, wkey, sent, full>>
uploadVars == <<pc, upkey, lockCh>>
vars == <<storeLocks, closed, cacheVars, files, writerVars, uploadVars, orphans>>

Labels == {"idle", "lock", "wait", "retry", "recv", "next", "done", "stuck", "commit",
           "discard", "forget", "close"}

\* by: the ticket whose writer or upload runs the handler, None is the janitor.
Eviction == [key : Key, ticket : Ticket, by : Ticket \cup {None}]

TypeOK ==
  /\ storeLocks \in [Key -> Ticket \cup {None}]
  /\ closed \in SUBSET Ticket
  /\ fileCache \in [Key -> Ticket \cup {None}]
  /\ evicting \in SUBSET Eviction /\ removing \in SUBSET Eviction
  /\ files \in [Ticket -> {"none", "partial", "complete"}]
  /\ writer \in [Ticket -> {"none", "new", "writing", "failing", "deleted", "failed",
                        "stored"}]
  /\ wkey \in [Ticket -> Key \cup {None}]
  /\ sent \in SUBSET Ticket /\ full \in SUBSET Ticket
  /\ pc \in [Uploader -> Labels]
  /\ upkey \in [Uploader -> Key \cup {None}]
  /\ lockCh \in [Uploader -> Ticket \cup {None}]
  /\ orphans \in SUBSET Ticket
  /\ \A u \in Uploader : /\ pc[u] = "idle" <=> upkey[u] = None
                         /\ pc[u] \in {"idle", "lock"} <=> lockCh[u] = None

Init ==
  /\ storeLocks = [k \in Key |-> None]
  /\ closed = {} /\ evicting = {} /\ removing = {} /\ sent = {} /\ full = {} /\ orphans = {}
  /\ fileCache = [k \in Key |-> None]
  /\ files = [t \in Ticket |-> "none"]
  /\ writer = [t \in Ticket |-> "none"]
  /\ wkey = [t \in Ticket |-> None]
  /\ pc = [u \in Uploader |-> "idle"]
  /\ upkey = [u \in Uploader |-> None]
  /\ lockCh = [u \in Uploader |-> None]

-----------------------------------------------------------------------------
(* The cache *)

Cached(k) == fileCache[k] # None

HandlerDone(t) == \A e \in evicting \cup removing : e.by # t

Goto(u, label) == pc' = [pc EXCEPT ![u] = label]

\* Remove the values of the keys in S from a cache c.
Drop(S, c, by) ==
  /\ fileCache' = [k \in Key |-> IF k \in S THEN None ELSE c[k]]
  /\ evicting' = evicting \cup {e \in Eviction : e.by = by /\ e.key \in S /\ e.ticket = c[e.key]}

EvictLock_IfSame(e) ==
  storeLocks' = [storeLocks EXCEPT ![e.key] = IF @ = e.ticket THEN @ ELSE None]

\* onValueEvictedHandler: the lock of the key is deleted, whosever it is.
EvictLock(e) ==
  storeLocks' = [storeLocks EXCEPT ![e.key] = None]

HandlerLock(e) ==
  /\ e \in evicting
  /\ evicting' = evicting \ {e}
  /\ removing' = removing \cup {e}
  /\ EvictLock(e)
  /\ UNCHANGED <<closed, fileCache, files, writerVars, uploadVars, orphans>>

HandlerRemove(e) ==
  /\ e \in removing
  /\ removing' = removing \ {e}
  /\ files' = [files EXCEPT ![e.ticket] = "none"]
  /\ UNCHANGED <<storeLocks, closed, fileCache, evicting, writerVars, uploadVars, orphans>>

Expire(k) ==
  /\ "expire" \in Events /\ Cached(k)
  /\ Drop({k}, fileCache, None)
  /\ UNCHANGED <<storeLocks, closed, removing, files, writerVars, uploadVars, orphans>>

-----------------------------------------------------------------------------
(* StoreLock *)

Start(u, k) ==
  /\ pc[u] = "idle" /\ Goto(u, "lock")
  /\ upkey' = [upkey EXCEPT ![u] = k]
  /\ UNCHANGED <<storeLocks, closed, cacheVars, files, writerVars, lockCh, orphans>>

Fresh(t) ==
  /\ writer[t] = "none"
  /\ \A k \in Key : storeLocks[k] # t /\ fileCache[k] # t
  /\ \A u \in Uploader : lockCh[u] # t
  /\ \A e \in evicting \cup removing : e.ticket # t

StoreLock(u) ==
  LET k == upkey[u] IN
  /\ pc[u] = "lock"
  /\ IF storeLocks[k] = None
     THEN \E t \in Ticket :
            /\ Fresh(t) /\ Goto(u, "recv")
            /\ lockCh' = [lockCh EXCEPT ![u] = t]
            /\ storeLocks' = [storeLocks EXCEPT ![k] = t]
            /\ closed' = closed \ {t}
            /\ files' = [files EXCEPT ![t] = "none"]
            /\ orphans' = orphans \ {t}
     ELSE /\ lockCh' = [lockCh EXCEPT ![u] = storeLocks[k]]
          /\ Goto(u, "wait")
          /\ UNCHANGED <<storeLocks, closed, files, orphans>>
  /\ UNCHANGED <<cacheVars, writerVars, upkey>>

Return_KeepsLock(u) == Goto(u, "idle") /\ upkey' = [upkey EXCEPT ![u] = None] /\ UNCHANGED lockCh

Return(u) ==
  /\ Goto(u, "idle")
  /\ upkey' = [upkey EXCEPT ![u] = None]
  /\ lockCh' = [lockCh EXCEPT ![u] = None]

Woken_Unchecked(u) ==
  /\ pc[u] = "wait" /\ lockCh[u] \in closed
  /\ Return(u)
  /\ UNCHANGED <<storeLocks, closed, cacheVars, files, writerVars, orphans>>

\* The other upload is over: this one is rejected if the key is there now.
Woken(u) ==
  /\ pc[u] = "wait" /\ lockCh[u] \in closed
  /\ IF Cached(upkey[u]) THEN Return(u) ELSE Goto(u, "retry") /\ UNCHANGED <<upkey, lockCh>>
  /\ UNCHANGED <<storeLocks, closed, cacheVars, files, writerVars, orphans>>

Timeout(u) ==
  /\ "timeout" \in Events
  /\ pc[u] = "wait" /\ Goto(u, "retry")
  /\ UNCHANGED <<storeLocks, closed, cacheVars, files, writerVars, upkey, lockCh, orphans>>

\* removeStoreLock
RemoveStoreLock(u) ==
  storeLocks' = [storeLocks EXCEPT ![upkey[u]] = IF @ = lockCh[u] THEN None ELSE @]

Retry(u) ==
  /\ pc[u] = "retry" /\ Goto(u, "lock")
  /\ RemoveStoreLock(u)
  /\ lockCh' = [lockCh EXCEPT ![u] = None]
  /\ UNCHANGED <<closed, cacheVars, files, writerVars, upkey, orphans>>

-----------------------------------------------------------------------------
(* Upload *)

\* A chunk of the first file.
FirstFile(u) ==
  /\ pc[u] = "recv" /\ writer[lockCh[u]] = "none"
  /\ writer' = [writer EXCEPT ![lockCh[u]] = "new"]
  /\ wkey' = [wkey EXCEPT ![lockCh[u]] = upkey[u]]
  /\ UNCHANGED <<storeLocks, closed, cacheVars, files, sent, full, uploadVars, orphans>>

\* Another chunk of a file.  The writer takes it (which is no step here),
\* unless it has failed: then chunkCh holds one chunk, and the next one waits
\* for ever.
Chunk(u) ==
  LET t == lockCh[u] IN
  /\ pc[u] = "recv" /\ writer[t] \in {"failing", "deleted", "failed"}
  /\ IF t \in full THEN Goto(u, "stuck") /\ UNCHANGED full
     ELSE full' = full \cup {t} /\ UNCHANGED pc
  /\ UNCHANGED <<storeLocks, closed, cacheVars, files, writer, wkey, sent, upkey, lockCh, orphans>>

FileSent(u, label) ==
  LET t == lockCh[u] IN
  /\ pc[u] = "recv" /\ writer[t] # "none" /\ Goto(u, label)
  /\ sent' = sent \cup {t}
  /\ UNCHANGED <<storeLocks, closed, cacheVars, files, writer, wkey, full, upkey, lockCh, orphans>>

\* A chunk of another file.
NextFile(u) == FileSent(u, "next")

\* A client sends some file before Done.
Done(u) == FileSent(u, "done")

FileOk_Ignored(t) == writer[t] \in {"stored", "failed"}
FileOk(t) == writer[t] = "stored"

WriterGone(t) ==
  /\ writer' = [writer EXCEPT ![t] = "none"]
  /\ wkey' = [wkey EXCEPT ![t] = None]
  /\ sent' = sent \ {t} /\ full' = full \ {t}

\* The result of a file, from errCh.
FileStored(u) ==
  LET t == lockCh[u] IN
  /\ pc[u] \in {"next", "done"} /\ writer[t] \in {"stored", "failed"}
  /\ \/ /\ FileOk(t) /\ pc[u] = "next" /\ Goto(u, "recv")
        /\ writer' = [writer EXCEPT ![t] = "new"]
        /\ sent' = sent \ {t} /\ full' = full \ {t}
        /\ UNCHANGED wkey
     \/ FileOk(t) /\ pc[u] = "done" /\ Goto(u, "commit") /\ WriterGone(t)
     \/ ~FileOk(t) /\ Goto(u, "discard") /\ WriterGone(t)
  /\ UNCHANGED <<storeLocks, closed, cacheVars, files, upkey, lockCh, orphans>>

\* The stream ends without Done.  Nobody waits for the writer.
Break(u) ==
  LET t == lockCh[u] IN
  /\ "break" \in Events
  /\ pc[u] = "recv" /\ Goto(u, "discard")
  /\ IF writer[t] \in {"none", "failed"} THEN WriterGone(t)
     ELSE sent' = sent \cup {t} /\ UNCHANGED <<writer, wkey, full>>
  /\ UNCHANGED <<storeLocks, closed, cacheVars, files, upkey, lockCh, orphans>>

\* StoreUnlock(save = true), up to fileCache.Add.
Commit(u) ==
  LET k == upkey[u] t == lockCh[u]
      c == [fileCache EXCEPT ![k] = t] IN
  /\ pc[u] = "commit"
  /\ IF Cached(k) THEN Goto(u, "discard") /\ UNCHANGED <<fileCache, evicting>>
     ELSE /\ Goto(u, "close")
          /\ IF Cardinality({j \in Key : c[j] # None}) <= Capacity
             THEN Drop({}, c, t)
             ELSE \E j \in Key \ {k} : Cached(j) /\ Drop({j}, c, t)
  /\ UNCHANGED <<storeLocks, closed, removing, files, writerVars, upkey, lockCh, orphans>>

Discard_KeepsFiles(u) ==
  /\ pc[u] = "discard" /\ Goto(u, "forget")
  /\ UNCHANGED <<storeLocks, closed, cacheVars, files, writerVars, upkey, lockCh, orphans>>

Discard(u) ==
  LET t == lockCh[u] IN
  /\ pc[u] = "discard" /\ Goto(u, "forget")
  /\ files' = [files EXCEPT ![t] = "none"]
  /\ orphans' = IF writer[t] = "none" THEN orphans ELSE orphans \cup {t}
  /\ UNCHANGED <<storeLocks, closed, cacheVars, writerVars, upkey, lockCh>>

Forget_KeepsLock(u) ==
  /\ pc[u] = "forget" /\ Goto(u, "close")
  /\ UNCHANGED <<storeLocks, closed, cacheVars, files, writerVars, upkey, lockCh, orphans>>

Forget(u) ==
  /\ pc[u] = "forget" /\ Goto(u, "close")
  /\ RemoveStoreLock(u)
  /\ UNCHANGED <<closed, cacheVars, files, writerVars, upkey, lockCh, orphans>>

Close_Silent(u) ==
  /\ pc[u] = "close" /\ HandlerDone(lockCh[u])
  /\ Return(u)
  /\ UNCHANGED <<storeLocks, closed, cacheVars, files, writerVars, orphans>>

Close(u) ==
  /\ pc[u] = "close" /\ HandlerDone(lockCh[u])
  /\ closed' = closed \cup {lockCh[u]}
  /\ Return(u)
  /\ UNCHANGED <<storeLocks, cacheVars, files, writerVars, orphans>>

-----------------------------------------------------------------------------
(* Store, in the goroutine of one file *)

\* Somebody is to receive from errCh.
Awaited(t) == \E u \in Uploader : lockCh[u] = t /\ pc[u] \in {"recv", "next", "done", "stuck"}

WriterEnds(t, result) ==
  IF Awaited(t)
  THEN writer' = [writer EXCEPT ![t] = result] /\ UNCHANGED <<wkey, sent, full>>
  ELSE WriterGone(t)

\* Some value makes room on the disk.
StoreDeleteLRU(t) ==
  /\ "disk" \in Events /\ writer[t] = "new" /\ HandlerDone(t)
  /\ \E k \in Key : Cached(k) /\ Drop({k}, fileCache, t)
  /\ UNCHANGED <<storeLocks, closed, removing, files, writerVars, uploadVars, orphans>>

StoreCreate(t) ==
  /\ writer[t] = "new" /\ HandlerDone(t)
  /\ writer' = [writer EXCEPT ![t] = "writing"]
  /\ files' = [files EXCEPT ![t] = "partial"]
  /\ UNCHANGED <<storeLocks, closed, cacheVars, wkey, sent, full, uploadVars, orphans>>

\* All that was sent is written.  Writing to a path that was removed meanwhile
\* goes nowhere.
StoreDone(t) ==
  /\ writer[t] = "writing" /\ t \in sent
  /\ files' = [files EXCEPT ![t] = IF @ = "partial" THEN "complete" ELSE @]
  /\ WriterEnds(t, "stored")
  /\ UNCHANGED <<storeLocks, closed, cacheVars, uploadVars, orphans>>

\* ErrNotEnoughDiskSpace, or an error of the file system.
StoreFails(t) ==
  /\ "disk" \in Events /\ writer[t] \in {"new", "writing"} /\ HandlerDone(t)
  /\ writer' = [writer EXCEPT ![t] = "failing"]
  /\ UNCHANGED <<storeLocks, closed, cacheVars, files, wkey, sent, full, uploadVars, orphans>>

\* After a failure: Delete(key), whoever has stored it.
StoreDelete(t) ==
  /\ writer[t] = "failing"
  /\ writer' = [writer EXCEPT ![t] = "deleted"]
  /\ IF Cached(wkey[t]) THEN Drop({wkey[t]}, fileCache, t) ELSE UNCHANGED <<fileCache, evicting>>
  /\ UNCHANGED <<storeLocks, closed, removing, files, wkey, sent, full, uploadVars, orphans>>

StoreFailed(t) ==
  /\ writer[t] = "deleted" /\ HandlerDone(t)
  /\ WriterEnds(t, "failed")
  /\ UNCHANGED <<storeLocks, closed, cacheVars, files, uploadVars, orphans>>

-----------------------------------------------------------------------------

UploadStep(u) ==
  \/ StoreLock(u) \/ Woken(u) \/ Timeout(u) \/ Retry(u)
  \/ FirstFile(u) \/ Chunk(u) \/ NextFile(u) \/ Done(u) \/ FileStored(u) \/ Break(u)
  \/ Commit(u) \/ Discard(u) \/ Forget(u) \/ Close(u)

WriterStep(t) ==
  \/ StoreDeleteLRU(t) \/ StoreCreate(t) \/ StoreDone(t)
  \/ StoreFails(t) \/ StoreDelete(t) \/ StoreFailed(t)

Next ==
  \/ \E u \in Uploader : (\E k \in Key : Start(u, k)) \/ UploadStep(u)
  \/ \E t \in Ticket : WriterStep(t)
  \/ \E e \in Eviction : HandlerLock(e) \/ HandlerRemove(e)
  \/ \E k \in Key : Expire(k)

Spec == Init /\ [][Next]_vars

\* Goroutines run; an upload has finitely many files; a writer that makes room
\* on the disk comes to an end.
FairSpec ==
  /\ Spec
  /\ \A u \in Uploader :
       /\ WF_vars(Woken(u) \/ Retry(u) \/ FirstFile(u) \/ FileStored(u))
       /\ WF_vars(Commit(u) \/ Discard(u) \/ Forget(u) \/ Close(u))
       /\ SF_vars(Done(u))
  /\ \A t \in Ticket :
       /\ WF_vars(StoreDone(t) \/ StoreDelete(t) \/ StoreFailed(t))
       /\ SF_vars(StoreCreate(t))
  /\ \A e \in Eviction : WF_vars(HandlerLock(e)) /\ WF_vars(HandlerRemove(e))

-----------------------------------------------------------------------------
(* Properties *)

\* What Get returns has been stored completely and is still there (Upload waits
\* for every file before it commits; discards and evictions of other tickets
\* leave it alone).
ServedComplete == \A k \in Key : Cached(k) => files[fileCache[k]] = "complete"

\* The upload that has the lock t.
Holds(u, t) == lockCh[u] = t /\ pc[u] \notin {"wait", "retry"}

\* Files on disk are served, on their way out or being uploaded, except those
\* written for an upload that was discarded under its writer.
NoLeftovers ==
  \A t \in Ticket : files[t] # "none" =>
    \/ \E k \in Key : fileCache[k] = t
    \/ \E e \in evicting \cup removing : e.ticket = t
    \/ \E u \in Uploader : Holds(u, t)
    \/ t \in orphans

\* storeLocks keeps the channel of an upload that is over only for a key that
\* is served, or about to be evicted: it does not leak.
NoStaleLock ==
  \A k \in Key : storeLocks[k] \in closed =>
    \/ fileCache[k] = storeLocks[k]
    \/ \E e \in evicting : e.key = k

\* What the repository promises, see RepoStore.
ServedKeys == {k \in Key : Cached(k)}

StageAt(label) ==
  CASE label \in {"lock", "wait", "retry"} -> "asked"
    [] label \in {"recv", "next", "done", "stuck", "commit"} -> "accepted"
    [] label \in {"idle", "discard", "forget", "close"} -> "idle"

Stages == [u \in Uploader |-> StageAt(pc[u])]
Subjects == [u \in Uploader |-> IF Stages[u] = "idle" THEN None ELSE upkey[u]]

Promise == INSTANCE RepoStore WITH served <- ServedKeys, stage <- Stages, subject <- Subjects

\* The uploads keep that promise: one is rejected only while its key is served,
\* whatever lock it waited for, and one that is committed leaves its key served,
\* also when another upload of the key was faster.
KeepsPromise == Promise!StoreSpec

\* Whoever waits for a lock is woken, unless the writer's failure has left the
\* upload that has it waiting to send a chunk.
LockReleased ==
  \A t \in Ticket :
    (\E u \in Uploader : Holds(u, t)) ~> (t \in closed \/ \E u \in Uploader : Holds(u, t) /\ pc[u] = "stuck")

=============================================================================
