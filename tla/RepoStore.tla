----------------------------- MODULE RepoStore ------------------------------
(***************************************************************************)
(* What a file repository promises to those who upload into it, without    *)
(* locks, files and disks.  FileRepo implements it; Broker uses it.        *)
(*                                                                         *)
(* An upload of a key is rejected only while the key is served, and        *)
(* confirmed only when the key has come to be served.  A key is served     *)
(* until the repository evicts it, which it may do at any time.            *)
(***************************************************************************)
CONSTANTS Uploader, Key, None

VARIABLES
  served,  \* the keys that Exists and Get find
  stage,   \* [Uploader -> "idle", "asked" for the lock, or "accepted"]
  subject  \* [Uploader -> the key that it uploads, or None]

Move(u, from, to) == stage[u] = from /\ stage' = [stage EXCEPT ![u] = to]

StoreInit ==
  /\ served = {}
  /\ stage = [u \in Uploader |-> "idle"]
  /\ subject = [u \in Uploader |-> None]

\* The metadata of the upload arrive.
Ask(u, k) ==
  /\ Move(u, "idle", "asked")
  /\ subject' = [subject EXCEPT ![u] = k]
  /\ UNCHANGED served

Accept(u) == Move(u, "asked", "accepted") /\ UNCHANGED <<served, subject>>

\* Somebody else has stored the key.
Reject(u) ==
  /\ subject[u] \in served
  /\ Move(u, "asked", "idle")
  /\ subject' = [subject EXCEPT ![u] = None]
  /\ UNCHANGED served

\* All has arrived.  Another key may have to go.
Commit(u) ==
  /\ Move(u, "accepted", "idle")
  /\ \/ served' = served \cup {subject[u]}
     \/ \E k \in served : served' = (served \ {k}) \cup {subject[u]}
  /\ subject' = [subject EXCEPT ![u] = None]

\* The stream broke off, or storing failed.
Fail(u) ==
  /\ Move(u, "accepted", "idle")
  /\ subject' = [subject EXCEPT ![u] = None]
  /\ UNCHANGED served

Evict(k) ==
  /\ k \in served /\ served' = served \ {k}
  /\ UNCHANGED <<stage, subject>>

StoreNext ==
  \/ \E u \in Uploader :
       \/ \E k \in Key : Ask(u, k)
       \/ Accept(u) \/ Reject(u) \/ Commit(u) \/ Fail(u)
  \/ \E k \in Key : Evict(k)

StoreSpec == StoreInit /\ [][StoreNext]_<<served, stage, subject>>
=============================================================================
