----------------------------- MODULE UserCache ------------------------------
(***************************************************************************)
(* The cache that the scripts of one user share.  A script calls get and   *)
(* set of class Cache (assets/wrappers/node.js), which writes the command  *)
(* to a socket and keeps its promise in a queue.  At the other end, in the *)
(* worker, Process (app/script/user_cache.go) reads one command after the  *)
(* other, carries it out in Redis and writes the reply.  Each container    *)
(* has such a stream; all those of a user work on the same two keys of     *)
(* Redis, from any worker, with no lock:                                   *)
(*                                                                         *)
(*   hset   the values, and under "__size__" the sum of their lengths      *)
(*   zset   the names of the values, by the time of their last use         *)
(*                                                                         *)
(* A SET is a pipeline, whose commands Redis may mix with those of others. *)
(***************************************************************************)
EXTENDS Integers, Sequences, FiniteSets, FiniteSetsExt

CONSTANTS
  Container,        \* containers of the user
  Key,              \* names of values
  Length,           \* of values
  CardinalityLimit, \* of the values
  SizeLimit,        \* of the sum of their lengths
  Commands,         \* bound: [Container -> Seq of the choices for its commands]
  Events,           \* what the environment may do, a subset of AllEvents
  None

AllEvents ==
  {"cut",      \* the stream of a container or its connection to Redis ends
   "split",    \* a chunk of replies ends within the four bytes of a length
   "refuse",   \* a key or a value exceeds its limit
   "expire",   \* nobody has used the cache for DefaultTimeout
   "restart"}  \* Redis restarts, with or without its data, but without scripts

Command == [op : {"GET"}, key : Key] \cup [op : {"SET"}, key : Key, len : Length]

ASSUME UserCacheAssumption ==
  /\ IsFiniteSet(Container) /\ IsFiniteSet(Key)
  /\ Length \subseteq Nat
  /\ CardinalityLimit \in Nat /\ SizeLimit \in Nat
  /\ \A c \in Container : Commands[c] \in Seq(SUBSET Command)
  /\ Events \subseteq AllEvents
  /\ None \notin Nat

VARIABLES
  \* Redis
  hset,      \* [Key -> the length of its value, or None]
  size,      \* the value of "__size__"; 0 is also its absence
  zset,      \* the keys that ZPOPMIN can pop
  scripts,   \* the scripts of initOnceCache are loaded
  \* the worker
  pc,        \* [Container -> the next command of the pipeline, "ready" or "gone"]
  taken,     \* [Container -> the commands that Process has read]
  erred,     \* containers whose pipeline has met an error
  \* the wrapper
  issued,    \* [Container -> sequence of the commands of its scripts]
  wire,      \* [Container -> sequence of the parts of replies on their way]
  inValue,   \* containers that have read the length of a reply, not all of it
  astray,    \* containers that take other bytes for the length of a reply
  answered,  \* [Container -> the replies that its promises have got, in order]
  \* history
  drifted,   \* size and hset went apart for one of the reasons given below
  unpopped,  \* SETs that have ended after ZADD and before the pop script
  dropped    \* containers that have lost replies, or bytes of them

redisVars  == <<hset, size, zset, scripts>>
workerVars == <<pc, taken, erred>>
clientVars == <<issued, wire, inValue, astray, answered, dropped>>
vars == <<redisVars, workerVars, clientVars, drifted, unpopped>>

\* A reply is the number of its command with its parts: -1 for nil, a length
\* followed by nothing, or a length and a value, which may arrive one by one.
Part == Nat \X {"nil", "empty", "length", "value"}

TypeOK ==
  /\ hset \in [Key -> Nat \cup {None}]
  /\ size \in Int
  /\ zset \in SUBSET Key
  /\ scripts \in BOOLEAN
  /\ pc \in [Container -> {"ready", "zadd", "hset", "incr", "pop", "gone"}]
  /\ taken \in [Container -> Nat]
  /\ \A c \in Container : Len(answered[c]) <= Len(issued[c]) /\ taken[c] <= Len(issued[c])
  /\ \A c \in Container \ astray : Len(answered[c]) <= taken[c]
  /\ erred \in SUBSET Container
  /\ issued \in [Container -> Seq(Command)]
  /\ wire \in [Container -> Seq(Part)]
  /\ inValue \in SUBSET Container /\ astray \in SUBSET Container
  /\ dropped \in SUBSET Container
  /\ answered \in [Container -> Seq(Nat)]
  /\ drifted \in BOOLEAN
  /\ unpopped \in Nat

Init ==
  /\ hset = [k \in Key |-> None] /\ size = 0 /\ zset = {} /\ scripts = TRUE
  /\ pc = [c \in Container |-> "ready"]
  /\ taken = [c \in Container |-> 0] /\ erred = {}
  /\ issued = [c \in Container |-> <<>>]
  /\ wire = [c \in Container |-> <<>>]
  /\ inValue = {} /\ astray = {} /\ answered = [c \in Container |-> <<>>]
  /\ drifted = FALSE /\ unpopped = 0 /\ dropped = {}

-----------------------------------------------------------------------------
(* Helpers *)

\* HSTRLEN
StrLen(k) == IF hset[k] = None THEN 0 ELSE hset[k]
Stored == {k \in Key : hset[k] # None}

current(c) == issued[c][taken[c]]

\* Containers that have subtracted the length of k's value and not yet stored
\* the new one.
Replacing(k) ==
  {c \in Container : pc[c] \in {"zadd", "hset"} /\ current(c).key = k}

\* What a SET on its way will still add to size, beyond what it does to hset.
Owed(c) ==
  CASE pc[c] \in {"zadd", "hset"} -> StrLen(current(c).key)
    [] pc[c] = "incr" -> current(c).len
    [] OTHER -> 0

\* Mutant: a nil is followed by a reply without data.
Reply_Twice(c, n, len) ==
  wire' = [wire EXCEPT ![c] = @ \o
    CASE len = None -> << <<n, "nil">>, <<n, "empty">> >>
      [] len = 0    -> << <<n, "empty">> >>
      [] OTHER      -> << <<n, "length">>, <<n, "value">> >>]

\* Mutant: there is no reply without data.
Reply_Data(c, n, len) ==
  wire' = [wire EXCEPT ![c] = @ \o
    CASE len = None -> <<>>
      [] len = 0    -> << <<n, "empty">> >>
      [] OTHER      -> << <<n, "length">>, <<n, "value">> >>]

\* send, in answer to the n-th command
Reply(c, n, len) ==
  wire' = [wire EXCEPT ![c] = @ \o
    CASE len = None -> << <<n, "nil">> >>
      [] len = 0    -> << <<n, "empty">> >>
      [] OTHER      -> << <<n, "length">>, <<n, "value">> >>]

-----------------------------------------------------------------------------
(* The wrapper *)

\* _sendCommand: scripts do not wait for the answer to one command before they
\* issue the next.
SendCommand(c) ==
  /\ Len(issued[c]) < Len(Commands[c])
  /\ \E command \in Commands[c][Len(issued[c]) + 1] :
       issued' = [issued EXCEPT ![c] = Append(@, command)]
  /\ UNCHANGED <<redisVars, workerVars, wire, inValue, astray, answered, dropped, drifted,
                 unpopped>>

\* Of a chunk of data, what _socketData does not ignore: it returns after a nil.
Read(chunk) ==
  LET nils == {i \in DOMAIN chunk : chunk[i][2] = "nil"}
  IN  IF nils = {} THEN chunk ELSE SubSeq(chunk, 1, Min(nils))

\* Mutant: a reply counts as complete before all of its value has arrived.
Complete_Early(read) == [n \in DOMAIN read |-> read[n][1]]

\* The replies that these parts complete.
Complete(read) ==
  LET upTo[n \in 0..Len(read)] ==
        IF n = 0 THEN <<>>
        ELSE IF read[n][2] = "length" THEN upTo[n - 1] ELSE Append(upTo[n - 1], read[n][1])
  IN  upTo[Len(read)]

\* The wrapper is about to take bytes for a length that are none: those of a value
\* whose length it has ignored, or what another such mistake leaves of a stream.
Misread(c) == c \in astray \/ (Head(wire[c])[2] = "value" /\ c \notin inValue)

\* _socketData and _processResponse, with a chunk that does not end in a length.
SocketData(c) ==
  /\ wire[c] # <<>> /\ ~Misread(c)
  /\ \E n \in DOMAIN wire[c] :
       LET chunk == SubSeq(wire[c], 1, n)
           read  == Read(chunk)
       IN  /\ wire' = [wire EXCEPT ![c] = SubSeq(@, n + 1, Len(@))]
           /\ answered' = [answered EXCEPT ![c] = @ \o Complete(read)]
           /\ inValue' = IF read[Len(read)][2] = "length"
                         THEN inValue \cup {c} ELSE inValue \ {c}
           /\ dropped' = IF read # chunk THEN dropped \cup {c} ELSE dropped
  /\ UNCHANGED <<redisVars, workerVars, issued, astray, drifted, unpopped>>

\* With a chunk that ends in a length: the replies before that are processed,
\* then readInt32LE fails and the bytes that have arrived of it are lost.  (In a
\* sync container the exception becomes the script's, and the wrapper goes on; in
\* an async one the wrapper ends, and with it the stream, as in Cut.)
SplitLength(c) ==
  /\ "split" \in Events
  /\ wire[c] # <<>> /\ ~Misread(c)
  /\ \E n \in DOMAIN wire[c] :
       LET chunk == SubSeq(wire[c], 1, n - 1)
       IN  /\ wire[c][n][2] # "value"
           /\ wire' = [wire EXCEPT ![c] = SubSeq(@, n, Len(@))]
           /\ answered' = [answered EXCEPT ![c] = @ \o Complete(Read(chunk))]
  /\ inValue' = inValue \ {c} /\ astray' = astray \cup {c} /\ dropped' = dropped \cup {c}
  /\ UNCHANGED <<redisVars, workerVars, issued, drifted, unpopped>>

\* What _socketData takes for a length may be anything: it waits for more bytes, or
\* fails again, or calls promises with bytes that are no reply, written as 0.
ReadAstray(c) ==
  /\ wire[c] # <<>> /\ Misread(c)
  /\ \E n \in DOMAIN wire[c] : wire' = [wire EXCEPT ![c] = SubSeq(@, n + 1, Len(@))]
  /\ \E n \in 0..(Len(issued[c]) - Len(answered[c])) :
       answered' = [answered EXCEPT ![c] = @ \o [i \in 1..n |-> 0]]
  /\ inValue' = inValue \ {c} /\ astray' = astray \cup {c} /\ dropped' = dropped \cup {c}
  /\ UNCHANGED <<redisVars, workerVars, issued, drifted, unpopped>>

-----------------------------------------------------------------------------
(* Process *)

Takes(c, op) ==
  /\ pc[c] = "ready" /\ taken[c] < Len(issued[c])
  /\ issued[c][taken[c] + 1].op = op
  /\ taken' = [taken EXCEPT ![c] = @ + 1]

\* readKey, readValue: Process ends.
Refuse(c) ==
  /\ "refuse" \in Events
  /\ \E op \in {"GET", "SET"} : Takes(c, op)
  /\ pc' = [pc EXCEPT ![c] = "gone"]
  /\ UNCHANGED <<redisVars, erred, clientVars, drifted, unpopped>>

\* processGET.  Its pipeline changes only the score of a key that is in zset, and
\* the time that hset and zset have left.
Get(c) ==
  /\ Takes(c, "GET")
  /\ Reply(c, taken'[c], hset[issued[c][taken'[c]].key])
  /\ UNCHANGED <<redisVars, pc, erred, issued, inValue, astray, answered, dropped, drifted,
                 unpopped>>

\* Mutant: the old value stays counted.
DecrSize_Kept(c) ==
  /\ Takes(c, "SET")
  /\ erred' = IF scripts THEN erred ELSE erred \cup {c}
  /\ pc' = [pc EXCEPT ![c] = "zadd"]
  /\ UNCHANGED <<redisVars, clientVars, drifted, unpopped>>

\* processSET, redisDecrSizeScript.  Without it the rest of the pipeline runs all
\* the same.  Two SETs of a key can subtract the length of the same value.
DecrSize(c) ==
  /\ Takes(c, "SET")
  /\ LET k == issued[c][taken'[c]].key
     IN  /\ size' = IF scripts THEN size - StrLen(k) ELSE size
         /\ drifted' = (drifted \/ Replacing(k) # {} \/ (~scripts /\ StrLen(k) > 0))
  /\ erred' = IF scripts THEN erred ELSE erred \cup {c}
  /\ pc' = [pc EXCEPT ![c] = "zadd"]
  /\ UNCHANGED <<hset, zset, scripts, clientVars, unpopped>>

ZAdd(c) ==
  /\ pc[c] = "zadd"
  /\ zset' = zset \cup {current(c).key}
  /\ pc' = [pc EXCEPT ![c] = "hset"]
  /\ UNCHANGED <<hset, size, scripts, taken, erred, clientVars, drifted, unpopped>>

HSet(c) ==
  /\ pc[c] = "hset"
  /\ hset' = [hset EXCEPT ![current(c).key] = current(c).len]
  /\ pc' = [pc EXCEPT ![c] = "incr"]
  /\ UNCHANGED <<size, zset, scripts, taken, erred, clientVars, drifted, unpopped>>

\* HINCRBY, and EXPIRE of both.  An error of the pipeline ends Process.
HIncrBy(c) ==
  /\ pc[c] = "incr"
  /\ size' = size + current(c).len
  /\ pc' = [pc EXCEPT ![c] = IF c \in erred THEN "gone" ELSE "pop"]
  /\ unpopped' = IF c \in erred THEN unpopped + 1 ELSE unpopped
  /\ UNCHANGED <<hset, zset, scripts, taken, erred, clientVars, drifted>>

\* Mutant: the list may have one key more.
Full_Late == size > SizeLimit \/ Cardinality(zset) > CardinalityLimit + 1

Full == size > SizeLimit \/ Cardinality(zset) > CardinalityLimit

\* redisPopCacheScript.  Beyond a limit it pops a key, and then fails: Lua counts
\* from one, so ele[0] is nil and no string to call HSTRLEN with.  What Redis has
\* done stays done.  Otherwise the reply is "OK".
Pop(c) ==
  /\ pc[c] = "pop" /\ scripts
  /\ IF Full
     THEN /\ IF zset = {} THEN zset' = {} ELSE \E k \in zset : zset' = zset \ {k}
          /\ pc' = [pc EXCEPT ![c] = "gone"]
          /\ UNCHANGED wire
     ELSE /\ Reply(c, taken[c], 2)
          /\ pc' = [pc EXCEPT ![c] = "ready"]
          /\ UNCHANGED zset
  /\ UNCHANGED <<hset, size, scripts, taken, erred, issued, inValue, astray, answered,
                 dropped, drifted, unpopped>>

\* The pop script is not there: EvalSha fails, Process ends.
NoPop(c) ==
  /\ pc[c] = "pop" /\ ~scripts
  /\ pc' = [pc EXCEPT ![c] = "gone"]
  /\ unpopped' = unpopped + 1
  /\ UNCHANGED <<redisVars, taken, erred, clientVars, drifted>>

\* The connection to Redis breaks, and a pipeline with it, at any of its commands;
\* the stream ends; or the worker dies.
Cut(c) ==
  /\ "cut" \in Events /\ pc[c] # "gone"
  /\ pc' = [pc EXCEPT ![c] = "gone"]
  /\ drifted' = (drifted \/ Owed(c) # 0)
  /\ unpopped' = IF pc[c] \in {"hset", "incr", "pop"} THEN unpopped + 1 ELSE unpopped
  /\ UNCHANGED <<redisVars, taken, erred, clientVars>>

-----------------------------------------------------------------------------
(* Redis *)

\* The keys are gone.  A SET that has stored its value counts it all the same,
\* and of two that replace the same value one counts it too often.
Lose ==
  /\ hset' = [k \in Key |-> None] /\ size' = 0
  /\ drifted' = \/ \E c \in Container : pc[c] = "incr"
                \/ \E k \in Key : Cardinality(Replacing(k)) > 1

\* zset has been given its time after hset.
Expire ==
  /\ "expire" \in Events /\ Stored # {}
  /\ Lose
  /\ zset' \in {zset, {}}
  /\ UNCHANGED <<scripts, workerVars, clientVars, unpopped>>

Restart ==
  /\ "restart" \in Events /\ scripts
  /\ scripts' = FALSE
  /\ \/ Lose /\ zset' = {}
     \/ UNCHANGED <<hset, size, zset, drifted>>
  /\ UNCHANGED <<workerVars, clientVars, unpopped>>

-----------------------------------------------------------------------------
(* Specification *)

ProcessStep(c) ==
  \/ Get(c) \/ DecrSize(c) \/ ZAdd(c) \/ HSet(c) \/ HIncrBy(c) \/ Pop(c) \/ NoPop(c)

Next ==
  \/ \E c \in Container :
       \/ SendCommand(c) \/ SocketData(c) \/ SplitLength(c) \/ ReadAstray(c)
       \/ ProcessStep(c) \/ Refuse(c) \/ Cut(c)
  \/ Expire \/ Restart

Spec == Init /\ [][Next]_vars

\* Process and the event loop of the wrapper go on while they can.
FairSpec ==
  /\ Spec
  /\ \A c \in Container :
       WF_vars(ProcessStep(c)) /\ WF_vars(SocketData(c)) /\ WF_vars(ReadAstray(c))

-----------------------------------------------------------------------------
(* Properties *)

\* One unit for each byte of the values, and for each that a SET will still add.
StoredBytes == UNION {{k} \X (1..StrLen(k)) : k \in Key}
OwedBytes == UNION {{c} \X (1..Owed(c)) : c \in Container}

\* The recorded size, by which values would be evicted, is that of the values but
\* for what the SETs on their way still have to add, however their commands are
\* mixed; unless SETs of one key overlap, a pipeline is cut, or the values are
\* lost under a SET.
SizeAccounted ==
  ~drifted => size + Cardinality(OwedBytes) = Cardinality(StoredBytes)

\* The list of what can be evicted does not outgrow its limit by more than the
\* SETs that have yet to pop, or have ended before they could.
ListBounded ==
  Cardinality(zset) <=
    CardinalityLimit + unpopped
      + Cardinality({c \in Container : pc[c] \in {"hset", "incr", "pop"}})

\* A promise gets the reply to its own command, however replies are cut into
\* chunks, unless one was dropped behind a nil or a chunk has ended in a length.
OwnReply ==
  \A c \in Container \ dropped : \A i \in DOMAIN answered[c] : answered[c][i] = i

\* Every command is answered, unless its stream has ended, which deletes the
\* container, or a reply was dropped behind a nil, or a chunk has ended in a length.
Answered ==
  \A c \in Container :
    Len(answered[c]) < Len(issued[c]) ~>
      \/ Len(answered[c]) = Len(issued[c])
      \/ pc[c] = "gone" \/ c \in dropped

=============================================================================
