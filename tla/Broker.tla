------------------------------- MODULE Broker -------------------------------
(***************************************************************************)
(* The broker (app/broker/server.go, uwsgi.go; cmd/broker.go).  A run, one *)
(* goroutine, sees to it that the load balancer has the files of its       *)
(* script, sends the script there, and turns the answer into a trace for   *)
(* the database, a Celery task in RabbitMQ, and a response for its caller. *)
(*                                                                         *)
(* Runs that need the same files wait for the one that uploads them: this  *)
(* is the uploads map.  The file repository of the load balancer is        *)
(* RepoStore, the channel to RabbitMQ is AmqpChannel; of the load balancer *)
(* only the outcomes of its calls are here (LoadBalancer has the rest).    *)
(***************************************************************************)
EXTENDS Naturals, Sequences, AmqpChannel

CONSTANTS
  Run,     \* requests
  Key,     \* hashes of the source code and of environments
  Kind,    \* [Run -> "uwsgi", "sync" or "async"]: who asks, and whether it waits
  Needs,   \* [Run -> the sequence of the keys it needs]
  LBRetry, \* attempts to send a run
  Events,  \* what the environment may do, a subset of AllEvents
  None

AllEvents ==
  {"download",  \* a file cannot be downloaded
   "evict",     \* the repository drops a key
   "network",   \* a call of the load balancer fails
   "stop"}      \* the broker is told to stop

ASSUME BrokerAssumption ==
  /\ Kind \in [Run -> {"uwsgi", "sync", "async"}]
  /\ Needs \in [Run -> Seq(Key)] /\ \A r \in Run : Needs[r] # <<>>
  /\ LBRetry \in Nat \ {0}
  /\ Events \subseteq AllEvents
  /\ None \notin Run \cup Key

VARIABLES
  pc,        \* [Run -> where the run is]
  attempt,   \* [Run -> the number of its attempt to send]
  file,      \* [Run -> the index in Needs of the key it is at]
  failed,    \* runs whose present upload has failed
  uploads,   \* [Key -> the run that has put its doneCh there, or None]
  waitsFor,  \* [Run -> the run whose doneCh it waits for, or None]
  phase,     \* of the command: "up", "drain", "down", "exit"
  served, stage, subject,  \* the repository, RepoStore
  evicted,   \* history: keys that the repository has dropped
  misled     \* history: runs that waited for an upload that failed

\* A run has a stream for each upload: it can stay open while the next one runs.
Stream == Run \X (1..LBRetry) \X Key
Repo == INSTANCE RepoStore WITH Uploader <- Stream

repoVars == <<served, stage, subject, evicted>>
runVars  == <<attempt, file, failed, uploads, waitsFor, misled>>
vars == <<amqpVars, repoVars, runVars, pc, phase>>

Labels ==
  {"idle", "payload", "exists", "enter", "wait", "ask", "send", "recheck",
   "close", "forget", "run", "failed", "chunks", "update", "recv", "chunk", "save",
   "end"}

TypeOK ==
  /\ AmqpTypeOK
  /\ pc \in [Run -> Labels]
  /\ attempt \in [Run -> 1..LBRetry]
  /\ file \in [Run -> Nat \ {0}]
  /\ \A r \in Run : file[r] <= Len(Needs[r])
  /\ failed \in SUBSET Run /\ misled \in SUBSET Run
  /\ uploads \in [Key -> Run \cup {None}]
  /\ waitsFor \in [Run -> Run \cup {None}]
  /\ \A r \in Run : pc[r] = "wait" <=> waitsFor[r] # None
  /\ phase \in {"up", "drain", "down", "exit"}
  /\ served \in SUBSET Key /\ evicted \in SUBSET Key
  /\ stage \in [Stream -> {"idle", "asked", "accepted"}]
  /\ subject \in [Stream -> Key \cup {None}]

Init ==
  /\ AmqpInit
  /\ Repo!StoreInit
  /\ pc = [r \in Run |-> "idle"]
  /\ attempt = [r \in Run |-> 1] /\ file = [r \in Run |-> 1]
  /\ failed = {} /\ misled = {} /\ evicted = {}
  /\ uploads = [k \in Key |-> None] /\ waitsFor = [r \in Run |-> None]
  /\ phase = "up"

Alive == phase # "exit" /\ ~panicked

At(r, label) == Alive /\ pc[r] = label
Goto(r, label) == pc' = [pc EXCEPT ![r] = label]

key(r) == Needs[r][file[r]]
stream(r) == <<r, attempt[r], key(r)>>

\* A call of the load balancer may fail, for the network or because the context
\* of the run is done (MaxTimeout), and it does fail when Shutdown has closed the
\* connection.
MayFail == "network" \in Events \/ phase = "down"
Works == phase # "down"

-----------------------------------------------------------------------------
(* Requests *)

\* RunHandler, Run or SimpleRun.  A gRPC run that ends before its metadata are
\* complete does nothing.
Start(r) ==
  /\ At(r, "idle")
  /\ phase = "up" \/ (phase = "drain" /\ Kind[r] # "uwsgi")
  /\ Goto(r, IF Kind[r] = "uwsgi" THEN "payload" ELSE "exists")
  /\ UNCHANGED <<amqpVars, repoVars, runVars, phase>>

\* loadPayload and the cache; or there is no payload, it can not be parsed, or
\* Redis has the response.
LoadPayload(r) ==
  /\ At(r, "payload")
  /\ Goto(r, "exists") \/ Goto(r, "end")
  /\ UNCHANGED <<amqpVars, repoVars, runVars, phase>>

-----------------------------------------------------------------------------
(* uploadFiles *)

NextFile_OffByOne(r) ==
  IF file[r] <= Len(Needs[r])
  THEN file' = [file EXCEPT ![r] = @ + 1] /\ Goto(r, "exists")
  ELSE Goto(r, "run") /\ UNCHANGED file

\* The files of a key are there: on to the next key, or to the run itself.
NextFile(r) ==
  IF file[r] < Len(Needs[r])
  THEN file' = [file EXCEPT ![r] = @ + 1] /\ Goto(r, "exists")
  ELSE Goto(r, "run") /\ UNCHANGED file

Exists(r) ==
  /\ At(r, "exists")
  /\ \/ Works /\ key(r) \in served /\ NextFile(r)
     \/ Works /\ key(r) \notin served /\ Goto(r, "enter") /\ UNCHANGED file
     \/ MayFail /\ Goto(r, "failed") /\ UNCHANGED file
  /\ UNCHANGED <<amqpVars, repoVars, attempt, failed, uploads, waitsFor, misled, phase>>

\* doneCh is closed before its entry is deleted.
Closed(r) == pc[r] = "forget"

Enter_Overtakes(r) ==
  /\ At(r, "enter")
  /\ uploads' = [uploads EXCEPT ![key(r)] = r]
  /\ Goto(r, "ask")
  /\ UNCHANGED <<amqpVars, repoVars, attempt, file, failed, waitsFor, misled, phase>>

\* Under mu: wait for the upload that is under way, or begin one.
Enter(r) ==
  LET k == key(r) other == uploads[k] IN
  /\ At(r, "enter")
  /\ IF other = None
     THEN /\ uploads' = [uploads EXCEPT ![k] = r]
          /\ Goto(r, "ask")
          /\ UNCHANGED <<file, waitsFor, misled>>
     ELSE /\ IF Closed(other)
             THEN /\ NextFile(r) /\ UNCHANGED waitsFor
                  /\ misled' = IF other \in failed THEN misled \cup {r} ELSE misled
             ELSE /\ Goto(r, "wait") /\ UNCHANGED <<file, misled>>
                  /\ waitsFor' = [waitsFor EXCEPT ![r] = other]
          /\ UNCHANGED uploads
  /\ UNCHANGED <<amqpVars, repoVars, attempt, failed, phase>>

\* The upload is over: whoever waits is woken, after close(doneCh).
UploadEnds(r, ok) ==
  /\ Goto(r, "close")
  /\ failed' = IF ok THEN failed \ {r} ELSE failed \cup {r}

\* Upload, and the metadata.  Metadata that cannot be sent are an error of
\* uploadChunks already, after which the repository is asked again.
Ask(r) ==
  /\ At(r, "ask")
  /\ \/ Works /\ Repo!Ask(stream(r), key(r)) /\ Goto(r, "send") /\ UNCHANGED failed
     \/ MayFail /\ UploadEnds(r, FALSE) /\ UNCHANGED <<served, stage, subject>>
     \/ MayFail /\ Goto(r, "recheck") /\ UNCHANGED <<failed, served, stage, subject>>
  /\ UNCHANGED <<amqpVars, evicted, attempt, file, uploads, waitsFor, misled, phase>>

\* uploadChunks fails.  The stream stays open when the reason is a file that can
\* not be downloaded.
SendFails(r) ==
  /\ At(r, "send") /\ Goto(r, "recheck")
  /\ \/ /\ "download" \in Events /\ stage[stream(r)] = "accepted"
        /\ UNCHANGED <<served, stage, subject>>
     \/ MayFail /\ stage[stream(r)] = "accepted" /\ Repo!Fail(stream(r))
     \/ MayFail /\ stage[stream(r)] # "accepted" /\ UNCHANGED <<served, stage, subject>>
  /\ UNCHANGED <<amqpVars, evicted, runVars, phase>>

\* The upload is rejected.
Rejected(r) ==
  /\ At(r, "send") /\ Works
  /\ Repo!Reject(stream(r))
  /\ UploadEnds(r, TRUE)
  /\ UNCHANGED <<amqpVars, evicted, attempt, file, uploads, waitsFor, misled, phase>>

\* The repository has all the files.  Its confirmation may be lost.
Uploaded(r) ==
  /\ At(r, "send") /\ Works
  /\ Repo!Commit(stream(r))
  /\ evicted' = evicted \cup (served \ served')
  /\ \/ UploadEnds(r, TRUE)
     \/ MayFail /\ Goto(r, "recheck") /\ UNCHANGED failed
  /\ UNCHANGED <<amqpVars, attempt, file, uploads, waitsFor, misled, phase>>

Recheck_Hopes(r) ==
  /\ At(r, "recheck")
  /\ UploadEnds(r, TRUE)
  /\ UNCHANGED <<amqpVars, repoVars, attempt, file, uploads, waitsFor, misled, phase>>

Recheck(r) ==
  /\ At(r, "recheck")
  /\ \/ Works /\ UploadEnds(r, key(r) \in served)
     \/ MayFail /\ UploadEnds(r, FALSE)
  /\ UNCHANGED <<amqpVars, repoVars, attempt, file, uploads, waitsFor, misled, phase>>

WaitsFor(r) == {w \in Run : waitsFor[w] = r}

CloseDone_Silent(r) ==
  /\ At(r, "close") /\ Goto(r, "forget")
  /\ UNCHANGED <<amqpVars, repoVars, runVars, phase>>

\* close(doneCh): those who wait go on, whatever became of the upload.
CloseDone(r) ==
  LET W == WaitsFor(r) IN
  /\ At(r, "close")
  /\ pc' = [x \in Run |-> IF x = r THEN "forget"
                          ELSE IF x \notin W THEN pc[x]
                          ELSE IF file[x] < Len(Needs[x]) THEN "exists" ELSE "run"]
  /\ file' = [x \in Run |-> IF x \in W /\ file[x] < Len(Needs[x]) THEN file[x] + 1 ELSE file[x]]
  /\ waitsFor' = [x \in Run |-> IF x \in W THEN None ELSE waitsFor[x]]
  /\ misled' = IF r \in failed THEN misled \cup W ELSE misled
  /\ UNCHANGED <<amqpVars, repoVars, attempt, failed, uploads, phase>>

\* delete(s.uploads, uploadKey)
ForgetUpload(r) ==
  /\ At(r, "forget")
  /\ uploads' = [uploads EXCEPT ![key(r)] = None]
  /\ IF r \in failed THEN Goto(r, "failed") /\ UNCHANGED file ELSE NextFile(r)
  /\ failed' = failed \ {r}
  /\ UNCHANGED <<amqpVars, repoVars, attempt, waitsFor, misled, phase>>

-----------------------------------------------------------------------------
(* sendRunToLoadbalancer *)

\* lbCli.Run and the metadata.
SendRun(r) ==
  /\ At(r, "run")
  /\ \/ Works /\ Goto(r, "chunks")
     \/ MayFail /\ Goto(r, "failed")
  /\ UNCHANGED <<amqpVars, repoVars, runVars, phase>>

\* RetryNotCancelled: another attempt, unless the context is done.
Retry(r) ==
  /\ At(r, "failed")
  /\ \/ /\ attempt[r] < LBRetry
        /\ attempt' = [attempt EXCEPT ![r] = @ + 1]
        /\ file' = [file EXCEPT ![r] = 1]
        /\ Goto(r, "exists")
     \/ /\ attempt[r] = LBRetry \/ MayFail
        /\ Goto(r, "end")
        /\ UNCHANGED <<attempt, file>>
  /\ UNCHANGED <<amqpVars, repoVars, failed, uploads, waitsFor, misled, phase>>

\* The rest of the script, from the caller.
SendChunks(r) ==
  /\ At(r, "chunks")
  /\ \/ Works /\ Goto(r, "update")
     \/ MayFail /\ Goto(r, "end")
  /\ UNCHANGED <<amqpVars, repoVars, runVars, phase>>

\* updateTrace, whose error is only logged.  Every run has a trace here.
UpdateTrace(r) ==
  /\ At(r, "update") /\ Goto(r, "recv")
  /\ Publish
  /\ UNCHANGED <<repoVars, runVars, phase>>

-----------------------------------------------------------------------------
(* processResponse *)

\* The caller of an async run has had its answer; it is no handler any more.
Background(r) == Kind[r] = "async" /\ pc[r] \in {"recv", "chunk", "save"}

\* The first chunk; without it the trace is a blocked one.
Receive(r) ==
  /\ At(r, "recv")
  /\ \/ Works /\ Goto(r, "chunk")
     \/ MayFail /\ Goto(r, "save")
  /\ UNCHANGED <<amqpVars, repoVars, runVars, phase>>

\* More chunks, until EOF or an error: the trace is a result all the same.
ReceiveChunks(r) ==
  /\ At(r, "chunk") /\ Goto(r, "save")
  /\ UNCHANGED <<amqpVars, repoVars, runVars, phase>>

\* saveTrace, whose error is only logged, and the answer.  cancel ends the
\* streams of the run.
SaveTrace(r) ==
  /\ At(r, "save") /\ Goto(r, "end")
  /\ Publish
  /\ UNCHANGED <<repoVars, runVars, phase>>

-----------------------------------------------------------------------------
(* The repository *)

\* Whoever waits there gets the store lock.
RepoAccept(s) ==
  /\ Alive /\ Repo!Accept(s)
  /\ UNCHANGED <<amqpVars, evicted, runVars, pc, phase>>

\* The repository learns that the run has cancelled the stream, or lost it.
RepoFail(s) ==
  /\ pc[s[1]] = "end" \/ MayFail
  /\ ~(pc[s[1]] = "send" /\ stream(s[1]) = s)
  /\ Repo!Fail(s)
  /\ UNCHANGED <<amqpVars, evicted, runVars, pc, phase>>

RepoEvict(k) ==
  /\ "evict" \in Events /\ Repo!Evict(k)
  /\ evicted' = evicted \cup {k}
  /\ UNCHANGED <<amqpVars, runVars, pc, phase>>

-----------------------------------------------------------------------------
(* The command *)

Handled == {r \in Run : pc[r] \notin {"idle", "end"} /\ ~Background(r)}

\* SIGTERM: uwsgiServer.Shutdown and grpcServer.GracefulStop, which return once
\* their handlers have; then brokerServer.Shutdown and amqpChannel.Shutdown.
Drain ==
  /\ Alive /\ "stop" \in Events /\ phase = "up" /\ phase' = "drain"
  /\ UNCHANGED <<amqpVars, repoVars, runVars, pc>>

Shutdown ==
  /\ Alive /\ phase = "drain" /\ Handled = {} /\ phase' = "down"
  /\ UNCHANGED <<amqpVars, repoVars, runVars, pc>>

StopAmqp ==
  /\ Alive /\ phase = "down" /\ (Stop \/ StopClose)
  /\ UNCHANGED <<repoVars, runVars, pc, phase>>

Exit ==
  /\ Alive /\ phase = "down" /\ stopping = "done" /\ phase' = "exit"
  /\ UNCHANGED <<amqpVars, repoVars, runVars, pc>>

-----------------------------------------------------------------------------

UploadStep(r) ==
  \/ Exists(r) \/ Enter(r) \/ Ask(r) \/ SendFails(r) \/ Rejected(r) \/ Uploaded(r)
  \/ Recheck(r) \/ CloseDone(r) \/ ForgetUpload(r)

RunStep(r) ==
  \/ LoadPayload(r) \/ SendRun(r) \/ Retry(r) \/ SendChunks(r) \/ UpdateTrace(r)
  \/ Receive(r) \/ ReceiveChunks(r) \/ SaveTrace(r)

AmqpStep ==
  /\ Alive /\ (Outage \/ MonitorStep)
  /\ UNCHANGED <<repoVars, runVars, pc, phase>>

StreamStep(s) == RepoAccept(s) \/ RepoFail(s)

Command == Drain \/ Shutdown \/ StopAmqp \/ Exit

Next ==
  \/ \E r \in Run : Start(r) \/ UploadStep(r) \/ RunStep(r)
  \/ \E s \in Stream : StreamStep(s)
  \/ \E k \in Key : RepoEvict(k)
  \/ AmqpStep \/ Command

Spec == Init /\ [][Next]_vars

\* Goroutines run, calls return (by their contexts at the latest), the repository
\* answers, and RabbitMQ comes back in the end.
FairSpec ==
  /\ Spec
  /\ AmqpFairness
  /\ \A r \in Run : WF_vars(UploadStep(r)) /\ SF_vars(RunStep(r))
  /\ \A s \in Stream : WF_vars(RepoAccept(s))

-----------------------------------------------------------------------------
(* Properties *)

Uploading(r) == pc[r] \in {"ask", "send", "recheck", "close", "forget"}

\* A broker uploads a key once at a time: the entry of a key in uploads is that
\* of the one run that uploads it, and whoever waits, waits for a run that is
\* still to close its channel.
OneUpload ==
  /\ \A k \in Key, r \in Run : uploads[k] = r <=> Uploading(r) /\ key(r) = k
  /\ \A w \in Run : waitsFor[w] # None =>
       /\ Uploading(waitsFor[w]) /\ pc[waitsFor[w]] # "forget"
       /\ key(waitsFor[w]) = key(w)

\* A run goes to the load balancer when its files are there: they were uploaded,
\* found or stored by somebody else, unless the repository has dropped them since,
\* or the run has waited for an upload that failed.
SentWithSources ==
  \A r \in Run \ misled : pc[r] = "run" =>
    \A i \in 1..Len(Needs[r]) : Needs[r][i] \in served \cup evicted

\* Every run comes to an end, in which its uploads are no longer in anybody's way,
\* provided that RabbitMQ comes back; or the process does.
RunsEnd == \A r \in Run : pc[r] # "idle" ~> pc[r] = "end" \/ ~Alive

=============================================================================
