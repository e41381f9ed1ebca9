---------------------------- MODULE BrokerProofs ----------------------------
(***************************************************************************)
(* What holds of the broker for every number of runs, keys and attempts,   *)
(* and whatever the load balancer, RabbitMQ and the command may do.        *)
(***************************************************************************)
EXTENDS Broker, TLAPS

-----------------------------------------------------------------------------
(* The channel to RabbitMQ *)

\* Only the monitor sees the nil channel, with the mutex, while the broker runs.
NilHidden == running /\ ch = "nil" => monitor = "connect"

ChannelInv == RunningSafe /\ NilHidden /\ QueueKnown

\* The steps of the broker that the channel sees.
ChannelNext == Outage \/ MonitorStep \/ Publish \/ Stop \/ StopClose \/ UNCHANGED amqpVars

\* A step of the broker is one of the channel, or leaves it alone.
LEMMA ChannelSteps == [Next]_vars => ChannelNext
<1> SUFFICES ASSUME [Next]_vars PROVE ChannelNext
  OBVIOUS
<1> USE DEF ChannelNext
<1>1. ASSUME NEW r \in Run, Start(r) \/ UploadStep(r) PROVE ChannelNext
  BY <1>1 DEF Start, UploadStep, Exists, Enter, Ask, SendFails, Rejected, Uploaded,
              Recheck, CloseDone, ForgetUpload
<1>2. ASSUME NEW r \in Run, RunStep(r) PROVE ChannelNext
  BY <1>2 DEF RunStep, LoadPayload, SendRun, Retry, SendChunks, UpdateTrace, Receive,
              ReceiveChunks, SaveTrace
<1>3. ASSUME NEW s \in Stream, StreamStep(s) PROVE ChannelNext
  BY <1>3 DEF StreamStep, RepoAccept, RepoFail
<1>4. ASSUME NEW k \in Key, RepoEvict(k) PROVE ChannelNext
  BY <1>4 DEF RepoEvict
<1>5. CASE AmqpStep \/ Command
  BY <1>5 DEF AmqpStep, Command, Drain, Shutdown, StopAmqp, Exit
<1>6. CASE UNCHANGED vars
  BY <1>6 DEF vars
<1> QED
  BY <1>1, <1>2, <1>3, <1>4, <1>5, <1>6 DEF Next

\* The monitor, Publish and Shutdown keep ChannelInv.
LEMMA ChannelStep == ChannelInv /\ ChannelNext => ChannelInv'
<1> SUFFICES ASSUME ChannelInv, ChannelNext PROVE ChannelInv'
  OBVIOUS
<1> USE DEF ChannelInv, RunningSafe, NilHidden, QueueKnown
<1>1. CASE Outage
  BY <1>1 DEF Outage
<1>2. CASE MonitorStep
  <2>1. CASE Notify
    BY <2>1 DEF Notify
  <2>2. CASE Lost
    BY <2>2 DEF Lost
  <2>3. CASE Connected
    BY <2>3 DEF Connected
  <2>4. CASE CannotConnect
    BY <2>4 DEF CannotConnect
  <2>5. CASE GiveUp
    BY <2>5 DEF GiveUp
  <2> QED
    BY <1>2, <2>1, <2>2, <2>3, <2>4, <2>5 DEF MonitorStep
<1>3. CASE Publish
  <2>1. CASE PublishOk
    <3>1. queue'
      BY <2>1 DEF PublishOk
    <3> QED
      BY <2>1, <3>1 DEF PublishOk
  <2>2. CASE PublishError
    BY <2>2 DEF PublishError, amqpVars
  <2>3. CASE PublishPanics
    BY <2>3 DEF PublishPanics, MutexFree
  <2> QED
    BY <1>3, <2>1, <2>2, <2>3 DEF Publish
<1>4. CASE Stop
  BY <1>4 DEF Stop
<1>5. CASE StopClose
  BY <1>5 DEF StopClose, CloseChannel
<1>6. CASE UNCHANGED amqpVars
  BY <1>6 DEF amqpVars
<1> QED
  BY <1>1, <1>2, <1>3, <1>4, <1>5, <1>6 DEF ChannelNext

\* However outages, traces and the shutdown of the broker interleave, nobody uses
\* the nil channel before Shutdown (cmd/amqp/client.go).
THEOREM ChannelSafe == Spec => []RunningSafe
<1>1. Init => ChannelInv
  BY DEF Init, AmqpInit, ChannelInv, RunningSafe, NilHidden, QueueKnown
<1>2. ChannelInv /\ [Next]_vars => ChannelInv'
  BY ChannelSteps, ChannelStep
<1>3. ChannelInv => RunningSafe
  BY DEF ChannelInv
<1> QED
  BY <1>1, <1>2, <1>3, PTL DEF Spec

\* registeredQueues never names a queue that RabbitMQ has lost with the connection.
THEOREM QueuesKnown == Spec => []QueueKnown
<1>1. Init => ChannelInv
  BY DEF Init, AmqpInit, ChannelInv, RunningSafe, NilHidden, QueueKnown
<1>2. ChannelInv /\ [Next]_vars => ChannelInv'
  BY ChannelSteps, ChannelStep
<1>3. ChannelInv => QueueKnown
  BY DEF ChannelInv
<1> QED
  BY <1>1, <1>2, <1>3, PTL DEF Spec

-----------------------------------------------------------------------------
(* Types *)

\* The repository works on the key of the stream.
Subjects == \A s \in Stream : stage[s] # "idle" => subject[s] = s[3]

TypeInv == TypeOK /\ Subjects

\* A run has a key, and a stream for it.
LEMMA KeyType ==
  ASSUME TypeOK, NEW r \in Run
  PROVE  key(r) \in Key /\ stream(r) \in Stream /\ stream(r)[3] = key(r)
<1>1. Needs[r] \in Seq(Key) /\ file[r] \in 1..Len(Needs[r])
  BY BrokerAssumption DEF TypeOK
<1>2. key(r) \in Key
  BY <1>1 DEF key
<1> QED
  BY <1>2 DEF TypeOK, stream, Stream

\* The channel keeps its types (cmd/amqp/client.go).
LEMMA ChannelType == AmqpTypeOK /\ ChannelNext => AmqpTypeOK'
<1> SUFFICES ASSUME AmqpTypeOK, ChannelNext PROVE AmqpTypeOK'
  OBVIOUS
<1> USE DEF AmqpTypeOK
<1>1. CASE Outage
  BY <1>1 DEF Outage
<1>2. CASE MonitorStep
  <2>1. CASE Notify
    BY <2>1 DEF Notify
  <2>2. CASE Lost \/ Connected \/ CannotConnect \/ GiveUp
    BY <2>2 DEF Lost, Connected, CannotConnect, GiveUp
  <2> QED
    BY <1>2, <2>1, <2>2 DEF MonitorStep
<1>3. CASE Publish
  BY <1>3 DEF Publish, PublishOk, PublishError, PublishPanics, amqpVars
<1>4. CASE Stop
  BY <1>4 DEF Stop
<1>5. CASE StopClose
  BY <1>5 DEF StopClose, CloseChannel
<1>6. CASE UNCHANGED amqpVars
  BY <1>6 DEF amqpVars
<1> QED
  BY <1>1, <1>2, <1>3, <1>4, <1>5, <1>6 DEF ChannelNext

\* The rest of TypeInv.
OwnTypes ==
  /\ pc \in [Run -> Labels]
  /\ attempt \in [Run -> 1..LBRetry]
  /\ file \in [Run -> Nat \ {0}]
  /\ \A r \in Run : file[r] <= Len(Needs[r])
  /\ failed \in SUBSET Run /\ misled \in SUBSET Run
  /\ uploads \in [Key -> Run \cup {None}]
  /\ waitsFor \in [Run -> Run \cup {None}]
  /\ \A r \in Run : pc[r] = "wait" <=> waitsFor[r] # None
  /\ phase \in {"up", "drain", "down", "exit"}

RepoTypes ==
  /\ served \in SUBSET Key /\ evicted \in SUBSET Key
  /\ stage \in [Stream -> {"idle", "asked", "accepted"}]
  /\ subject \in [Stream -> Key \cup {None}]
  /\ Subjects

\* What the constants are good for.
LEMMA Constants ==
  /\ \A r \in Run : Len(Needs[r]) \in Nat /\ 1 <= Len(Needs[r])
  /\ LBRetry \in Nat /\ 1 <= LBRetry
  /\ None \notin Run /\ None \notin Key
  BY BrokerAssumption

\* Where a run can go without having waited.
LEMMA Goes ==
  ASSUME TypeInv, NEW r \in Run, NEW label \in Labels \ {"wait"},
         pc[r] # "wait", Goto(r, label)
  PROVE  /\ pc' \in [Run -> Labels]
         /\ \A x \in Run : pc'[x] = "wait" <=> pc[x] = "wait"
  BY DEF TypeInv, TypeOK, Goto

\* The next key, if there is one.
LEMMA FileNext ==
  ASSUME TypeInv, NEW r \in Run, pc[r] # "wait", NextFile(r)
  PROVE  /\ file' \in [Run -> Nat \ {0}]
         /\ \A x \in Run : file'[x] <= Len(Needs[x])
         /\ pc' \in [Run -> Labels]
         /\ \A x \in Run : pc'[x] = "wait" <=> pc[x] = "wait"
<1>1. {"exists", "run"} \subseteq Labels \ {"wait"}
  BY DEF Labels
<1>2. Goto(r, "exists") \/ Goto(r, "run")
  BY DEF NextFile
<1>3. file' \in [Run -> Nat \ {0}] /\ \A x \in Run : file'[x] <= Len(Needs[x])
  <2>1. CASE file[r] < Len(Needs[r])
    <3>1. file' = [file EXCEPT ![r] = file[r] + 1]
      BY <2>1 DEF NextFile
    <3>2. file \in [Run -> Nat \ {0}] /\ \A x \in Run : file[x] <= Len(Needs[x])
      BY DEF TypeInv, TypeOK
    <3>3. file[r] + 1 \in Nat \ {0} /\ file[r] + 1 <= Len(Needs[r])
      BY <2>1, <3>2, Constants
    <3> QED
      BY <3>1, <3>2, <3>3
  <2>2. CASE ~(file[r] < Len(Needs[r]))
    BY <2>2 DEF NextFile, TypeInv, TypeOK
  <2> QED
    BY <2>1, <2>2
<1> QED
  BY <1>1, <1>2, <1>3, Goes

\* The steps of an upload keep the types of the run.
LEMMA UploadOwn ==
  ASSUME TypeInv, NEW r \in Run, UploadStep(r)
  PROVE  OwnTypes'
<1>0. {"enter", "ask", "send", "recheck", "close", "forget", "failed"}
        \subseteq Labels \ {"wait"}
  BY DEF Labels
<1>1. key(r) \in Key
  BY KeyType DEF TypeInv
<1> USE DEF TypeInv, TypeOK, OwnTypes, At
<1>2. CASE Exists(r)
  <2>1. CASE NextFile(r)
    BY <1>2, <2>1, FileNext DEF Exists
  <2>2. CASE (Goto(r, "enter") \/ Goto(r, "failed")) /\ UNCHANGED file
    BY <1>0, <1>2, <2>2, Goes DEF Exists
  <2> QED
    BY <1>2, <2>1, <2>2 DEF Exists
<1>3. CASE Enter(r)
  <2>1. CASE uploads[key(r)] = None
    BY <1>0, <1>1, <1>3, <2>1, Goes DEF Enter
  <2>2. CASE uploads[key(r)] # None /\ Closed(uploads[key(r)])
    BY <1>3, <2>2, FileNext DEF Enter
  <2>3. CASE uploads[key(r)] # None /\ ~Closed(uploads[key(r)])
    <3>1. uploads[key(r)] \in Run
      BY <1>1, <2>3
    <3> QED
      BY <1>3, <2>3, <3>1, Constants DEF Enter, Goto, Labels
  <2> QED
    BY <2>1, <2>2, <2>3
<1>4. CASE Ask(r)
  BY <1>0, <1>4, Goes DEF Ask, UploadEnds
<1>5. CASE SendFails(r)
  BY <1>0, <1>5, Goes DEF SendFails, runVars
<1>6. CASE Rejected(r)
  BY <1>0, <1>6, Goes DEF Rejected, UploadEnds
<1>7. CASE Uploaded(r)
  BY <1>0, <1>7, Goes DEF Uploaded, UploadEnds
<1>8. CASE Recheck(r)
  BY <1>0, <1>8, Goes DEF Recheck, UploadEnds
<1>9. CASE CloseDone(r)
  <2>1. /\ pc' \in [Run -> Labels] /\ waitsFor' \in [Run -> Run \cup {None}]
        /\ \A x \in Run : pc'[x] = "wait" <=> waitsFor'[x] # None
    BY <1>9, Constants DEF CloseDone, WaitsFor, Labels
  <2>2. file' \in [Run -> Nat \ {0}] /\ \A x \in Run : file'[x] <= Len(Needs[x])
    BY <1>9, Constants DEF CloseDone
  <2>3. misled' \in SUBSET Run
    BY <1>9 DEF CloseDone, WaitsFor
  <2> QED
    BY <1>9, <2>1, <2>2, <2>3 DEF CloseDone
<1>10. CASE ForgetUpload(r)
  <2>1. uploads' \in [Key -> Run \cup {None}] /\ failed' \in SUBSET Run
    BY <1>1, <1>10 DEF ForgetUpload
  <2>2. CASE NextFile(r)
    BY <1>10, <2>1, <2>2, FileNext DEF ForgetUpload
  <2>3. CASE Goto(r, "failed") /\ UNCHANGED file
    BY <1>0, <1>10, <2>1, <2>3, Goes DEF ForgetUpload
  <2> QED
    BY <1>10, <2>2, <2>3 DEF ForgetUpload
<1> QED
  BY <1>2, <1>3, <1>4, <1>5, <1>6, <1>7, <1>8, <1>9, <1>10 DEF UploadStep

\* They keep the types of the repository.
LEMMA UploadRepo ==
  ASSUME TypeInv, NEW r \in Run, UploadStep(r)
  PROVE  RepoTypes'
<1> USE Constants DEF TypeInv, TypeOK, RepoTypes, Subjects
<1>1. key(r) \in Key /\ stream(r) \in Stream /\ stream(r)[3] = key(r)
  BY KeyType
<1>2. CASE Exists(r) \/ Enter(r) \/ Recheck(r) \/ CloseDone(r) \/ ForgetUpload(r)
  BY <1>2 DEF Exists, Enter, Recheck, CloseDone, ForgetUpload, repoVars
<1>3. CASE Ask(r)
  <2>1. CASE UNCHANGED <<served, stage, subject>>
    BY <1>3, <2>1 DEF Ask
  <2>2. CASE Repo!Ask(stream(r), key(r))
    <3>1. /\ stage' = [stage EXCEPT ![stream(r)] = "asked"]
          /\ subject' = [subject EXCEPT ![stream(r)] = key(r)]
          /\ UNCHANGED <<served, evicted>>
      BY <1>3, <2>2 DEF Ask, Repo!Ask, Repo!Move
    <3> QED
      BY <1>1, <3>1
  <2> QED
    BY <1>3, <2>1, <2>2 DEF Ask
<1>4. CASE SendFails(r)
  BY <1>1, <1>4 DEF SendFails, Repo!Fail, Repo!Move
<1>5. CASE Rejected(r)
  BY <1>1, <1>5 DEF Rejected, Repo!Reject, Repo!Move
<1>6. CASE Uploaded(r)
  <2>1. stage[stream(r)] = "accepted" /\ subject[stream(r)] = key(r)
    BY <1>1, <1>6 DEF Uploaded, Repo!Commit, Repo!Move
  <2>2. served' \in SUBSET Key
    BY <1>1, <1>6, <2>1 DEF Uploaded, Repo!Commit
  <2>3. /\ stage' = [stage EXCEPT ![stream(r)] = "idle"]
        /\ subject' = [subject EXCEPT ![stream(r)] = None]
    BY <1>6 DEF Uploaded, Repo!Commit, Repo!Move
  <2>4. evicted' \in SUBSET Key
    BY <1>6 DEF Uploaded
  <2> QED
    BY <1>1, <2>2, <2>3, <2>4
<1> QED
  BY <1>2, <1>3, <1>4, <1>5, <1>6 DEF UploadStep

\* So do the other steps.
LEMMA OtherType ==
  ASSUME TypeInv, [Next]_vars, \A r \in Run : ~UploadStep(r)
  PROVE  OwnTypes' /\ RepoTypes'
<1>0. {"payload", "exists", "end", "chunks", "failed", "update", "recv", "chunk", "save"}
        \subseteq Labels \ {"wait"}
  BY DEF Labels
<1> USE DEF TypeInv, TypeOK, OwnTypes, RepoTypes, Subjects
<1>1. ASSUME NEW r \in Run, Start(r) PROVE OwnTypes' /\ RepoTypes'
  BY <1>0, <1>1, Goes DEF Start, At, repoVars, runVars
<1>2. ASSUME NEW r \in Run, RunStep(r) PROVE OwnTypes' /\ RepoTypes'
  <2>1. RepoTypes'
    BY <1>2 DEF RunStep, LoadPayload, SendRun, Retry, SendChunks, UpdateTrace, Receive,
                ReceiveChunks, SaveTrace, repoVars
  <2>2. CASE Retry(r)
    <3>1. /\ attempt' \in [Run -> 1..LBRetry] /\ file' \in [Run -> Nat \ {0}]
          /\ \A x \in Run : file'[x] <= Len(Needs[x])
      <4>1. \A x \in Run : 1 <= Len(Needs[x])
        BY Constants
      <4>2. CASE attempt[r] < LBRetry /\ attempt' = [attempt EXCEPT ![r] = @ + 1]
                   /\ file' = [file EXCEPT ![r] = 1]
        BY <4>1, <4>2, Constants
      <4> QED
        BY <2>2, <4>2 DEF Retry
    <3> QED
      BY <1>0, <2>1, <2>2, <3>1, Goes DEF Retry, At
  <2>3. CASE LoadPayload(r) \/ SendRun(r) \/ SendChunks(r) \/ UpdateTrace(r)
    BY <1>0, <2>1, <2>3, Goes DEF LoadPayload, SendRun, SendChunks, UpdateTrace, At, runVars
  <2>4. CASE Receive(r) \/ ReceiveChunks(r) \/ SaveTrace(r)
    BY <1>0, <2>1, <2>4, Goes DEF Receive, ReceiveChunks, SaveTrace, At, runVars
  <2> QED
    BY <1>2, <2>2, <2>3, <2>4 DEF RunStep
<1>3. ASSUME NEW s \in Stream, StreamStep(s) PROVE OwnTypes' /\ RepoTypes'
  <2>1. OwnTypes'
    BY <1>3 DEF StreamStep, RepoAccept, RepoFail, runVars
  <2>2. RepoTypes'
    BY <1>3 DEF StreamStep, RepoAccept, RepoFail, Repo!Accept, Repo!Fail, Repo!Move
  <2> QED
    BY <2>1, <2>2
<1>4. ASSUME NEW k \in Key, RepoEvict(k) PROVE OwnTypes' /\ RepoTypes'
  BY <1>4 DEF RepoEvict, Repo!Evict, runVars
<1>5. CASE AmqpStep \/ Command
  BY <1>5 DEF AmqpStep, Command, Drain, Shutdown, StopAmqp, Exit, repoVars, runVars
<1>6. CASE UNCHANGED vars
  BY <1>6 DEF vars, repoVars, runVars
<1> QED
  BY <1>1, <1>2, <1>3, <1>4, <1>5, <1>6 DEF Next

\* TypeInv, from one state to the next.
LEMMA TypeStep == TypeInv /\ [Next]_vars => TypeInv'
<1> SUFFICES ASSUME TypeInv, [Next]_vars PROVE TypeInv'
  OBVIOUS
<1>1. AmqpTypeOK'
  BY ChannelSteps, ChannelType DEF TypeInv, TypeOK
<1>2. OwnTypes' /\ RepoTypes'
  BY UploadOwn, UploadRepo, OtherType
<1> QED
  BY <1>1, <1>2 DEF TypeInv, TypeOK, OwnTypes, RepoTypes

\* A broker starts with its variables in their types (NewServer).
LEMMA TypeInit == Init => TypeInv
<1> SUFFICES ASSUME Init PROVE TypeInv
  OBVIOUS
<1>1. AmqpTypeOK
  BY DEF Init, AmqpInit, AmqpTypeOK
<1>2. OwnTypes
  BY Constants DEF Init, OwnTypes, Labels
<1>3. RepoTypes
  BY DEF Init, RepoTypes, Subjects, Repo!StoreInit
<1> QED
  BY <1>1, <1>2, <1>3 DEF TypeInv, TypeOK, OwnTypes, RepoTypes

\* TypeOK holds in every state of the broker (app/broker/server.go).
THEOREM TypeCorrect == Spec => []TypeOK
<1>1. TypeInv => TypeOK
  BY DEF TypeInv
<1> QED
  BY TypeInit, TypeStep, <1>1, PTL DEF Spec

-----------------------------------------------------------------------------
(* One upload at a time *)

UploadInv == TypeInv /\ OneUpload

\* The second half of OneUpload, of one run.
WaitsWell(w) ==
  /\ Uploading(waitsFor[w]) /\ pc[waitsFor[w]] # "forget"
  /\ key(waitsFor[w]) = key(w)

\* A run that goes from one place to another without beginning or ending an
\* upload, or closing its channel, leaves OneUpload alone.
LEMMA MovesOn ==
  ASSUME UploadInv, NEW r \in Run, NEW label, Goto(r, label),
         UNCHANGED <<uploads, waitsFor>>,
         \/ /\ ~Uploading(r) /\ pc[r] # "wait"
            /\ label \notin {"ask", "send", "recheck", "close", "forget"}
            /\ \A x \in Run \ {r} : file'[x] = file[x]
         \/ /\ Uploading(r)
            /\ label \in {"ask", "send", "recheck", "close"}
            /\ UNCHANGED file
  PROVE  OneUpload'
<1> USE DEF UploadInv, TypeInv, TypeOK, Goto
<1>1. \A x \in Run : Uploading(x)' = Uploading(x)
  BY DEF Uploading
<1>2. \A x \in Run : Uploading(x) \/ waitsFor[x] # None => key(x)' = key(x)
  BY DEF key, Uploading
<1>3. \A x \in Run : pc'[x] = "forget" => pc[x] = "forget"
  OBVIOUS
<1>4. \A w \in Run : waitsFor[w] # None => waitsFor[w] \in Run
  OBVIOUS
<1>5. \A k \in Key, x \in Run : uploads'[k] = x <=> Uploading(x)' /\ key(x)' = k
  BY <1>1, <1>2 DEF OneUpload
<1>6. ASSUME NEW w \in Run, waitsFor'[w] # None
      PROVE  WaitsWell(w)'
  <2>1. PICK x \in Run : /\ x = waitsFor[w] /\ Uploading(x) /\ pc[x] # "forget"
                         /\ key(x) = key(w)
    BY <1>4, <1>6 DEF OneUpload
  <2> QED
    BY <1>1, <1>2, <1>3, <1>6, <2>1 DEF WaitsWell, Uploading, key
<1> QED
  BY <1>5, <1>6 DEF OneUpload, WaitsWell

\* The next key, or the run itself, by a run that uploads nothing and does not wait.
LEMMA NextFileMoves ==
  ASSUME UploadInv, NEW r \in Run, NextFile(r), ~Uploading(r), pc[r] # "wait",
         UNCHANGED <<uploads, waitsFor>>
  PROVE  OneUpload'
<1>1. Goto(r, "exists") \/ Goto(r, "run")
  BY DEF NextFile
<1>2. \A x \in Run \ {r} : file'[x] = file[x]
  BY DEF NextFile, UploadInv, TypeInv, TypeOK
<1> QED
  BY <1>1, <1>2, MovesOn

\* An upload begins when none is under way; otherwise the run waits for it, or
\* goes on when its channel is closed.
LEMMA EnterKeeps ==
  ASSUME UploadInv, NEW r \in Run, Enter(r)
  PROVE  OneUpload'
<1> USE DEF UploadInv, TypeInv, TypeOK
<1>1. key(r) \in Key /\ pc[r] = "enter" /\ ~Uploading(r) /\ waitsFor[r] = None
  BY KeyType DEF Enter, At, Uploading
<1>2. CASE uploads[key(r)] = None
  <2>1. /\ uploads' = [uploads EXCEPT ![key(r)] = r] /\ UNCHANGED <<file, waitsFor>>
        /\ pc' = [pc EXCEPT ![r] = "ask"]
    BY <1>2 DEF Enter, Goto
  <2>2. \A x \in Run : key(x)' = key(x)
    BY <2>1 DEF key
  <2>3. \A x \in Run : Uploading(x)' <=> (Uploading(x) \/ x = r)
    BY <2>1 DEF Uploading
  <2>4. \A q \in Run : Uploading(q) => key(q) # key(r)
    BY <1>1, <1>2, Constants DEF OneUpload
  <2>5. \A k \in Key, x \in Run : uploads'[k] = x <=> Uploading(x)' /\ key(x)' = k
    BY <1>1, <2>1, <2>2, <2>3, <2>4 DEF OneUpload
  <2>6. ASSUME NEW w \in Run, waitsFor'[w] # None
        PROVE  WaitsWell(w)'
    <3>1. PICK x \in Run : /\ x = waitsFor[w] /\ Uploading(x) /\ pc[x] # "forget"
                           /\ key(x) = key(w)
      BY <2>1, <2>6 DEF OneUpload
    <3>2. pc'[x] # "forget"
      BY <1>1, <2>1, <3>1
    <3> QED
      BY <2>1, <2>2, <2>3, <3>1, <3>2 DEF WaitsWell, Uploading, key
  <2> QED
    BY <2>1, <2>5, <2>6 DEF OneUpload, WaitsWell
<1>3. CASE uploads[key(r)] # None /\ Closed(uploads[key(r)])
  BY <1>1, <1>3, NextFileMoves DEF Enter
<1>4. CASE uploads[key(r)] # None /\ ~Closed(uploads[key(r)])
  <2> DEFINE other == uploads[key(r)]
  <2>1. /\ waitsFor' = [waitsFor EXCEPT ![r] = other] /\ UNCHANGED <<file, uploads>>
        /\ pc' = [pc EXCEPT ![r] = "wait"]
    BY <1>4 DEF Enter, Goto
  <2>2. other \in Run /\ Uploading(other) /\ key(other) = key(r) /\ pc[other] # "forget"
    BY <1>1, <1>4 DEF OneUpload, Closed
  <2>3. \A x \in Run : key(x)' = key(x)
    BY <2>1 DEF key
  <2>4. \A x \in Run : Uploading(x)' = Uploading(x)
    BY <1>1, <2>1 DEF Uploading
  <2>5. \A k \in Key, x \in Run : uploads'[k] = x <=> Uploading(x)' /\ key(x)' = k
    BY <2>1, <2>3, <2>4 DEF OneUpload
  <2>6. ASSUME NEW w \in Run, waitsFor'[w] # None
        PROVE  WaitsWell(w)'
    <3> HIDE DEF other
    <3>1. PICK x \in Run : /\ x = waitsFor'[w] /\ Uploading(x) /\ pc[x] # "forget"
                           /\ key(x) = key(w)
      BY <1>1, <2>1, <2>2, <2>6 DEF OneUpload
    <3>2. pc'[x] # "forget"
      BY <2>1, <3>1
    <3> QED
      BY <2>3, <2>4, <3>1, <3>2 DEF WaitsWell, Uploading, key
  <2> QED
    BY <2>5, <2>6 DEF OneUpload, WaitsWell
<1> QED
  BY <1>2, <1>3, <1>4

\* close(doneCh) wakes everybody who waits for this upload.
LEMMA CloseKeeps ==
  ASSUME UploadInv, NEW r \in Run, CloseDone(r)
  PROVE  OneUpload'
<1> USE DEF UploadInv, TypeInv, TypeOK
<1> DEFINE W == WaitsFor(r)
<1>1. /\ pc[r] = "close" /\ Uploading(r) /\ r \notin W
      /\ \A x \in W : x \in Run /\ pc[x] = "wait"
  BY Constants DEF CloseDone, At, Uploading, WaitsFor
<1>2. /\ uploads' = uploads
      /\ \A x \in Run : x \notin W => file'[x] = file[x]
      /\ \A x \in Run : waitsFor'[x] = IF x \in W THEN None ELSE waitsFor[x]
      /\ pc'[r] = "forget"
      /\ \A x \in Run : x \in W => pc'[x] \in {"exists", "run"}
      /\ \A x \in Run : x # r /\ x \notin W => pc'[x] = pc[x]
  BY <1>1 DEF CloseDone
<1>3. \A x \in Run : Uploading(x)' <=> Uploading(x)
  <2> SUFFICES ASSUME NEW x \in Run PROVE Uploading(x)' <=> Uploading(x)
    OBVIOUS
  <2>1. CASE x = r
    BY <1>1, <1>2, <2>1 DEF Uploading
  <2>2. CASE x \in W
    BY <1>1, <1>2, <2>2 DEF Uploading
  <2>3. CASE x # r /\ x \notin W
    BY <1>2, <2>3 DEF Uploading
  <2> QED
    BY <2>1, <2>2, <2>3
<1>4. \A x \in Run : x \notin W => key(x)' = key(x)
  BY <1>2 DEF key
<1>5. \A x \in Run : Uploading(x) => x \notin W
  BY <1>1 DEF Uploading
<1>6. \A k \in Key, x \in Run : uploads'[k] = x <=> Uploading(x)' /\ key(x)' = k
  BY <1>2, <1>3, <1>4, <1>5 DEF OneUpload
<1>7. ASSUME NEW w \in Run, waitsFor'[w] # None
      PROVE  WaitsWell(w)'
  <2>1. w \notin W /\ waitsFor'[w] = waitsFor[w] /\ waitsFor[w] \in Run /\ waitsFor[w] # r
    BY <1>2, <1>7 DEF WaitsFor
  <2>2. Uploading(waitsFor[w]) /\ pc[waitsFor[w]] # "forget" /\ key(waitsFor[w]) = key(w)
    BY <1>7, <2>1 DEF OneUpload
  <2>3. PICK x \in Run : x = waitsFor[w] /\ x # r
    BY <2>1
  <2>4. pc'[x] # "forget" /\ key(x)' = key(w)'
    BY <1>2, <1>4, <1>5, <2>1, <2>2, <2>3
  <2> QED
    BY <1>3, <2>1, <2>2, <2>3, <2>4 DEF WaitsWell, Uploading, key
<1> QED
  BY <1>6, <1>7 DEF OneUpload, WaitsWell

\* delete(s.uploads, uploadKey): nobody waits for it any more.
LEMMA ForgetKeeps ==
  ASSUME UploadInv, NEW r \in Run, ForgetUpload(r)
  PROVE  OneUpload'
<1> USE DEF UploadInv, TypeInv, TypeOK
<1>1. key(r) \in Key /\ pc[r] = "forget" /\ Uploading(r)
  BY KeyType DEF ForgetUpload, At, Uploading
<1>2. /\ uploads' = [uploads EXCEPT ![key(r)] = None] /\ waitsFor' = waitsFor
      /\ \A x \in Run \ {r} : file'[x] = file[x] /\ pc'[x] = pc[x]
      /\ pc'[r] \in {"failed", "exists", "run"}
  BY DEF ForgetUpload, NextFile, Goto
<1>3. \A x \in Run : Uploading(x)' <=> Uploading(x) /\ x # r
  BY <1>1, <1>2 DEF Uploading
<1>4. \A x \in Run \ {r} : key(x)' = key(x)
  BY <1>2 DEF key
<1>5. \A x \in Run \ {r} : Uploading(x) => key(x) # key(r)
  BY <1>1 DEF OneUpload
<1>6. \A k \in Key, x \in Run : uploads'[k] = x <=> Uploading(x)' /\ key(x)' = k
  <2> SUFFICES ASSUME NEW k \in Key, NEW x \in Run
               PROVE  uploads'[k] = x <=> Uploading(x)' /\ key(x)' = k
    OBVIOUS
  <2>1. CASE x = r
    BY <1>1, <1>2, <1>3, <2>1, Constants DEF OneUpload
  <2>2. CASE x # r
    BY <1>1, <1>2, <1>3, <1>4, <1>5, <2>2, Constants DEF OneUpload
  <2> QED
    BY <2>1, <2>2
<1>7. ASSUME NEW w \in Run, waitsFor'[w] # None
      PROVE  WaitsWell(w)'
  <2>1. waitsFor[w] \in Run /\ waitsFor[w] # r /\ w # r
    BY <1>1, <1>2, <1>7 DEF OneUpload
  <2>2. PICK x \in Run : /\ x = waitsFor[w] /\ x # r /\ Uploading(x) /\ pc[x] # "forget"
                         /\ key(x) = key(w)
    BY <2>1, <1>2, <1>7 DEF OneUpload
  <2>3. pc'[x] # "forget" /\ key(x)' = key(w)'
    BY <1>2, <1>4, <2>1, <2>2
  <2> QED
    BY <1>2, <1>3, <2>1, <2>2, <2>3 DEF WaitsWell, Uploading, key
<1> QED
  BY <1>6, <1>7 DEF OneUpload, WaitsWell

\* What else a run does on its way moves nothing that OneUpload looks at.
LEMMA UploadKeeps ==
  ASSUME UploadInv, NEW r \in Run, UploadStep(r)
  PROVE  OneUpload'
<1> USE DEF At
<1>1. CASE Exists(r)
  <2>1. pc[r] = "exists" /\ ~Uploading(r) /\ UNCHANGED <<uploads, waitsFor>>
    BY <1>1 DEF Exists, Uploading
  <2>2. CASE NextFile(r)
    BY <2>1, <2>2, NextFileMoves
  <2>3. CASE (Goto(r, "enter") \/ Goto(r, "failed")) /\ UNCHANGED file
    BY <2>1, <2>3, MovesOn
  <2> QED
    BY <1>1, <2>2, <2>3 DEF Exists
<1>2. CASE Enter(r)
  BY <1>2, EnterKeeps
<1>3. CASE Ask(r)
  BY <1>3, MovesOn DEF Ask, UploadEnds, Uploading
<1>4. CASE SendFails(r)
  BY <1>4, MovesOn DEF SendFails, Uploading, runVars
<1>5. CASE Rejected(r)
  BY <1>5, MovesOn DEF Rejected, UploadEnds, Uploading
<1>6. CASE Uploaded(r)
  BY <1>6, MovesOn DEF Uploaded, UploadEnds, Uploading
<1>7. CASE Recheck(r)
  BY <1>7, MovesOn DEF Recheck, UploadEnds, Uploading
<1>8. CASE CloseDone(r)
  BY <1>8, CloseKeeps
<1>9. CASE ForgetUpload(r)
  BY <1>9, ForgetKeeps
<1> QED
  BY <1>1, <1>2, <1>3, <1>4, <1>5, <1>6, <1>7, <1>8, <1>9 DEF UploadStep

\* Nor do the other steps.
LEMMA OtherKeeps ==
  ASSUME UploadInv, [Next]_vars, \A r \in Run : ~UploadStep(r)
  PROVE  OneUpload'
<1> USE DEF At
<1>1. ASSUME NEW r \in Run, Start(r) PROVE OneUpload'
  BY <1>1, MovesOn DEF Start, Uploading, runVars
<1>2. ASSUME NEW r \in Run, RunStep(r) PROVE OneUpload'
  <2>1. CASE Retry(r)
    <3>1. \A x \in Run \ {r} : file'[x] = file[x]
      BY <2>1 DEF Retry, UploadInv, TypeInv, TypeOK
    <3> QED
      BY <2>1, <3>1, MovesOn DEF Retry, Uploading
  <2>2. CASE LoadPayload(r) \/ SendRun(r)
    BY <2>2, MovesOn DEF LoadPayload, SendRun, Uploading, runVars
  <2>3. CASE SendChunks(r) \/ UpdateTrace(r)
    BY <2>3, MovesOn DEF SendChunks, UpdateTrace, Uploading, runVars
  <2>4. CASE Receive(r) \/ ReceiveChunks(r) \/ SaveTrace(r)
    BY <2>4, MovesOn DEF Receive, ReceiveChunks, SaveTrace, Uploading, runVars
  <2> QED
    BY <1>2, <2>1, <2>2, <2>3, <2>4 DEF RunStep
<1>3. CASE UNCHANGED <<pc, runVars>>
  BY <1>3 DEF UploadInv, OneUpload, Uploading, key, runVars
<1>4. CASE \/ \E s \in Stream : StreamStep(s)
           \/ \E k \in Key : RepoEvict(k)
           \/ AmqpStep \/ Command
           \/ UNCHANGED vars
  BY <1>3, <1>4 DEF StreamStep, RepoAccept, RepoFail, RepoEvict, AmqpStep, Command, Drain,
                    Shutdown, StopAmqp, Exit, vars
<1> QED
  BY <1>1, <1>2, <1>4 DEF Next

\* UploadInv, in the initial states and from one state to the next.
LEMMA UploadStart == Init => UploadInv
<1> SUFFICES ASSUME Init PROVE OneUpload
  BY TypeInit DEF UploadInv
<1> QED
  BY Constants DEF Init, OneUpload, Uploading

LEMMA UploadNext == UploadInv /\ [Next]_vars => UploadInv'
<1> SUFFICES ASSUME UploadInv, [Next]_vars PROVE UploadInv'
  OBVIOUS
<1>1. TypeInv'
  BY TypeStep DEF UploadInv
<1>2. OneUpload'
  BY UploadKeeps, OtherKeeps
<1> QED
  BY <1>1, <1>2 DEF UploadInv

\* However runs that need the same files interleave, each key is uploaded by one of
\* them at a time, and nobody waits for an upload that will not wake him
\* (uploadFiles in app/broker/server.go).
THEOREM UploadsOnce == Spec => []OneUpload
<1>1. UploadInv => OneUpload
  BY DEF UploadInv
<1> QED
  BY UploadStart, UploadNext, <1>1, PTL DEF Spec

-----------------------------------------------------------------------------
(* Nothing is sent without its files *)

Found(k) == k \in served \cup evicted

Searching ==
  {"exists", "enter", "wait", "ask", "send", "recheck", "close", "forget"}

\* What a run knows of its files: those before the present one are there, unless
\* it was misled; and so is the present one once its upload has succeeded.
Knows(r) ==
  /\ pc[r] \in {"idle", "payload"} => file[r] = 1
  /\ pc[r] \in Searching /\ r \notin misled =>
       \A i \in 1..Len(Needs[r]) : i < file[r] => Found(Needs[r][i])
  /\ pc[r] \in {"close", "forget"} /\ r \notin failed => Found(key(r))
  /\ pc[r] = "run" /\ r \notin misled =>
       \A i \in 1..Len(Needs[r]) : Found(Needs[r][i])

SourcesInv == UploadInv /\ \A r \in Run : Knows(r)

\* A key that was there stays on the record.
LEMMA FoundStays ==
  ASSUME TypeInv, [Next]_vars, NEW k, Found(k)
  PROVE  Found(k)'
<1> USE DEF Found
<1>1. ASSUME NEW r \in Run, UploadStep(r) PROVE Found(k)'
  <2>1. CASE Exists(r) \/ Enter(r) \/ Recheck(r) \/ CloseDone(r) \/ ForgetUpload(r)
    BY <2>1 DEF Exists, Enter, Recheck, CloseDone, ForgetUpload, repoVars
  <2>2. CASE Ask(r) \/ SendFails(r) \/ Rejected(r)
    BY <2>2 DEF Ask, SendFails, Rejected, Repo!Ask, Repo!Fail, Repo!Reject
  <2>3. CASE Uploaded(r)
    BY <2>3 DEF Uploaded
  <2> QED
    BY <1>1, <2>1, <2>2, <2>3 DEF UploadStep
<1>2. ASSUME NEW r \in Run, Start(r) \/ RunStep(r) PROVE Found(k)'
  BY <1>2 DEF Start, RunStep, LoadPayload, SendRun, Retry, SendChunks, UpdateTrace, Receive,
              ReceiveChunks, SaveTrace, repoVars
<1>3. ASSUME NEW s \in Stream, StreamStep(s) PROVE Found(k)'
  BY <1>3 DEF StreamStep, RepoAccept, RepoFail, Repo!Accept, Repo!Fail
<1>4. ASSUME NEW j \in Key, RepoEvict(j) PROVE Found(k)'
  BY <1>4 DEF RepoEvict, Repo!Evict
<1>5. CASE AmqpStep \/ Command
  BY <1>5 DEF AmqpStep, Command, Drain, Shutdown, StopAmqp, Exit, repoVars
<1>6. CASE UNCHANGED vars
  BY <1>6 DEF vars, repoVars
<1> QED
  BY <1>1, <1>2, <1>3, <1>4, <1>5, <1>6 DEF Next

\* A run that does not move, and is not misled, knows what it knew.
LEMMA Remembers ==
  ASSUME TypeInv, [Next]_vars, NEW r \in Run, Knows(r),
         pc'[r] = pc[r], file'[r] = file[r],
         r \in failed' <=> r \in failed, misled \subseteq misled'
  PROVE  Knows(r)'
<1>1. key(r)' = key(r)
  BY DEF key
<1> QED
  BY <1>1, FoundStays DEF Knows

\* The next key, once the present one is there or the run is misled.
Advances(r) ==
  IF file[r] < Len(Needs[r])
  THEN file'[r] = file[r] + 1 /\ pc'[r] = "exists"
  ELSE file'[r] = file[r] /\ pc'[r] = "run"

LEMMA KnowsNext ==
  ASSUME SourcesInv, [Next]_vars, NEW r \in Run, Advances(r), pc[r] \in Searching,
         misled \subseteq misled', NEW k, k = key(r), r \in misled' \/ Found(k)'
  PROVE  Knows(r)'
<1>1. Len(Needs[r]) \in Nat /\ file[r] \in 1..Len(Needs[r])
  BY Constants DEF SourcesInv, UploadInv, TypeInv, TypeOK
<1>2. pc'[r] \in {"exists", "run"}
  BY DEF Advances
<1>3. CASE r \in misled'
  BY <1>2, <1>3 DEF Knows
<1>4. CASE r \notin misled'
  <2>1. ASSUME NEW i \in 1..Len(Needs[r]), i <= file[r]
        PROVE  Found(Needs[r][i])'
    <3>1. CASE i = file[r]
      <4>1. Needs[r][i] = k
        BY <3>1 DEF key
      <4> QED
        BY <1>4, <4>1
    <3>2. CASE i # file[r]
      <4>1. Found(Needs[r][i])
        BY <1>1, <1>4, <2>1, <3>2 DEF SourcesInv, Knows
      <4> QED
        BY <4>1, FoundStays DEF SourcesInv, UploadInv
    <3> QED
      BY <3>1, <3>2
  <2>2. CASE file[r] < Len(Needs[r])
    <3>1. file'[r] = file[r] + 1 /\ pc'[r] = "exists"
      BY <2>2 DEF Advances
    <3>2. \A i \in 1..Len(Needs[r]) : i < file'[r] => Found(Needs[r][i])'
      BY <1>1, <2>1, <3>1
    <3> QED
      BY <3>1, <3>2 DEF Knows
  <2>3. CASE ~(file[r] < Len(Needs[r]))
    <3>1. file[r] = Len(Needs[r]) /\ pc'[r] = "run"
      BY <1>1, <2>3 DEF Advances
    <3>2. \A i \in 1..Len(Needs[r]) : Found(Needs[r][i])'
      BY <1>1, <2>1, <3>1
    <3> QED
      BY <3>1, <3>2 DEF Knows
  <2> QED
    BY <2>2, <2>3
<1> QED
  BY <1>3, <1>4

LEMMA NextFileAdvances ==
  ASSUME TypeInv, NEW r \in Run, NextFile(r)
  PROVE  Advances(r)
  BY DEF TypeInv, TypeOK, NextFile, Goto, Advances

\* An upload that goes on keeps what its run knows.
LEMMA GoesOn ==
  ASSUME SourcesInv, [Next]_vars, NEW r \in Run, pc[r] \in Searching,
         pc'[r] \in (Searching \ {"close", "forget"}) \cup {"failed"},
         file'[r] = file[r], misled' = misled
  PROVE  Knows(r)'
<1>1. ASSUME NEW i \in 1..Len(Needs[r]), i < file[r], r \notin misled, pc'[r] \in Searching
      PROVE  Found(Needs[r][i])'
  <2>1. Found(Needs[r][i])
    BY <1>1 DEF SourcesInv, Knows
  <2> QED
    BY <2>1, FoundStays DEF SourcesInv, UploadInv
<1> QED
  BY <1>1 DEF Knows, Searching

\* An upload that ends well leaves the files of its key in the repository.
LEMMA EndsWell ==
  ASSUME SourcesInv, [Next]_vars, NEW r \in Run, pc[r] \in {"ask", "send", "recheck"},
         NEW ok \in BOOLEAN, UploadEnds(r, ok), UNCHANGED <<file, misled>>,
         NEW k, k = key(r), ok => Found(k)'
  PROVE  Knows(r)'
<1>1. pc'[r] = "close"
  BY DEF SourcesInv, UploadInv, TypeInv, TypeOK, UploadEnds, Goto
<1>2. key(r)' = k
  BY DEF key
<1>3. r \notin failed' => Found(key(r))'
  BY <1>2 DEF UploadEnds, Found
<1>4. ASSUME NEW i \in 1..Len(Needs[r]), i < file[r], r \notin misled
      PROVE  Found(Needs[r][i])'
  <2>1. Found(Needs[r][i])
    BY <1>4 DEF SourcesInv, Knows, Searching
  <2> QED
    BY <2>1, FoundStays DEF SourcesInv, UploadInv
<1> QED
  BY <1>1, <1>3, <1>4 DEF Knows

\* What a run knows after a step of its own upload.
LEMMA UploadKnows ==
  ASSUME SourcesInv, [Next]_vars, NEW r \in Run, UploadStep(r)
  PROVE  Knows(r)'
<1>0. PICK k \in Key : /\ k = key(r) /\ stream(r) \in Stream /\ stream(r)[3] = k
                     /\ TypeInv
  BY KeyType DEF SourcesInv, UploadInv, TypeInv
<1>1. CASE Exists(r)
  <2>1. pc[r] = "exists" /\ pc[r] \in Searching /\ misled' = misled /\ UNCHANGED repoVars
    BY <1>1 DEF Exists, At, Searching
  <2>2. CASE k \in served /\ NextFile(r)
    <3>1. Found(k)'
      BY <2>1, <2>2 DEF Found, repoVars
    <3> QED
      BY <1>0, <2>1, <2>2, <3>1, NextFileAdvances, KnowsNext
  <2>3. CASE (Goto(r, "enter") \/ Goto(r, "failed")) /\ UNCHANGED file
    <3>1. pc'[r] \in {"enter", "failed"}
      BY <1>0, <2>3 DEF Goto, TypeInv, TypeOK
    <3> QED
      BY <2>1, <2>3, <3>1, GoesOn DEF Searching
  <2> QED
    BY <1>0, <1>1, <2>2, <2>3 DEF Exists
<1>2. CASE Enter(r)
  <2> DEFINE other == uploads[key(r)]
  <2>1. pc[r] = "enter" /\ pc[r] \in Searching /\ misled \subseteq misled'
    BY <1>2 DEF Enter, At, Searching
  <2>2. CASE other = None
    <3>1. pc'[r] = "ask" /\ file' = file /\ misled' = misled
      BY <1>0, <1>2, <2>2 DEF Enter, Goto, TypeInv, TypeOK
    <3> QED
      BY <2>1, <3>1, GoesOn DEF Searching
  <2>3. CASE other # None /\ Closed(other)
    <3>1. other \in Run /\ key(other) = k /\ pc[other] = "forget"
      BY <1>0, <2>3 DEF SourcesInv, UploadInv, OneUpload, TypeInv, TypeOK, Closed
    <3>2. other \in failed => r \in misled'
      BY <1>2, <2>3 DEF Enter
    <3>3. other \notin failed => Found(k)
      BY <3>1 DEF SourcesInv, Knows
    <3>4. other \notin failed => Found(k)'
      BY <1>0, <3>3, FoundStays
    <3>5. NextFile(r)
      BY <1>2, <2>3 DEF Enter
    <3> QED
      BY <1>0, <2>1, <3>2, <3>4, <3>5, NextFileAdvances, KnowsNext
  <2>4. CASE other # None /\ ~Closed(other)
    <3>1. pc'[r] = "wait" /\ file' = file /\ misled' = misled
      BY <1>0, <1>2, <2>4 DEF Enter, Goto, TypeInv, TypeOK
    <3> QED
      BY <2>1, <3>1, GoesOn DEF Searching
  <2> QED
    BY <2>2, <2>3, <2>4
<1>3. CASE Ask(r)
  <2>1. pc[r] = "ask" /\ pc[r] \in Searching /\ UNCHANGED <<file, misled>>
    BY <1>3 DEF Ask, At, Searching
  <2>2. CASE Goto(r, "send")
    <3>1. pc'[r] = "send"
      BY <1>0, <2>2 DEF Goto, TypeInv, TypeOK
    <3> QED
      BY <2>1, <3>1, GoesOn DEF Searching
  <2>3. CASE UploadEnds(r, FALSE)
    BY <1>0, <2>1, <2>3, EndsWell
  <2>4. CASE Goto(r, "recheck")
    <3>1. pc'[r] = "recheck"
      BY <1>0, <2>4 DEF Goto, TypeInv, TypeOK
    <3> QED
      BY <2>1, <3>1, GoesOn DEF Searching
  <2> QED
    BY <1>3, <2>2, <2>3, <2>4 DEF Ask
<1>4. CASE SendFails(r)
  <2>1. pc[r] = "send" /\ pc'[r] = "recheck" /\ UNCHANGED <<file, misled>>
    BY <1>0, <1>4 DEF SendFails, At, Goto, runVars, TypeInv, TypeOK
  <2> QED
    BY <2>1, GoesOn DEF Searching
<1>5. CASE Rejected(r)
  <2>1. pc[r] = "send" /\ UNCHANGED <<file, misled>> /\ UploadEnds(r, TRUE)
    BY <1>5 DEF Rejected, At
  <2>2. Found(k)
    BY <1>0, <1>5 DEF Rejected, Repo!Reject, Repo!Move, TypeInv, Subjects, Found
  <2>3. Found(k)'
    BY <1>0, <2>2, FoundStays
  <2> QED
    BY <1>0, <2>1, <2>3, EndsWell
<1>6. CASE Uploaded(r)
  <2>1. pc[r] = "send" /\ pc[r] \in Searching /\ UNCHANGED <<file, misled>>
    BY <1>6 DEF Uploaded, At, Searching
  <2>2. CASE UploadEnds(r, TRUE)
    <3>1. subject[stream(r)] = k
      BY <1>0, <1>6 DEF Uploaded, Repo!Commit, Repo!Move, TypeInv, Subjects
    <3>2. Found(k)'
      BY <1>6, <3>1 DEF Uploaded, Repo!Commit, Found
    <3> QED
      BY <1>0, <2>1, <2>2, <3>2, EndsWell
  <2>3. CASE Goto(r, "recheck")
    <3>1. pc'[r] = "recheck"
      BY <1>0, <2>3 DEF Goto, TypeInv, TypeOK
    <3> QED
      BY <2>1, <3>1, GoesOn DEF Searching
  <2> QED
    BY <1>6, <2>2, <2>3 DEF Uploaded
<1>7. CASE Recheck(r)
  <2>1. pc[r] = "recheck" /\ UNCHANGED <<file, misled>> /\ UNCHANGED repoVars
    BY <1>7 DEF Recheck, At
  <2>2. PICK ok \in BOOLEAN : UploadEnds(r, ok) /\ (ok => k \in served)
    <3>1. CASE UploadEnds(r, key(r) \in served)
      <4>1. k \in served => UploadEnds(r, TRUE)
        BY <1>0, <3>1 DEF UploadEnds
      <4>2. k \notin served => UploadEnds(r, FALSE)
        BY <1>0, <3>1 DEF UploadEnds
      <4> QED
        BY <4>1, <4>2
    <3>2. CASE UploadEnds(r, FALSE)
      BY <3>2
    <3> QED
      BY <1>7, <3>1, <3>2 DEF Recheck
  <2>3. ok => Found(k)'
    BY <2>1, <2>2 DEF Found, repoVars
  <2> QED
    BY <1>0, <2>1, <2>2, <2>3, EndsWell
<1>8. CASE CloseDone(r)
  <2>1. /\ pc[r] = "close" /\ r \notin WaitsFor(r) /\ UNCHANGED failed
        /\ misled \subseteq misled'
    BY <1>0, <1>8, Constants DEF CloseDone, At, WaitsFor, TypeInv, TypeOK
  <2>2. pc'[r] = "forget" /\ file'[r] = file[r]
    BY <1>8, <2>1 DEF CloseDone
  <2>3. key(r)' = k
    BY <1>0, <2>2 DEF key
  <2>4. r \notin failed => Found(k)
    BY <1>0, <2>1 DEF SourcesInv, Knows
  <2>5. r \notin failed' => Found(key(r))'
    <3>1. r \notin failed => Found(k)'
      BY <1>0, <2>4, FoundStays
    <3> QED
      BY <2>1, <2>3, <3>1 DEF Found
  <2>6. ASSUME NEW i \in 1..Len(Needs[r]), i < file[r], r \notin misled'
        PROVE  Found(Needs[r][i])'
    <3>1. Found(Needs[r][i])
      BY <2>1, <2>6 DEF SourcesInv, Knows, Searching
    <3> QED
      BY <1>0, <3>1, FoundStays
  <2> QED
    BY <2>2, <2>5, <2>6 DEF Knows, Found
<1>9. CASE ForgetUpload(r)
  <2>1. pc[r] = "forget" /\ pc[r] \in Searching /\ misled' = misled
    BY <1>9 DEF ForgetUpload, At, Searching
  <2>2. CASE r \in failed
    <3>1. pc'[r] = "failed" /\ file' = file
      BY <1>0, <1>9, <2>2 DEF ForgetUpload, Goto, TypeInv, TypeOK
    <3> QED
      BY <2>1, <3>1, GoesOn
  <2>3. CASE r \notin failed
    <3>1. Found(k)
      BY <1>0, <2>1, <2>3 DEF SourcesInv, Knows
    <3>2. NextFile(r)
      BY <1>9, <2>3 DEF ForgetUpload
    <3> QED
      BY <1>0, <2>1, <3>1, <3>2, FoundStays, NextFileAdvances, KnowsNext
  <2> QED
    BY <2>2, <2>3
<1> QED
  BY <1>1, <1>2, <1>3, <1>4, <1>5, <1>6, <1>7, <1>8, <1>9 DEF UploadStep

\* close(doneCh) wakes a run that waits: it is misled, or its files are there.
LEMMA WokenKnows ==
  ASSUME SourcesInv, [Next]_vars, NEW r \in Run, CloseDone(r), NEW w \in WaitsFor(r)
  PROVE  Knows(w)'
<1>1. w \in Run /\ waitsFor[w] = r /\ waitsFor[w] # None /\ TypeInv
  BY Constants DEF WaitsFor, SourcesInv, UploadInv
<1>2. PICK k : k = key(w)
  OBVIOUS
<1>3. pc[w] = "wait" /\ pc[w] \in Searching /\ pc[r] = "close" /\ key(r) = k
  BY <1>1, <1>2 DEF SourcesInv, UploadInv, OneUpload, TypeInv, TypeOK, CloseDone, At, Searching
<1>4. w # r
  BY <1>3
<1>5. Advances(w) /\ misled \subseteq misled' /\ (r \in failed => w \in misled')
  BY <1>1, <1>4 DEF CloseDone, Advances
<1>6. r \notin failed => Found(k)
  BY <1>3 DEF SourcesInv, Knows
<1>7. r \notin failed => Found(k)'
  BY <1>1, <1>6, FoundStays
<1> QED
  BY <1>1, <1>2, <1>3, <1>5, <1>7, KnowsNext

\* The other runs do not notice.
LEMMA BystanderKnows ==
  ASSUME SourcesInv, [Next]_vars, NEW r \in Run, UploadStep(r), NEW x \in Run \ {r},
         ~(CloseDone(r) /\ x \in WaitsFor(r))
  PROVE  Knows(x)'
<1> USE DEF SourcesInv, UploadInv, TypeInv, TypeOK
<1>1. /\ pc'[x] = pc[x] /\ file'[x] = file[x]
      /\ (x \in failed' <=> x \in failed) /\ misled \subseteq misled'
  <2>1. CASE Exists(r) \/ Enter(r)
    BY <2>1 DEF Exists, Enter, NextFile, Goto
  <2>2. CASE Ask(r) \/ SendFails(r) \/ Rejected(r)
    BY <2>2 DEF Ask, SendFails, Rejected, UploadEnds, Goto, runVars
  <2>3. CASE Uploaded(r) \/ Recheck(r)
    BY <2>3 DEF Uploaded, Recheck, UploadEnds, Goto
  <2>4. CASE CloseDone(r)
    BY <2>4 DEF CloseDone
  <2>5. CASE ForgetUpload(r)
    BY <2>5 DEF ForgetUpload, NextFile, Goto
  <2> QED
    BY <2>1, <2>2, <2>3, <2>4, <2>5 DEF UploadStep
<1> QED
  BY <1>1, Remembers

\* What runs know after any other step.
LEMMA OtherKnows ==
  ASSUME SourcesInv, [Next]_vars, \A r \in Run : ~UploadStep(r), NEW x \in Run
  PROVE  Knows(x)'
<1> USE DEF SourcesInv, UploadInv, TypeInv, TypeOK
<1>1. CASE UNCHANGED <<pc, runVars>>
  BY <1>1, Remembers DEF runVars
<1>2. ASSUME NEW r \in Run, Start(r) \/ RunStep(r)
      PROVE  Knows(x)'
  <2>1. failed' = failed /\ misled' = misled /\ pc'[r] # "close" /\ pc'[r] # "forget"
    BY <1>2 DEF Start, RunStep, LoadPayload, SendRun, Retry, SendChunks, UpdateTrace, Receive,
                ReceiveChunks, SaveTrace, Goto, runVars
  <2>2. CASE x # r
    <3>1. pc'[x] = pc[x] /\ file'[x] = file[x]
      BY <1>2, <2>2 DEF Start, RunStep, LoadPayload, SendRun, Retry, SendChunks, UpdateTrace,
                        Receive, ReceiveChunks, SaveTrace, Goto, runVars
    <3> QED
      BY <2>1, <3>1, Remembers
  <2>3. CASE x = r
    <3>1. CASE Start(r) \/ LoadPayload(r)
      <4>1. pc[r] \in {"idle", "payload"} /\ file'[r] = 1 /\ pc'[r] # "run"
        BY <3>1 DEF Start, LoadPayload, At, Goto, Knows, runVars
      <4> QED
        BY <2>1, <2>3, <4>1, Constants DEF Knows
    <3>2. CASE Retry(r)
      <4>1. pc'[r] = "end" \/ (pc'[r] = "exists" /\ file'[r] = 1)
        BY <3>2 DEF Retry, Goto
      <4> QED
        BY <2>1, <2>3, <4>1, Constants DEF Knows, Searching
    <3>3. CASE SendRun(r) \/ SendChunks(r) \/ UpdateTrace(r) \/ Receive(r)
               \/ ReceiveChunks(r) \/ SaveTrace(r)
      <4>1. pc'[r] \in {"chunks", "failed", "update", "recv", "chunk", "save", "end"}
        BY <3>3 DEF SendRun, SendChunks, UpdateTrace, Receive, ReceiveChunks, SaveTrace, Goto
      <4> QED
        BY <2>3, <4>1 DEF Knows, Searching
    <3> QED
      BY <1>2, <3>1, <3>2, <3>3 DEF RunStep
  <2> QED
    BY <2>2, <2>3
<1>3. CASE \/ \E s \in Stream : StreamStep(s)
           \/ \E k \in Key : RepoEvict(k)
           \/ AmqpStep \/ Command
           \/ UNCHANGED vars
  BY <1>1, <1>3 DEF StreamStep, RepoAccept, RepoFail, RepoEvict, AmqpStep, Command, Drain,
                    Shutdown, StopAmqp, Exit, vars
<1> QED
  BY <1>2, <1>3 DEF Next

LEMMA SourcesStart == Init => SourcesInv
<1> SUFFICES ASSUME Init PROVE SourcesInv
  OBVIOUS
<1>1. \A r \in Run : Knows(r)
  BY DEF Init, Knows, Searching
<1> QED
  BY <1>1, UploadStart DEF SourcesInv

LEMMA SourcesNext == SourcesInv /\ [Next]_vars => SourcesInv'
<1> SUFFICES ASSUME SourcesInv, [Next]_vars PROVE SourcesInv'
  OBVIOUS
<1>1. UploadInv'
  BY UploadNext DEF SourcesInv
<1>2. ASSUME NEW x \in Run PROVE Knows(x)'
  <2>1. CASE \A r \in Run : ~UploadStep(r)
    BY <2>1, OtherKnows
  <2>2. ASSUME NEW r \in Run, UploadStep(r) PROVE Knows(x)'
    <3>1. CASE x = r
      BY <2>2, <3>1, UploadKnows
    <3>2. CASE CloseDone(r) /\ x \in WaitsFor(r)
      BY <3>2, WokenKnows
    <3>3. CASE x # r /\ ~(CloseDone(r) /\ x \in WaitsFor(r))
      BY <2>2, <3>3, BystanderKnows
    <3> QED
      BY <3>1, <3>2, <3>3
  <2> QED
    BY <2>1, <2>2
<1> QED
  BY <1>1, <1>2 DEF SourcesInv

\* No run goes to the load balancer without its files, as long as the repository
\* keeps them and nobody told it that an upload which failed is over (uploadFiles
\* and sendRunToLoadbalancer in app/broker/server.go).
THEOREM SourcesSent == Spec => []SentWithSources
<1>1. SourcesInv => SentWithSources
  BY DEF SourcesInv, Knows, SentWithSources, Found
<1> QED
  BY SourcesStart, SourcesNext, <1>1, PTL DEF Spec
=============================================================================
