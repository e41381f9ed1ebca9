---------------------------- MODULE AmqpChannel -----------------------------
(***************************************************************************)
(* The broker's channel to RabbitMQ (cmd/amqp/client.go), which reconnects *)
(* on its own.  A monitor goroutine waits for the channel to be closed; on *)
(* an error it takes the mutex and dials until it has a channel again, so  *)
(* that whoever publishes meanwhile waits.  Shutdown is called by the      *)
(* command; Publish by the goroutines of module Broker.                    *)
(***************************************************************************)
CONSTANT Outages   \* whether the connection to RabbitMQ may be lost

ASSUME AmqpAssumption == Outages \in BOOLEAN

VARIABLES
  ch,        \* the channel: "open", "closed" (by either side), or "nil"
  monitor,   \* where the monitor is; it holds the mutex at "connect"
  running,
  declared,  \* registeredQueues holds the queue of the traces
  queue,     \* RabbitMQ has that queue
  stopping,  \* Shutdown: "no", then "close" until it has the mutex, then "done"
  panicked   \* a method was called on the nil channel: the process is gone

amqpVars == <<ch, monitor, running, declared, queue, stopping, panicked>>

AmqpTypeOK ==
  /\ ch \in {"open", "closed", "nil"}
  /\ monitor \in {"notify", "listen", "lost", "connect", "gone"}
  /\ running \in BOOLEAN /\ declared \in BOOLEAN /\ queue \in BOOLEAN
  /\ stopping \in {"no", "close", "done"}
  /\ panicked \in BOOLEAN

AmqpInit ==
  /\ ch = "open" /\ monitor = "notify" /\ running = TRUE
  /\ declared = FALSE /\ queue = FALSE
  /\ stopping = "no" /\ panicked = FALSE

-----------------------------------------------------------------------------
(* The library and RabbitMQ *)

\* The connection breaks.  The channel is closed with an error, and so is what
\* NotifyClose has registered.  RabbitMQ may be another one when it is back.
Outage ==
  /\ Outages /\ ch = "open"
  /\ ch' = "closed"
  /\ monitor' = IF monitor = "listen" THEN "lost" ELSE monitor
  /\ queue' \in {queue, FALSE}
  /\ UNCHANGED <<running, declared, stopping, panicked>>

\* Close by this side: what NotifyClose has registered is closed without error.
CloseChannel ==
  /\ ch' = IF ch = "open" THEN "closed" ELSE ch
  /\ monitor' = IF ch = "open" /\ monitor = "listen" THEN "gone" ELSE monitor

-----------------------------------------------------------------------------
(* The monitor *)

MutexFree_Always == TRUE

MutexFree == monitor # "connect"

\* NotifyClose.  On a channel that is closed already it closes its argument at
\* once, which the monitor takes for a graceful stop.
Notify ==
  /\ monitor = "notify"
  /\ monitor' = CASE ch = "open" -> "listen"
                  [] ch = "closed" -> "gone"
                  [] ch = "nil" -> "notify"
  /\ panicked' = (ch = "nil")
  /\ UNCHANGED <<ch, running, declared, queue, stopping>>

Lost ==
  /\ monitor = "lost" /\ monitor' = "connect"
  /\ UNCHANGED <<ch, running, declared, queue, stopping, panicked>>

Connected_KeepsQueues ==
  /\ monitor = "connect" /\ running
  /\ ch' = "open" /\ monitor' = "notify"
  /\ UNCHANGED <<running, declared, queue, stopping, panicked>>

\* connect: registeredQueues starts anew with the channel.
Connected ==
  /\ monitor = "connect" /\ running
  /\ ch' = "open" /\ declared' = FALSE /\ monitor' = "notify"
  /\ UNCHANGED <<running, queue, stopping, panicked>>

CannotConnect ==
  /\ monitor = "connect" /\ running
  /\ ch' = "nil"
  /\ UNCHANGED <<monitor, running, declared, queue, stopping, panicked>>

\* Shutdown has been called.
GiveUp ==
  /\ monitor = "connect" /\ ~running
  /\ monitor' = "notify"
  /\ UNCHANGED <<ch, running, declared, queue, stopping, panicked>>

-----------------------------------------------------------------------------

\* Publish, with the mutex.  The first one on a connection declares the queue.
PublishOk ==
  /\ MutexFree /\ ch = "open"
  /\ declared' = TRUE
  /\ queue' = (~declared \/ queue)
  /\ UNCHANGED <<ch, monitor, running, stopping, panicked>>

PublishError ==
  /\ MutexFree /\ ch = "closed"
  /\ UNCHANGED amqpVars

PublishPanics ==
  /\ MutexFree /\ ch = "nil"
  /\ panicked' = TRUE
  /\ UNCHANGED <<ch, monitor, running, declared, queue, stopping>>

Publish == PublishOk \/ PublishError \/ PublishPanics

\* Shutdown, up to the mutex.
Stop ==
  /\ running /\ stopping = "no"
  /\ running' = FALSE /\ stopping' = "close"
  /\ UNCHANGED <<ch, monitor, declared, queue, panicked>>

StopClose ==
  /\ stopping = "close" /\ MutexFree
  /\ CloseChannel
  /\ stopping' = "done"
  /\ UNCHANGED <<running, declared, queue, panicked>>

MonitorStep == Notify \/ Lost \/ Connected \/ CannotConnect \/ GiveUp

\* RabbitMQ comes back, and the monitor runs.
AmqpFairness ==
  /\ WF_amqpVars(Notify \/ Lost \/ GiveUp)
  /\ SF_amqpVars(Connected)
  /\ WF_amqpVars(StopClose)

-----------------------------------------------------------------------------
(* Properties *)

\* The nil channel, which a failed attempt to connect leaves behind, is used only
\* after Shutdown: as long as the broker runs, the mutex keeps it from Publish and
\* the monitor from NotifyClose.
RunningSafe == panicked => ~running

\* registeredQueues does not outlive the connection on which they were declared:
\* no trace is published into a queue that RabbitMQ does not have.
QueueKnown == ch = "open" /\ declared => queue

=============================================================================
