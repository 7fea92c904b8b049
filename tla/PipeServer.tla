----------------------------- MODULE PipeServer -----------------------------
(***************************************************************************)
(* The named pipe between the front end and the service, and the life of   *)
(* the service around it: the client (IpcClient.cs), the accept loop and   *)
(* the thread of each connection (ipc.cpp), the main thread and the        *)
(* control handler (service.cpp).                                          *)
(*                                                                         *)
(* A call is one SendAsync of the front end: connect, write the request,   *)
(* read the answer.  The pipe carries messages; of a request only its size *)
(* matters here, and of its handling whether it ends.                      *)
(***************************************************************************)
CONSTANTS
    Calls,    \* the calls of a behaviour
    Mixes,    \* the sizes their requests may have, of each call
    None      \* no call

(* Requests by size.  small: less than PIPE_BUFFER_SIZE.  brim: at least   *)
(* that, and at most 4096 more, the size of the drain buffer.  huge: more, *)
(* but what the service leaves unread of it fits into the quota of the     *)
(* pipe.  vast: it does not.                                               *)
Sizes == {"small", "brim", "huge", "vast"}

ASSUME CallsAssumption == None \notin Calls /\ "free" \notin Calls /\ None # "free"

ASSUME MixesAssumption == Mixes \subseteq [Calls -> Sizes]

VARIABLES
    (* the front end *)
    client,      \* of each call: where it is
    size,        \* and the size of its request
    (* the pipe *)
    pipe,        \* the server's end of each call's connection
    message,     \* the calls whose request is in the pipe
    reply,       \* the calls whose response has been written back
    (* the service's process *)
    acceptor,    \* the step of IpcServer::worker_thread
    instance,    \* the instance it made: "free", or the call connected to it
    handler,     \* the step of each connection's thread
    spawned,     \* client_threads_ is not empty
    serving,     \* IpcServer::running_
    main,        \* the step of service_main, "down" when there is no process
    stop_event,
    (* the service manager *)
    status

calls   == <<client, size>>
pipes   == <<pipe, message, reply>>
threads == <<handler, spawned>>
accept  == <<acceptor, instance>>
process == <<serving, main, stop_event, status>>

vars == <<calls, pipes, threads, accept, process>>

Init ==
    /\ client = [c \in Calls |-> "new"]
    /\ size \in Mixes
    /\ pipe = [c \in Calls |-> "none"]
    /\ message = {} /\ reply = {}
    /\ acceptor = "none" /\ instance = None
    /\ handler = [c \in Calls |-> "none"]
    /\ spawned = FALSE /\ serving = FALSE
    /\ main = "down" /\ stop_event = "none" /\ status = "STOPPED"

Close(c) == pipe' = [pipe EXCEPT ![c] = "closed"]
-----------------------------------------------------------------------------
(***************************************************************************)
(* SendAsync.  Whatever goes wrong is an exception, and the end of it.     *)
(***************************************************************************)
At(c, step) == client' = [client EXCEPT ![c] = step]

Begin(c) ==
    /\ client[c] = "new"
    /\ At(c, "connecting")
    /\ UNCHANGED <<size, pipes, threads, accept, process>>

Connect(c) ==
    /\ client[c] = "connecting"
    /\ instance = "free"
    /\ instance' = c
    /\ pipe' = [pipe EXCEPT ![c] = "open"]
    /\ At(c, "writing")
    /\ UNCHANGED <<size, message, reply, threads, acceptor, process>>

(* A mutation of Timed: TimeoutMs bounds the whole call.                   *)
TimedThroughout(step) == step \in {"connecting", "writing", "sending", "reading"}

(* TimeoutMs bounds the connection, and nothing after it.                  *)
Timed(step) == step = "connecting"

TimeOut(c) ==
    /\ Timed(client[c])
    /\ At(c, "done")
    /\ UNCHANGED <<size, pipes, threads, accept, process>>

Write(c) ==
    /\ client[c] = "writing"
    /\ \/ /\ pipe[c] = "open"
          /\ message' = message \cup {c}
          /\ At(c, "sending")
       \/ /\ pipe[c] = "closed"
          /\ At(c, "done")
          /\ UNCHANGED message
    /\ UNCHANGED <<size, pipe, reply, threads, accept, process>>

(* What the service has not read of the message fits the pipe's quota.  A  *)
(* huge message does once the service has read as much of it as it will,   *)
(* a vast one never.                                                       *)
Fits(c) == size[c] \in {"small", "brim"} \/ (size[c] = "huge" /\ c \notin message)

(* WriteAsync returns when it does, or fails when the service has closed   *)
(* its end.                                                                *)
FinishWrite(c) ==
    /\ client[c] = "sending"
    /\ \/ pipe[c] = "open" /\ Fits(c) /\ At(c, "reading")
       \/ pipe[c] = "closed" /\ At(c, "done")
    /\ UNCHANGED <<size, pipes, threads, accept, process>>

Read(c) ==
    /\ client[c] = "reading"
    /\ c \in reply \/ pipe[c] = "closed"
    /\ At(c, "done")
    /\ UNCHANGED <<size, pipes, threads, accept, process>>

(* The user closes the front end.                                          *)
Abandon(c) ==
    /\ client[c] \in {"connecting", "writing", "sending", "reading"}
    /\ At(c, "gone")
    /\ UNCHANGED <<size, pipes, threads, accept, process>>

ClientStep(c) == Connect(c) \/ TimeOut(c) \/ Write(c) \/ FinishWrite(c) \/ Read(c)
-----------------------------------------------------------------------------
(***************************************************************************)
(* IpcServer::worker_thread.  A failure of CreateNamedPipe is slept over   *)
(* and tried again.                                                        *)
(***************************************************************************)
CreateInstance ==
    /\ acceptor = "create"
    /\ IF serving THEN acceptor' = "connect" /\ instance' = "free"
                  ELSE acceptor' = "none" /\ UNCHANGED instance
    /\ UNCHANGED <<calls, pipes, threads, process>>

(* A client that was faster than ConnectNamedPipe (ERROR_PIPE_CONNECTED)   *)
(* is taken for a failure, and dropped.                                    *)
ConnectInstance ==
    /\ acceptor = "connect"
    /\ \/ /\ instance = "free"
          /\ acceptor' = "listen"
          /\ UNCHANGED <<pipe, instance>>
       \/ /\ instance \in Calls
          /\ Close(instance)
          /\ instance' = None
          /\ acceptor' = "create"
    /\ UNCHANGED <<calls, message, reply, threads, process>>

(* The pipe is not an overlapped one: ConnectNamedPipe returns when a      *)
(* client comes.                                                           *)
Accept ==
    /\ acceptor = "listen"
    /\ instance \in Calls
    /\ \/ /\ serving
          /\ handler' = [handler EXCEPT ![instance] = "read"]
          /\ spawned' = TRUE
          /\ acceptor' = "create"
          /\ UNCHANGED pipe
       \/ /\ ~serving
          /\ Close(instance)
          /\ acceptor' = "none"
          /\ UNCHANGED <<handler, spawned>>
    /\ instance' = None
    /\ UNCHANGED <<calls, message, reply, process>>

AcceptStep == CreateInstance \/ ConnectInstance \/ Accept
-----------------------------------------------------------------------------
(***************************************************************************)
(* handle_client_core, and handle_client around it.                        *)
(***************************************************************************)
Proceed(c, step) == handler' = [handler EXCEPT ![c] = step]

(* The client's end is closed.                                             *)
Left(c) == client[c] \in {"done", "gone"}

(* A write that was still pending when its caller left is taken back.      *)
ReadRequest(c) ==
    /\ handler[c] = "read"
    /\ \/ /\ c \in message
          /\ message' = message \ {c}
          /\ Proceed(c, IF size[c] = "small" THEN "dispatch" ELSE "drain")
       \/ /\ Left(c)
          /\ c \notin message \/ size[c] # "small"
          /\ message' = message \ {c}
          /\ Proceed(c, "cleanup")
    /\ UNCHANGED <<calls, pipe, reply, spawned, accept, process>>

(* The loop ends when ReadFile fails: with ERROR_MORE_DATA after the first *)
(* 4096 bytes of a longer rest, else when the client has closed its end.   *)
(* Either way the first 65536 bytes are then parsed and executed.          *)
Drain(c) ==
    /\ handler[c] = "drain"
    /\ size[c] \in {"huge", "vast"} \/ Left(c)
    /\ Proceed(c, "dispatch")
    /\ UNCHANGED <<calls, pipes, spawned, accept, process>>

(* process_request turns exceptions into a response; a RunNow that throws  *)
(* reaches the handler in handle_client.                                   *)
Dispatch(c) ==
    /\ handler[c] = "dispatch"
    /\ Proceed(c, "respond")
    /\ UNCHANGED <<calls, pipes, spawned, accept, process>>

(* A mutation of Except: the handler does not close the pipe.              *)
ExceptOpen(c) ==
    /\ Proceed(c, "none")
    /\ UNCHANGED pipe

Except(c) ==
    /\ Proceed(c, "none")
    /\ Close(c)

DispatchThrows(c) ==
    /\ handler[c] = "dispatch"
    /\ Except(c)
    /\ UNCHANGED <<calls, message, reply, spawned, accept, process>>

Respond(c) ==
    /\ handler[c] = "respond"
    /\ reply' = IF serving THEN reply \cup {c} ELSE reply
    /\ Proceed(c, "cleanup")
    /\ UNCHANGED <<calls, pipe, message, spawned, accept, process>>

(* FlushFileBuffers waits until the client has read what was written, and  *)
(* the client of a vast request, which is still writing, never does.       *)
Cleanup(c) ==
    /\ handler[c] = "cleanup"
    /\ c \notin reply \/ Left(c)
    /\ Proceed(c, "none")
    /\ Close(c)
    /\ UNCHANGED <<calls, message, reply, spawned, accept, process>>

HandlerStep(c) ==
    \/ ReadRequest(c) \/ Drain(c) \/ Dispatch(c) \/ DispatchThrows(c)
    \/ Respond(c) \/ Cleanup(c)
-----------------------------------------------------------------------------
(***************************************************************************)
(* service_main and Service::stop.                                         *)
(***************************************************************************)
(* The process is gone: its threads, and its ends of the pipes.            *)
ProcessEnds ==
    /\ main' = "down" /\ status' = "STOPPED" /\ stop_event' = "none"
    /\ serving' = FALSE /\ spawned' = FALSE
    /\ acceptor' = "none" /\ instance' = None
    /\ handler' = [c \in Calls |-> "none"]
    /\ pipe' = [c \in Calls |-> IF pipe[c] = "open" THEN "closed" ELSE pipe[c]]
    /\ UNCHANGED <<calls, message, reply>>

StartService ==
    /\ main = "down"
    /\ main' = "boot" /\ status' = "START_PENDING"
    /\ UNCHANGED <<calls, pipes, threads, accept, serving, stop_event>>

(* IpcServer::start, unless the database cannot be opened.                 *)
Boot ==
    /\ main = "boot"
    /\ \/ /\ serving' = TRUE
          /\ acceptor' = "create"
          /\ main' = "report"
          /\ UNCHANGED <<calls, pipes, threads, instance, stop_event, status>>
       \/ ProcessEnds

ReportRunning ==
    /\ main = "report"
    /\ status' = "RUNNING"
    /\ main' = "event"
    /\ UNCHANGED <<calls, pipes, threads, accept, serving, stop_event>>

CreateStopEvent ==
    /\ main = "event"
    /\ stop_event' = "reset"
    /\ main' = "wait"
    /\ UNCHANGED <<calls, pipes, threads, accept, serving, status>>

(* WaitForSingleObject, Scheduler::stop, IpcServer::stop up to the lock.   *)
StopServer ==
    /\ main = "wait"
    /\ stop_event = "set"
    /\ serving' = FALSE
    /\ main' = "clear"
    /\ UNCHANGED <<calls, pipes, threads, accept, stop_event, status>>

ReportStopped ==
    /\ status' = "STOPPED"
    /\ main' = "exit"
    /\ UNCHANGED <<calls, pipes, threads, accept, serving, stop_event>>

(* A mutation of ClearThreads: the threads are joined first.               *)
JoinThreads == (\A c \in Calls : handler[c] = "none") /\ ReportStopped

(* client_threads_.clear(): the destructor of a thread that was never      *)
(* joined is std::terminate, even if the thread has long finished.         *)
ClearThreads ==
    \/ spawned /\ ProcessEnds
    \/ ~spawned /\ ReportStopped

Clear == main = "clear" /\ ClearThreads

Exit == main = "exit" /\ ProcessEnds

MainStep == Boot \/ ReportRunning \/ CreateStopEvent \/ StopServer \/ Clear \/ Exit

(* A mutation of Signalled: an event set before it exists.                 *)
SignalledAnyway(event) == IF event = "set" THEN event ELSE "set"

Signalled(event) == IF event = "none" THEN event ELSE "set"

(* service_ctrl on the dispatcher's thread; the service manager sends a    *)
(* stop only to a running service.  There may be no event to set yet.      *)
ControlStop ==
    /\ status = "RUNNING"
    /\ status' = "STOP_PENDING"
    /\ stop_event' = Signalled(stop_event)
    /\ UNCHANGED <<calls, pipes, threads, accept, serving, main>>

Crash == main # "down" /\ ProcessEnds
-----------------------------------------------------------------------------
Next ==
    \/ \E c \in Calls : Begin(c) \/ ClientStep(c) \/ Abandon(c) \/ HandlerStep(c)
    \/ AcceptStep \/ MainStep \/ StartService \/ ControlStop \/ Crash

(* Threads that can go on do, in the front end as in the service, and the  *)
(* handling of a request ends; a call need not begin or be abandoned, the  *)
(* service need not be started, stopped or crash.                          *)
Fairness ==
    /\ \A c \in Calls : WF_vars(ClientStep(c)) /\ WF_vars(HandlerStep(c))
    /\ WF_vars(AcceptStep)
    /\ WF_vars(MainStep)

Spec == Init /\ [][Next]_vars

FairSpec == Spec /\ Fairness
-----------------------------------------------------------------------------
(***************************************************************************)
(* Properties.                                                             *)
(***************************************************************************)
(* Type invariant, with the time in which there is an event to wait for.   *)
TypeOK ==
    /\ client \in [Calls -> {"new", "connecting", "writing", "sending", "reading", "done", "gone"}]
    /\ size \in [Calls -> Sizes]
    /\ pipe \in [Calls -> {"none", "open", "closed"}]
    /\ message \in SUBSET Calls
    /\ reply \in SUBSET Calls
    /\ acceptor \in {"none", "create", "connect", "listen"}
    /\ instance \in Calls \cup {None, "free"}
    /\ handler \in [Calls -> {"none", "read", "drain", "dispatch", "respond", "cleanup"}]
    /\ spawned \in BOOLEAN
    /\ serving \in BOOLEAN
    /\ main \in {"down", "boot", "report", "event", "wait", "clear", "exit"}
    /\ stop_event \in {"none", "reset", "set"}
    /\ status \in {"STOPPED", "START_PENDING", "RUNNING", "STOP_PENDING"}
    /\ stop_event = "none" <=> main \in {"down", "boot", "report", "event"}

(* A connection the service holds open is in the hands of exactly one      *)
(* thread, through drops, exceptions, stops and crashes: nobody waits on a *)
(* pipe that no thread will ever answer or close.                          *)
PipesAreOwned ==
    \A c \in Calls :
        /\ pipe[c] = "open" => (instance = c) # (handler[c] # "none")
        /\ pipe[c] # "open" => instance # c /\ handler[c] = "none"

(* Every call comes to an end, although the client has no timeout once it  *)
(* is connected and other calls may hang: the service answers, or closes   *)
(* the pipe, or ends.  Two sizes are excepted: at the brim the drain loop  *)
(* waits for the client; of a vast request the client waits in WriteAsync  *)
(* and the service in FlushFileBuffers, each for the other to read.        *)
EveryCallReturns ==
    \A c \in Calls :
        client[c] = "connecting" /\ size[c] \in {"small", "huge"} ~>
            client[c] \in {"done", "gone"}

(* A stop that finds its event ends the process, whatever clients hold     *)
(* open at the time.  (The comment in IpcServer::stop: joining could       *)
(* deadlock on the pipe.)                                                  *)
StopEndsTheProcess == stop_event = "set" ~> main = "down"
-----------------------------------------------------------------------------
(***************************************************************************)
(* The pipe as its callers see it.                                         *)
(***************************************************************************)
CallerAt(step) ==
    CASE step = "new" -> "idle"
      [] step \in {"connecting", "writing", "sending", "reading"} -> "waiting"
      [] step = "done" -> "returned"
      [] step = "gone" -> "gone"

Caller == [c \in Calls |-> CallerAt(client[c])]

(* It can still write, as far as it knows.                                 *)
Unwritten(c) == client[c] \in {"new", "connecting", "writing"}

(* What is neither answered nor under way nor can still be sent is over.   *)
RequestOf(c) ==
    IF c \in reply THEN "answered"
    ELSE IF handler[c] \in {"dispatch", "respond"} THEN "executing"
    ELSE IF handler[c] = "drain" \/ (c \in message /\ pipe[c] = "open") THEN "sent"
    ELSE IF Unwritten(c) /\ pipe[c] # "closed" THEN "unsent"
    ELSE "over"

Request == [c \in Calls |-> RequestOf(c)]

Abstract == INSTANCE Exchange WITH caller <- Caller, request <- Request

(* A request is executed at most once, and a call that has returned is     *)
(* settled: the front end may ask again without its first request being    *)
(* executed afterwards, whatever was dropped, cut, stopped or crashed.     *)
ImplementsExchange == Abstract!Spec
=============================================================================
