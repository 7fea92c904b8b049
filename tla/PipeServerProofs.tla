-------------------------- MODULE PipeServerProofs --------------------------
(***************************************************************************)
(* Type correctness of the pipe server, the ownership of its connections,  *)
(* and that it implements Exchange, for any number of calls.               *)
(***************************************************************************)
EXTENDS PipeServer, TLAPS

(* A call that has not connected has no pipe; the acceptor has an instance *)
(* between making it and handing it over; a process that is not there, or  *)
(* has not started its server, runs nothing.                               *)
Owners ==
    /\ \A c \in Calls : client[c] \in {"new", "connecting"} => pipe[c] = "none"
    /\ acceptor \in {"connect", "listen"} <=> instance # None
    /\ main \in {"down", "boot"} => acceptor = "none" /\ \A c \in Calls : handler[c] = "none"

PipesSound == TypeOK /\ PipesAreOwned /\ Owners

(* Initially no thread has a pipe.                                         *)
LEMMA PipesInit == Init => PipesSound
<1> SUFFICES ASSUME Init PROVE PipesSound
  OBVIOUS
<1>1. PipesAreOwned /\ Owners
  BY CallsAssumption DEF Init, PipesAreOwned, Owners
<1>2. serving \in BOOLEAN /\ spawned \in BOOLEAN
  BY DEF Init
<1>3. TypeOK
  BY <1>2, MixesAssumption DEF Init, TypeOK, Sizes
<1> QED
  BY <1>1, <1>3 DEF PipesSound

(* A pipe changes hands in one step: accept, serve, close.                 *)
LEMMA PipesStep == PipesSound /\ [Next]_vars => PipesSound'
<1> SUFFICES ASSUME PipesSound, [Next]_vars PROVE PipesSound'
  OBVIOUS
<1> USE CallsAssumption
    DEF PipesSound, TypeOK, PipesAreOwned, Owners, Sizes,
        calls, pipes, threads, accept, process
<1>1. ASSUME NEW c \in Calls, Begin(c) PROVE PipesSound'
  BY <1>1 DEF Begin, At
<1>2. ASSUME NEW c \in Calls, Connect(c) PROVE PipesSound'
  BY <1>2 DEF Connect, At
<1>3. ASSUME NEW c \in Calls, TimeOut(c) PROVE PipesSound'
  BY <1>3 DEF TimeOut, Timed, At
<1>4. ASSUME NEW c \in Calls, Write(c) PROVE PipesSound'
  BY <1>4 DEF Write, At
<1>4a. ASSUME NEW c \in Calls, FinishWrite(c) PROVE PipesSound'
  BY <1>4a DEF FinishWrite, At
<1>5. ASSUME NEW c \in Calls, Read(c) PROVE PipesSound'
  BY <1>5 DEF Read, At
<1>6. ASSUME NEW c \in Calls, Abandon(c) PROVE PipesSound'
  BY <1>6 DEF Abandon, At
<1>7. CASE CreateInstance
  BY <1>7 DEF CreateInstance
<1>8. CASE ConnectInstance
  BY <1>8 DEF ConnectInstance, Close
<1>9. CASE Accept
  <2>1. /\ acceptor = "listen" /\ instance \in Calls /\ instance' = None
        /\ UNCHANGED <<calls, message, reply, process>>
    BY <1>9 DEF Accept
  <2>2. \/ /\ handler' = [handler EXCEPT ![instance] = "read"]
           /\ acceptor' = "create"
           /\ UNCHANGED pipe
        \/ /\ pipe' = [pipe EXCEPT ![instance] = "closed"]
           /\ acceptor' = "none"
           /\ UNCHANGED handler
    BY <1>9 DEF Accept, Close
  <2>3. spawned' \in BOOLEAN
    BY <1>9 DEF Accept
  <2>4. TypeOK'
    BY <2>1, <2>2, <2>3
  <2>5. PipesAreOwned' /\ Owners'
    BY <2>1, <2>2
  <2> QED
    BY <2>4, <2>5
<1>10. ASSUME NEW c \in Calls, ReadRequest(c) PROVE PipesSound'
  BY <1>10 DEF ReadRequest, Proceed
<1>11. ASSUME NEW c \in Calls, Drain(c) PROVE PipesSound'
  BY <1>11 DEF Drain, Proceed
<1>12. ASSUME NEW c \in Calls, Dispatch(c) PROVE PipesSound'
  BY <1>12 DEF Dispatch, Proceed
<1>13. ASSUME NEW c \in Calls, DispatchThrows(c) PROVE PipesSound'
  BY <1>13 DEF DispatchThrows, Except, Proceed, Close
<1>14. ASSUME NEW c \in Calls, Respond(c) PROVE PipesSound'
  BY <1>14 DEF Respond, Proceed
<1>15. ASSUME NEW c \in Calls, Cleanup(c) PROVE PipesSound'
  BY <1>15 DEF Cleanup, Proceed, Close
<1>16. CASE StartService
  BY <1>16 DEF StartService
<1>17. CASE Boot
  <2>1. CASE ProcessEnds
    BY <2>1, <1>17 DEF ProcessEnds
  <2>2. CASE ~ProcessEnds
    <3>1. /\ main = "boot" /\ main' = "report" /\ acceptor' = "create"
          /\ UNCHANGED <<calls, pipes, threads, instance, stop_event, status>>
      BY <1>17, <2>2 DEF Boot
    <3>2. serving' \in BOOLEAN
      BY <1>17, <2>2 DEF Boot
    <3>3. TypeOK'
      BY <3>1, <3>2
    <3>4. PipesAreOwned' /\ Owners'
      BY <3>1
    <3> QED
      BY <3>3, <3>4
  <2> QED
    BY <2>1, <2>2
<1>18. CASE ReportRunning
  BY <1>18 DEF ReportRunning
<1>19. CASE CreateStopEvent
  BY <1>19 DEF CreateStopEvent
<1>20. CASE StopServer
  BY <1>20 DEF StopServer
<1>21. CASE Clear
  <2>1. CASE ProcessEnds
    BY <2>1 DEF ProcessEnds
  <2>2. CASE main = "clear" /\ ReportStopped
    BY <2>2 DEF ReportStopped
  <2> QED
    BY <1>21, <2>1, <2>2 DEF Clear, ClearThreads
<1>22. CASE Exit
  BY <1>22 DEF Exit, ProcessEnds
<1>23. CASE ControlStop
  BY <1>23 DEF ControlStop, Signalled
<1>24. CASE Crash
  BY <1>24 DEF Crash, ProcessEnds
<1>25. CASE UNCHANGED vars
  BY <1>25 DEF vars
<1> QED
  BY <1>1, <1>2, <1>3, <1>4, <1>5, <1>6, <1>7, <1>8, <1>9, <1>10, <1>11, <1>12, <1>13,
     <1>14, <1>15, <1>16, <1>17, <1>18, <1>19, <1>20, <1>21, <1>22, <1>23, <1>24, <1>25, <1>4a
     DEF Next, ClientStep, HandlerStep, AcceptStep, MainStep

(* The ownership of pipes holds in every state.                            *)
LEMMA AlwaysPipesSound == Spec => []PipesSound
BY PipesInit, PipesStep, PTL DEF Spec

(* Every variable keeps its type, and there is a stop event exactly while  *)
(* service_main can wait for it.                                           *)
THEOREM PipesTyped == Spec => []TypeOK
<1>1. PipesSound => TypeOK
  BY DEF PipesSound
<1> QED
  BY <1>1, AlwaysPipesSound, PTL

(* An open connection is in the hands of exactly one thread, for any       *)
(* number of calls, through drops, exceptions, stops and crashes.          *)
THEOREM OneThreadPerPipe == Spec => []PipesAreOwned
<1>1. PipesSound => PipesAreOwned
  BY DEF PipesSound
<1> QED
  BY <1>1, AlwaysPipesSound, PTL
-----------------------------------------------------------------------------
(***************************************************************************)
(* The pipe implements Exchange.                                           *)
(***************************************************************************)
(* A request leaves the pipe as a thread takes it, for good: its caller    *)
(* has nothing left to write.  An answer is given by a thread that then    *)
(* only cleans up.                                                         *)
Delivered ==
    \A c \in Calls :
        /\ c \in message => ~Unwritten(c)
        /\ handler[c] \in {"drain", "dispatch", "respond", "cleanup"} =>
              c \notin message /\ ~Unwritten(c)
        /\ handler[c] \in {"drain", "dispatch", "respond"} => c \notin reply
        /\ c \in reply => c \notin message /\ ~Unwritten(c)

(* Initially nothing has been sent.                                        *)
LEMMA DeliveredInit == Init => Delivered
BY DEF Init, Delivered

(* A call writes once, its thread reads once, and answers once.            *)
LEMMA DeliveredStep == PipesSound /\ Delivered /\ [Next]_vars => Delivered'
<1> SUFFICES ASSUME PipesSound, Delivered, [Next]_vars PROVE Delivered'
  OBVIOUS
<1> USE CallsAssumption
    DEF PipesSound, TypeOK, PipesAreOwned, Owners, Delivered, Unwritten,
        calls, pipes, threads, accept, process
<1>1. ASSUME NEW c \in Calls, Begin(c) PROVE Delivered'
  BY <1>1 DEF Begin, At
<1>2. ASSUME NEW c \in Calls, Connect(c) PROVE Delivered'
  BY <1>2 DEF Connect, At
<1>3. ASSUME NEW c \in Calls, TimeOut(c) PROVE Delivered'
  BY <1>3 DEF TimeOut, Timed, At
<1>4. ASSUME NEW c \in Calls, Write(c) PROVE Delivered'
  BY <1>4 DEF Write, At
<1>4a. ASSUME NEW c \in Calls, FinishWrite(c) PROVE Delivered'
  BY <1>4a DEF FinishWrite, At
<1>5. ASSUME NEW c \in Calls, Read(c) PROVE Delivered'
  BY <1>5 DEF Read, At
<1>6. ASSUME NEW c \in Calls, Abandon(c) PROVE Delivered'
  BY <1>6 DEF Abandon, At
<1>7. CASE CreateInstance
  BY <1>7 DEF CreateInstance
<1>8. CASE ConnectInstance
  BY <1>8 DEF ConnectInstance, Close
<1>9. CASE Accept
  BY <1>9 DEF Accept, Close
<1>10. ASSUME NEW c \in Calls, ReadRequest(c) PROVE Delivered'
  BY <1>10 DEF ReadRequest, Proceed, Left
<1>11. ASSUME NEW c \in Calls, Drain(c) PROVE Delivered'
  BY <1>11 DEF Drain, Proceed
<1>12. ASSUME NEW c \in Calls, Dispatch(c) PROVE Delivered'
  BY <1>12 DEF Dispatch, Proceed
<1>13. ASSUME NEW c \in Calls, DispatchThrows(c) PROVE Delivered'
  BY <1>13 DEF DispatchThrows, Except, Proceed, Close
<1>14. ASSUME NEW c \in Calls, Respond(c) PROVE Delivered'
  BY <1>14 DEF Respond, Proceed
<1>15. ASSUME NEW c \in Calls, Cleanup(c) PROVE Delivered'
  BY <1>15 DEF Cleanup, Proceed, Close
<1>16. CASE StartService
  BY <1>16 DEF StartService
<1>17. CASE Boot
  BY <1>17 DEF Boot, ProcessEnds
<1>18. CASE ReportRunning
  BY <1>18 DEF ReportRunning
<1>19. CASE CreateStopEvent
  BY <1>19 DEF CreateStopEvent
<1>20. CASE StopServer
  BY <1>20 DEF StopServer
<1>21. CASE Clear
  BY <1>21 DEF Clear, ClearThreads, ReportStopped, ProcessEnds
<1>22. CASE Exit
  BY <1>22 DEF Exit, ProcessEnds
<1>23. CASE ControlStop
  BY <1>23 DEF ControlStop
<1>24. CASE Crash
  BY <1>24 DEF Crash, ProcessEnds
<1>25. CASE UNCHANGED vars
  BY <1>25 DEF vars
<1> QED
  BY <1>1, <1>2, <1>3, <1>4, <1>5, <1>6, <1>7, <1>8, <1>9, <1>10, <1>11, <1>12, <1>13,
     <1>14, <1>15, <1>16, <1>17, <1>18, <1>19, <1>20, <1>21, <1>22, <1>23, <1>24, <1>25, <1>4a
     DEF Next, ClientStep, HandlerStep, AcceptStep, MainStep

(* Initially every caller is idle and every request unsent.                *)
LEMMA ExchangeInit == Init => Abstract!Init
BY DEF Init, Abstract!Init, Caller, CallerAt, Request, RequestOf, Unwritten

(* What only moves the threads of the service that hold no connection is   *)
(* nothing to the callers.                                                 *)
LEMMA Unseen == UNCHANGED <<client, pipe, message, reply, handler>> => UNCHANGED Abstract!vars
BY DEF Abstract!vars, Caller, Request, RequestOf, Unwritten

(* A step that is about one call leaves the others alone.                  *)
Elsewhere(c) ==
    \A d \in Calls \ {c} :
        /\ client'[d] = client[d] /\ pipe'[d] = pipe[d] /\ handler'[d] = handler[d]
        /\ d \in message' <=> d \in message
        /\ d \in reply' <=> d \in reply

(* Its callers see then what becomes of that call, and nothing else.       *)
LEMMA OneCall ==
    ASSUME NEW c \in Calls, Elsewhere(c)
    PROVE  /\ Caller' = [Caller EXCEPT ![c] = CallerAt(client'[c])]
           /\ Request' = [Request EXCEPT ![c] = RequestOf(c)']
           /\ Caller[c] = CallerAt(client[c]) /\ Request[c] = RequestOf(c)
           /\ CallerAt(client'[c]) = CallerAt(client[c]) => Caller' = Caller
           /\ RequestOf(c)' = RequestOf(c) => Request' = Request
           /\ Request' = [d \in Calls |-> IF d = c THEN RequestOf(c)' ELSE Request[d]]
<1>1. \A d \in Calls \ {c} : CallerAt(client'[d]) = CallerAt(client[d])
  BY DEF Elsewhere
<1>2. ASSUME NEW d \in Calls \ {c} PROVE RequestOf(d)' = RequestOf(d)
  BY DEF Elsewhere, RequestOf, Unwritten
<1>3. Caller' = [d \in Calls |-> CallerAt(client'[d])]
  BY DEF Caller
<1>4. Request' = [d \in Calls |-> RequestOf(d)']
  BY DEF Request
<1> QED
  BY <1>1, <1>2, <1>3, <1>4 DEF Caller, Request

(* The end of the process loses the connections it held open, and leaves   *)
(* alone what was answered, and what never reached it.                     *)
LEMMA ProcessLoses == PipesSound /\ ProcessEnds => Abstract!Lose({c \in Calls : pipe[c] = "open"})
<1> SUFFICES ASSUME PipesSound, ProcessEnds
             PROVE  Abstract!Lose({c \in Calls : pipe[c] = "open"})
  OBVIOUS
<1>1. UNCHANGED Caller
  BY DEF ProcessEnds, calls, Caller
<1>2. ASSUME NEW c \in Calls
      PROVE  RequestOf(c)' = IF pipe[c] = "open" /\ Request[c] \notin Abstract!Settled
                             THEN "over" ELSE Request[c]
  BY <1>2 DEF PipesSound, TypeOK, PipesAreOwned, ProcessEnds, calls, Request, RequestOf,
              Unwritten, Abstract!Settled
<1> QED
  BY <1>1, <1>2 DEF Abstract!Lose, Request

(* Every step of the pipe is one of the exchange, or nothing to it.        *)
LEMMA ExchangeStep ==
    PipesSound /\ Delivered /\ [Next]_vars => [Abstract!Next]_Abstract!vars
<1> DEFINE Refined ==
        \/ \E c \in Calls :
            \/ Abstract!Call(c) \/ Abstract!Send(c) \/ Abstract!Execute(c)
            \/ Abstract!Answer(c) \/ Abstract!Return(c) \/ Abstract!Abandon(c)
        \/ \E lost \in SUBSET Calls : Abstract!Lose(lost)
        \/ UNCHANGED Abstract!vars
<1> SUFFICES ASSUME PipesSound, Delivered, [Next]_vars PROVE Refined
  BY DEF Abstract!Next
<1> USE CallsAssumption
    DEF PipesSound, TypeOK, PipesAreOwned, Owners, Delivered, Unwritten,
        calls, pipes, threads, accept, process
<1>1. ASSUME NEW c \in Calls, Begin(c) PROVE Abstract!Call(c)
  <2>1. Elsewhere(c)
    BY <1>1 DEF Begin, At, Elsewhere
  <2>2. /\ CallerAt(client[c]) = "idle" /\ CallerAt(client'[c]) = "waiting"
        /\ RequestOf(c)' = RequestOf(c)
    BY <1>1 DEF Begin, At, CallerAt, RequestOf
  <2> QED
    BY <2>1, <2>2, OneCall DEF Abstract!Call
<1>2. ASSUME NEW c \in Calls, Connect(c) PROVE UNCHANGED Abstract!vars
  <2>1. Elsewhere(c)
    BY <1>2 DEF Connect, At, Elsewhere
  <2>2. CallerAt(client'[c]) = CallerAt(client[c]) /\ RequestOf(c)' = RequestOf(c)
    BY <1>2 DEF Connect, At, CallerAt, RequestOf
  <2> QED
    BY <2>1, <2>2, OneCall DEF Abstract!vars
<1>3. ASSUME NEW c \in Calls, TimeOut(c) PROVE Abstract!Return(c)
  <2>1. Elsewhere(c)
    BY <1>3 DEF TimeOut, Timed, At, Elsewhere
  <2>2. /\ CallerAt(client[c]) = "waiting" /\ CallerAt(client'[c]) = "returned"
        /\ RequestOf(c) = "unsent" /\ RequestOf(c)' = "over"
    BY <1>3 DEF TimeOut, Timed, At, CallerAt, RequestOf
  <2> QED
    BY <2>1, <2>2, OneCall DEF Abstract!Return, Abstract!Leave, Abstract!Settled
<1>4. ASSUME NEW c \in Calls, Write(c)
      PROVE  Abstract!Send(c) \/ Abstract!Return(c)
  <2>1. Elsewhere(c)
    BY <1>4 DEF Write, At, Elsewhere
  <2>2. /\ CallerAt(client[c]) = "waiting"
        /\ \/ /\ CallerAt(client'[c]) = "waiting"
              /\ RequestOf(c) = "unsent" /\ RequestOf(c)' = "sent"
           \/ /\ CallerAt(client'[c]) = "returned"
              /\ RequestOf(c) \in {"answered", "over"} /\ RequestOf(c)' = RequestOf(c)
    BY <1>4 DEF Write, At, CallerAt, RequestOf
  <2> QED
    BY <2>1, <2>2, OneCall
       DEF Abstract!Send, Abstract!Return, Abstract!Progress, Abstract!Leave,
           Abstract!Settled
<1>4a. ASSUME NEW c \in Calls, FinishWrite(c)
       PROVE  Abstract!Return(c) \/ UNCHANGED Abstract!vars
  <2>1. Elsewhere(c)
    BY <1>4a DEF FinishWrite, At, Elsewhere
  <2>2. /\ CallerAt(client[c]) = "waiting" /\ RequestOf(c)' = RequestOf(c)
        /\ \/ CallerAt(client'[c]) = CallerAt(client[c])
           \/ /\ CallerAt(client'[c]) = "returned"
              /\ RequestOf(c) \in {"answered", "over"}
    BY <1>4a DEF FinishWrite, At, CallerAt, RequestOf
  <2> QED
    BY <2>1, <2>2, OneCall
       DEF Abstract!Return, Abstract!Leave, Abstract!Settled, Abstract!vars
<1>5. ASSUME NEW c \in Calls, Read(c) PROVE Abstract!Return(c)
  <2>1. Elsewhere(c)
    BY <1>5 DEF Read, At, Elsewhere
  <2>2. /\ CallerAt(client[c]) = "waiting" /\ CallerAt(client'[c]) = "returned"
        /\ RequestOf(c) \in {"answered", "over"} /\ RequestOf(c)' = RequestOf(c)
    BY <1>5 DEF Read, At, CallerAt, RequestOf
  <2> QED
    BY <2>1, <2>2, OneCall DEF Abstract!Return, Abstract!Leave, Abstract!Settled
<1>6. ASSUME NEW c \in Calls, Abandon(c) PROVE Abstract!Abandon(c)
  <2>1. Elsewhere(c)
    BY <1>6 DEF Abandon, At, Elsewhere
  <2>2. /\ CallerAt(client[c]) = "waiting" /\ CallerAt(client'[c]) = "gone"
        /\ RequestOf(c)' = IF RequestOf(c) = "unsent" THEN "over" ELSE RequestOf(c)
    BY <1>6 DEF Abandon, At, CallerAt, RequestOf
  <2> QED
    BY <2>1, <2>2, OneCall DEF Abstract!Abandon, Abstract!Leave, Abstract!Settled
<1>7. ASSUME CreateInstance PROVE Refined
  BY <1>7, Unseen DEF CreateInstance
<1>8. ASSUME ConnectInstance PROVE Refined
  <2>1. CASE UNCHANGED pipe
    BY <2>1, <1>8, Unseen DEF ConnectInstance
  <2>2. CASE instance \in Calls /\ Close(instance)
    <3>1. PICK c \in Calls : c = instance
      BY <2>2
    <3>2. Elsewhere(c)
      BY <3>1, <2>2, <1>8 DEF ConnectInstance, Close, Elsewhere
    <3>3. /\ CallerAt(client'[c]) = CallerAt(client[c])
          /\ RequestOf(c)' = IF RequestOf(c) = "answered" THEN "answered" ELSE "over"
      BY <3>1, <2>2, <1>8 DEF ConnectInstance, Close, CallerAt, RequestOf
    <3>4. Abstract!Lose({c})
      BY <3>2, <3>3, OneCall DEF Abstract!Lose, Abstract!Settled
    <3> QED
      BY <3>4
  <2> QED
    BY <2>1, <2>2, <1>8 DEF ConnectInstance
<1>9. ASSUME Accept PROVE Refined
  <2>1. PICK c \in Calls : c = instance
    BY <1>9 DEF Accept
  <2>2. Elsewhere(c)
    BY <2>1, <1>9 DEF Accept, Close, Elsewhere
  <2>3. /\ CallerAt(client'[c]) = CallerAt(client[c])
        /\ \/ RequestOf(c)' = RequestOf(c)
           \/ RequestOf(c)' = IF RequestOf(c) = "answered" THEN "answered" ELSE "over"
    BY <2>1, <1>9 DEF Accept, Close, CallerAt, RequestOf
  <2>4. Abstract!Lose({c}) \/ UNCHANGED Abstract!vars
    BY <2>2, <2>3, OneCall DEF Abstract!Lose, Abstract!Settled, Abstract!vars
  <2> QED
    BY <2>4
<1>10. ASSUME NEW c \in Calls, ReadRequest(c)
       PROVE  Abstract!Execute(c) \/ Abstract!Lose({c}) \/ UNCHANGED Abstract!vars
  <2>1. Elsewhere(c)
    BY <1>10 DEF ReadRequest, Left, Proceed, Elsewhere
  <2>2. /\ CallerAt(client'[c]) = CallerAt(client[c])
        /\ \/ RequestOf(c)' = RequestOf(c)
           \/ RequestOf(c) = "sent" /\ RequestOf(c)' \in {"executing", "over"}
    BY <1>10 DEF ReadRequest, Left, Proceed, CallerAt, RequestOf
  <2> QED
    BY <2>1, <2>2, OneCall DEF Abstract!Execute, Abstract!Progress, Abstract!Lose,
                               Abstract!Settled, Abstract!vars
<1>11. ASSUME NEW c \in Calls, Drain(c) PROVE Abstract!Execute(c)
  <2>1. Elsewhere(c)
    BY <1>11 DEF Drain, Proceed, Elsewhere
  <2>2. /\ CallerAt(client'[c]) = CallerAt(client[c])
        /\ RequestOf(c) = "sent" /\ RequestOf(c)' = "executing"
    BY <1>11 DEF Drain, Proceed, CallerAt, RequestOf
  <2> QED
    BY <2>1, <2>2, OneCall DEF Abstract!Execute, Abstract!Progress
<1>12. ASSUME NEW c \in Calls, Dispatch(c) PROVE UNCHANGED Abstract!vars
  <2>1. Elsewhere(c)
    BY <1>12 DEF Dispatch, Proceed, Elsewhere
  <2>2. CallerAt(client'[c]) = CallerAt(client[c]) /\ RequestOf(c)' = RequestOf(c)
    BY <1>12 DEF Dispatch, Proceed, CallerAt, RequestOf
  <2> QED
    BY <2>1, <2>2, OneCall DEF Abstract!vars
<1>13. ASSUME NEW c \in Calls, DispatchThrows(c) PROVE Abstract!Lose({c})
  <2>1. Elsewhere(c)
    BY <1>13 DEF DispatchThrows, Except, Proceed, Close, Elsewhere
  <2>2. /\ CallerAt(client'[c]) = CallerAt(client[c])
        /\ RequestOf(c) = "executing" /\ RequestOf(c)' = "over"
    BY <1>13 DEF DispatchThrows, Except, Proceed, Close, CallerAt, RequestOf
  <2> QED
    BY <2>1, <2>2, OneCall DEF Abstract!Lose, Abstract!Settled
<1>14. ASSUME NEW c \in Calls, Respond(c)
       PROVE  Abstract!Answer(c) \/ Abstract!Lose({c})
  <2>1. Elsewhere(c)
    BY <1>14 DEF Respond, Proceed, Elsewhere
  <2>2. /\ CallerAt(client'[c]) = CallerAt(client[c])
        /\ RequestOf(c) = "executing" /\ RequestOf(c)' \in {"answered", "over"}
    BY <1>14 DEF Respond, Proceed, CallerAt, RequestOf
  <2> QED
    BY <2>1, <2>2, OneCall DEF Abstract!Answer, Abstract!Progress, Abstract!Lose,
                                 Abstract!Settled
<1>15. ASSUME NEW c \in Calls, Cleanup(c) PROVE UNCHANGED Abstract!vars
  <2>1. Elsewhere(c)
    BY <1>15 DEF Cleanup, Proceed, Close, Elsewhere
  <2>2. CallerAt(client'[c]) = CallerAt(client[c]) /\ RequestOf(c)' = RequestOf(c)
    BY <1>15 DEF Cleanup, Proceed, Close, CallerAt, RequestOf
  <2> QED
    BY <2>1, <2>2, OneCall DEF Abstract!vars
<1>16. ASSUME StartService PROVE Refined
  BY <1>16, Unseen DEF StartService
<1>17. ASSUME Boot PROVE Refined
  BY <1>17, Unseen, ProcessLoses DEF Boot
<1>18. ASSUME ReportRunning PROVE Refined
  BY <1>18, Unseen DEF ReportRunning
<1>19. ASSUME CreateStopEvent PROVE Refined
  BY <1>19, Unseen DEF CreateStopEvent
<1>20. ASSUME StopServer PROVE Refined
  BY <1>20, Unseen DEF StopServer
<1>21. ASSUME Clear PROVE Refined
  BY <1>21, Unseen, ProcessLoses DEF Clear, ClearThreads, ReportStopped
<1>22. ASSUME Exit PROVE Refined
  BY <1>22, ProcessLoses DEF Exit
<1>23. ASSUME ControlStop PROVE Refined
  BY <1>23, Unseen DEF ControlStop
<1>24. ASSUME Crash PROVE Refined
  BY <1>24, ProcessLoses DEF Crash
<1>25. ASSUME UNCHANGED vars PROVE Refined
  BY <1>25, Unseen DEF vars
<1>26. ASSUME NEW c \in Calls, Begin(c) \/ ClientStep(c) \/ Abandon(c) \/ HandlerStep(c)
       PROVE  Refined
  <2>1. ASSUME \/ Abstract!Call(c) \/ Abstract!Send(c) \/ Abstract!Execute(c)
               \/ Abstract!Answer(c) \/ Abstract!Return(c) \/ Abstract!Abandon(c)
        PROVE  Refined
    BY <2>1
  <2>2. ASSUME Abstract!Lose({c}) PROVE Refined
    BY <2>2, {c} \in SUBSET Calls
  <2>3. ASSUME UNCHANGED Abstract!vars PROVE Refined
    BY <2>3
  <2> HIDE DEF Refined
  <2> QED
    BY <1>26, <2>1, <2>2, <2>3, <1>1, <1>2, <1>3, <1>4, <1>5, <1>6, <1>10, <1>11, <1>12,
       <1>13, <1>14, <1>15, <1>4a
       DEF ClientStep, HandlerStep
<1>27. ASSUME AcceptStep \/ MainStep \/ StartService \/ ControlStop \/ Crash
       PROVE  Refined
  BY <1>27, <1>7, <1>8, <1>9, <1>16, <1>17, <1>18, <1>19, <1>20, <1>21, <1>22, <1>23, <1>24
     DEF AcceptStep, MainStep
<1> QED
  BY <1>25, <1>26, <1>27 DEF Next

(* A request is executed at most once, only if it was sent, and never      *)
(* after its call has returned, for any number of calls, through drops,    *)
(* exceptions, stops and crashes.                                          *)
THEOREM CallsAreExchanges == Spec => ImplementsExchange
<1>1. Init => PipesSound /\ Delivered
  BY PipesInit, DeliveredInit
<1>2. PipesSound /\ Delivered /\ [Next]_vars => (PipesSound /\ Delivered)'
  BY PipesStep, DeliveredStep
<1> QED
  BY <1>1, <1>2, ExchangeInit, ExchangeStep, PTL DEF Spec, ImplementsExchange, Abstract!Spec
=============================================================================
