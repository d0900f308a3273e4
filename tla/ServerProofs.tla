---------------------------- MODULE ServerProofs ----------------------------
(***************************************************************************)
(* Theorems of Server, for any calls, requests, errors and greetings: a    *)
(* clean exit leaves nothing undone (CleanExit), nothing is changed after  *)
(* GracefulStop (NoCommitAfterStop), success means committed               *)
(* (OkMeansCommitted), errors keep their codes (ErrorsKeepTheirCode), what *)
(* is answered was written (AnswersWereWritten), and the types.            *)
(*                                                                         *)
(* The invariant behind the first two says how the goroutines wait for     *)
(* each other: what each of them knows of the calls once it has ended.     *)
(* Those behind the others follow the error of a handler to its client,    *)
(* with what ApiProofs says of the way that it is sent, and a greeting     *)
(* from the call that wrote it to those that read it.                      *)
(***************************************************************************)
EXTENDS Server, ApiProofs

(* What the proofs need of the types: functions are over the calls. *)
Shape ==
    /\ client \in [Calls -> {"new", "waiting", "answered", "lost"}]
    /\ handler \in [Calls -> {"none", "running", "done"}]
    /\ call = [c \in Calls |-> call[c]]
    /\ late \in BOOLEAN

(* serveRPC ends after GracefulStop, which leaves no handler at work. *)
RpcInv ==
    /\ stop = "stopped" => \A c \in Calls : handler[c] # "running"
    /\ rpc = "ended" => stop = "stopped"

(* The gateway ends after its watcher.  From Shutdown on it takes nothing, *)
(* and unless the watcher gives up, it has nothing left when that is done. *)
GatewayInv ==
    /\ gateway = "ended" => watcher = "done"
    /\ watcher \in {"shutting", "done"} => gateway # "serving"
    /\ (watcher = "done" /\ ~late) => ~Busy

(* A direct call that waits is in the hands of the server; none is lost in *)
(* a process that runs, or that returned in time.                          *)
CallInv ==
    /\ \A c \in Calls : (client[c] = "waiting" /\ ~call[c].http) => handler[c] # "none"
    /\ process = "running" => \A c \in Calls : client[c] # "lost"
    /\ process = "returned" => (rpc = "ended" /\ gateway = "ended")
    /\ (process = "returned" /\ ~late) => \A c \in Calls : client[c] # "lost"

ExitInv == Shape /\ RpcInv /\ GatewayInv /\ CallInv

LEMMA InitExit == Init => ExitInv
  BY DEF Init, ExitInv, Shape, RpcInv, GatewayInv, CallInv, Busy, NoCall

(* A process that exits. *)
LEMMA FatalKeeps == ASSUME ExitInv, process = "running", Fatalf PROVE ExitInv'
  BY DEF ExitInv, Shape, RpcInv, GatewayInv, CallInv, Busy, Fatalf, Exits

LEMMA ReturnKeeps == ASSUME ExitInv, process = "running", MainReturns PROVE ExitInv'
<1>1. stop = "stopped" /\ watcher = "done" /\ \A c \in Calls : handler[c] # "running"
  BY DEF ExitInv, RpcInv, GatewayInv, MainReturns
<1>2. Shape' /\ RpcInv' /\ GatewayInv'
  BY DEF ExitInv, Shape, RpcInv, GatewayInv, Busy, MainReturns, Exits
<1>3. ASSUME ~late, NEW c \in Calls PROVE client'[c] # "lost"
  <2>1. CASE client[c] = "waiting"
    <3>1. ~call[c].http
      BY <1>1, <1>3, <2>1 DEF ExitInv, GatewayInv, Busy
    <3>2. handler[c] = "done"
      BY <1>1, <2>1, <3>1 DEF ExitInv, Shape, CallInv
    <3> QED
      BY <2>1, <3>1, <3>2 DEF MainReturns, Exits, Sent
  <2> QED
    BY <2>1 DEF ExitInv, Shape, CallInv, MainReturns, Exits
<1>4. \A c \in Calls : client'[c] = "waiting" => client[c] = "waiting"
  BY DEF ExitInv, Shape, MainReturns, Exits
<1> QED
  BY <1>2, <1>3, <1>4 DEF ExitInv, CallInv, MainReturns, Exits

(* The steps of the goroutines that are not an exit. *)
LEMMA RpcKeeps ==
    ASSUME ExitInv, process = "running", Interrupt \/ ServeRpc \/ RpcFails \/ StopRpc
    PROVE  ExitInv'
<1>1. CASE RpcTooLate \/ RpcFails
  BY <1>1, FatalKeeps DEF RpcTooLate, RpcFails
<1>2. CASE Interrupt
  BY <1>2 DEF ExitInv, Shape, RpcInv, GatewayInv, CallInv, Busy, Interrupt, calls
<1>3. CASE RpcListen \/ RpcServe \/ RpcEnds
  BY <1>3 DEF ExitInv, Shape, RpcInv, GatewayInv, CallInv, Busy, RpcListen, RpcServe, RpcEnds, Rpc, calls
<1>4. CASE StopRpc
  BY <1>4 DEF ExitInv, Shape, RpcInv, GatewayInv, CallInv, Busy, StopRpc, GracefulStop,
              GracefulStopped, Stop, calls
<1> QED
  BY <1>1, <1>2, <1>3, <1>4 DEF ServeRpc

LEMMA GatewayKeeps ==
    ASSUME ExitInv, process = "running", ServeGateway \/ GatewayFails \/ CloseConn \/ Watcher
    PROVE  ExitInv'
<1> USE DEF ExitInv, Shape, RpcInv, GatewayInv, CallInv, Busy, calls
<1>1. CASE gateway \in {"begun", "watched"} /\ Fatalf
  BY <1>1, FatalKeeps
<1>2. CASE Gateway("serving", "left") /\ UNCHANGED <<watcher, conn>>
  BY <1>2 DEF Gateway
<1>3. CASE Register \/ Watch \/ GatewayListen \/ GatewayServe \/ GatewayEnds
  BY <1>3 DEF Register, Watch, GatewayListen, GatewayServe, GatewayEnds, Gateway
<1>4. CASE CloseConn
  BY <1>4 DEF CloseConn
<1>5. CASE Watcher
  BY <1>5 DEF Watcher, ShutdownBegins, ShutdownEnds, ShutdownTimesOut, Shutdown
<1> QED
  BY <1>1, <1>2, <1>3, <1>4, <1>5 DEF ServeGateway, GatewayFails

(* The steps of a call. *)
LEMMA CallKeeps ==
    ASSUME ExitInv, process = "running", NEW c \in Calls,
           \/ \E r \in Requests[c] : Request(c, r)
           \/ \E d \in Direct[c] : DirectCall(c, d)
           \/ Handle(c)
           \/ Forward(c)
    PROVE  ExitInv'
<1> USE DEF ExitInv, Shape, RpcInv, GatewayInv, CallInv, Busy, goroutines
<1>1. CASE \E r \in Requests[c] : Request(c, r)
  <2> PICK r \in Requests[c] : Request(c, r)
    BY <1>1
  <2>1. gateway = "serving" /\ client[c] = "new" /\ UNCHANGED <<goroutines, handler>>
    BY DEF Request
  <2>2. CASE client' = [client EXCEPT ![c] = "answered"] /\ UNCHANGED call
    BY <2>1, <2>2
  <2>3. CASE /\ client' = [client EXCEPT ![c] = "waiting"]
             /\ call' = [call EXCEPT ![c] = [http |-> TRUE, method |-> Routed(service, r).method,
                                             message |-> Bind(Routed(service, r), r)]]
    BY <2>1, <2>3
  <2> QED
    BY <2>2, <2>3 DEF Request, Answered
<1>2. CASE \E d \in Direct[c] : DirectCall(c, d)
  <2> PICK d \in Direct[c] : DirectCall(c, d)
    BY <1>2
  <2> QED
    BY DEF DirectCall, Accepts
<1>3. CASE Select(c) \/ Commit(c)
  BY <1>3 DEF Select, Commit
<1>4. CASE Finish(c)
  BY <1>4 DEF Finish, Ends
<1>5. CASE Invoke(c)
  BY <1>5 DEF Invoke, Accepts
<1>6. CASE CallFails(c)
  BY <1>6 DEF CallFails, Answered
<1>7. CASE Answer(c)
  BY <1>7 DEF Answer, Answered
<1> QED
  BY <1>1, <1>2, <1>3, <1>4, <1>5, <1>6, <1>7 DEF Handle, Forward

LEMMA NextKeeps == ExitInv /\ [Next \/ ReadLate]_vars => ExitInv'
<1> SUFFICES ASSUME ExitInv, [Next \/ ReadLate]_vars PROVE ExitInv'
  OBVIOUS
<1>1. CASE Next
  BY <1>1, RpcKeeps, GatewayKeeps, ReturnKeeps, CallKeeps DEF Next
<1>2. CASE ReadLate
  BY <1>2 DEF ReadLate, Answer, Answered, ExitInv, Shape, RpcInv, GatewayInv, CallInv, Busy, goroutines
<1>3. CASE UNCHANGED vars
  BY <1>3 DEF vars, goroutines, calls, ExitInv, Shape, RpcInv, GatewayInv, CallInv, Busy
<1> QED
  BY <1>1, <1>2, <1>3

(* How the goroutines wait for each other holds of every run. *)
THEOREM ExitInvariant == Spec => []ExitInv
  BY InitExit, NextKeeps, PTL DEF Spec

(* A process that returned in time has left no call without its answer and *)
(* no handler at work.                                                     *)
THEOREM CleanExitCorrect == Spec => []CleanExit
<1>1. ExitInv => CleanExit
  BY DEF ExitInv, RpcInv, CallInv, CleanExit
<1> QED
  BY <1>1, ExitInvariant, PTL

(* Nothing is changed once GracefulStop has returned. *)
LEMMA OnlyHandlersCommit ==
    ASSUME ExitInv, [Next \/ ReadLate]_vars, stop = "stopped"
    PROVE  UNCHANGED <<committed, greetings>>
<1>1. \A c \in Calls : ~Commit(c)
  BY DEF ExitInv, RpcInv, Commit
<1>2. CASE Interrupt \/ ServeRpc \/ RpcFails \/ StopRpc
  BY <1>2 DEF Interrupt, ServeRpc, RpcListen, RpcServe, RpcTooLate, RpcEnds, RpcFails, Rpc, StopRpc,
              GracefulStop, GracefulStopped, Stop, Fatalf, Exits, calls
<1>3. CASE ServeGateway \/ GatewayFails \/ CloseConn \/ Watcher \/ MainReturns
  BY <1>3 DEF ServeGateway, Register, Watch, GatewayListen, GatewayServe, GatewayEnds, Gateway,
              GatewayFails, CloseConn, Watcher, ShutdownBegins, ShutdownEnds, ShutdownTimesOut,
              Shutdown, MainReturns, Fatalf, Exits, calls
<1>4. ASSUME NEW c \in Calls,
             \/ \E r \in Requests[c] : Request(c, r)
             \/ \E d \in Direct[c] : DirectCall(c, d)
             \/ Handle(c)
             \/ Forward(c)
      PROVE  UNCHANGED <<committed, greetings>>
  BY <1>1, <1>4 DEF Request, DirectCall, Handle, Select, Finish, Ends, Forward, Invoke, CallFails, Answer
<1>5. CASE ReadLate
  BY <1>5 DEF ReadLate, Answer
<1>6. CASE UNCHANGED vars
  BY <1>6 DEF vars, calls
<1> QED
  BY <1>2, <1>3, <1>4, <1>5, <1>6 DEF Next

THEOREM NoCommitAfterStopCorrect == Spec => NoCommitAfterStop
<1>1. ExitInv /\ [Next \/ ReadLate]_vars
        => [stop = "stopped" => UNCHANGED <<committed, greetings>>]_vars
  BY OnlyHandlersCommit
<1> QED
  BY <1>1, ExitInvariant, PTL DEF Spec, NoCommitAfterStop
-----------------------------------------------------------------------------
(* An error that a handler of ours ends with. *)
IsError(e) == /\ e.kind \in {"custom", "status", "plain"}
              /\ e.kind = "custom" => e.code \in Code \ {0}
              /\ e.kind = "status" => e.status # "OK"

(* What the interceptor makes of such an error: a code that the services   *)
(* have, unless it is a status of gRPC.                                    *)
LEMMA Translations ==
    ASSUME NEW e, IsError(e)
    PROVE  /\ e # NoError
           /\ translateError(e) \in Code
           /\ translateError(e) = 0 <=> (e.kind = "status" /\ e.status # "Unknown")
           /\ e.kind = "custom" => translateError(e) = e.code
<1>1. e # NoError
  <2>1. NoError.kind = "none"
    BY DEF NoError
  <2> QED
    BY <2>1 DEF IsError
<1>2. \A text : translateWellKnownErrorMessage(text) \in Code \ {0}
  BY DEF translateWellKnownErrorMessage, Code
<1>3. 0 \in Code
  BY DEF Code
<1>4. CASE e.kind = "custom"
  BY <1>1, <1>4 DEF translateError, IsError
<1>5. CASE e.kind = "status" /\ e.status # "Unknown"
  BY <1>1, <1>3, <1>5 DEF translateError
<1>6. CASE e.kind # "custom" /\ ~(e.kind = "status" /\ e.status # "Unknown")
  <2>1. translateError(e) = translateWellKnownErrorMessage(e.text)
    BY <1>6 DEF translateError
  <2> QED
    BY <1>1, <1>2, <1>6, <2>1
<1> QED
  BY <1>4, <1>5, <1>6

(* No client takes an error for a success.                                 *)
LEMMA ErrorsAreSeen ==
    ASSUME NEW method \in Methods, NEW e, IsError(e)
    PROVE  ReadBy(method, UnaryServerInterceptor(method, e)) # Status0("OK")
<1>1. CASE translateError(e) = 0
  <2>1. ReadBy(method, UnaryServerInterceptor(method, e)) = [status |-> e.status, code |-> 0]
    BY <1>1, Translations, ErrorsReadBack
  <2>2. e.status # "OK"
    BY <1>1, Translations DEF IsError
  <2> QED
    BY <2>1, <2>2 DEF Status0
<1>2. CASE translateError(e) # 0
  BY <1>2, Translations, ErrorsReadBack DEF Status0
<1> QED
  BY <1>1, <1>2

LEMMA ChangingAreMethods == Changing \subseteq Methods
  BY DEF Changing, Methods, EchoResponses, AssocResponses

(* A handler that ended without error has committed; a client that reads   *)
(* success reads of such a handler.                                        *)
CommitInv ==
    \A c \in Calls :
        /\ client[c] = "new" => handler[c] = "none"
        /\ handler[c] = "done" => failure[c] = NoError \/ IsError(failure[c])
        /\ (handler[c] = "done" /\ failure[c] = NoError /\ call[c].method \in Changing) => committed[c]
        /\ (client[c] = "answered" /\ answer[c] = Status0("OK") /\ call[c].method \in Changing)
               => committed[c]

Shape2 ==
    /\ committed \in [Calls -> BOOLEAN]
    /\ failure = [c \in Calls |-> failure[c]]
    /\ answer = [c \in Calls |-> answer[c]]

AnswerInv == Shape /\ Shape2 /\ CommitInv

LEMMA InitAnswer == Init => AnswerInv
  BY DEF Init, AnswerInv, Shape, Shape2, CommitInv

LEMMA RefusalIsError ==
    ASSUME NEW method, NEW m PROVE Refusal(method, m) = NoError \/ IsError(Refusal(method, m))
<1>1. IsError(GrpcStatus("Unimplemented")) /\ IsError(Plain("other")) /\ IsError(Ours(1000))
  <2>1. 1000 \in Code \ {0}
    BY DEF Code
  <2> QED
    BY <2>1 DEF IsError, GrpcStatus, Plain, Ours
<1>2. Refusal(method, m) \in {GrpcStatus("Unimplemented"), Plain("other"), Ours(1000), NoError}
  BY DEF Refusal
<1> QED
  BY <1>1, <1>2

LEMMA FinishKeeps == ASSUME AnswerInv, NEW c \in Calls, Finish(c) PROVE AnswerInv'
<1> PICK e \in Outcomes(c) : Ends(c, e)
  BY DEF Finish
<1> DEFINE refusal == Refusal(call[c].method, call[c].message)
<1>1. \A f \in Errors : IsError(f) /\ f # NoError
  <2>1. \A f \in Errors : f.kind # NoError.kind
    BY ErrorsAssumption DEF NoError
  <2> QED
    BY <2>1, ErrorsAssumption DEF IsError
<1>2. (e = refusal /\ refusal # NoError)
        \/ e \in Errors \/ (e = NoError /\ Succeeds(c))
  BY DEF Outcomes
<1>3. e = NoError \/ IsError(e)
  BY <1>1, <1>2, RefusalIsError
<1>4. (e = NoError /\ call[c].method \in Changing) => committed[c]
  BY <1>1, <1>2 DEF Succeeds
<1> QED
  BY <1>3, <1>4 DEF Ends, AnswerInv, Shape, Shape2, CommitInv, goroutines

LEMMA AnswerKeeps == ASSUME AnswerInv, NEW c \in Calls, Answer(c) PROVE AnswerInv'
<1>1. (answer'[c] = Status0("OK") /\ call[c].method \in Changing) => failure[c] = NoError
  BY ErrorsAreSeen, ChangingAreMethods DEF Answer, Answered, AnswerInv, Shape2, CommitInv
<1> QED
  BY <1>1 DEF Answer, Answered, AnswerInv, Shape, Shape2, CommitInv, goroutines

LEMMA ExitsKeeps == ASSUME AnswerInv, NEW how, NEW sent, Exits(how, sent) PROVE AnswerInv'
  BY DEF Exits, AnswerInv, Shape, Shape2, CommitInv

LEMMA AnswerStep == AnswerInv /\ [Next \/ ReadLate]_vars => AnswerInv'
<1> SUFFICES ASSUME AnswerInv, [Next \/ ReadLate]_vars PROVE AnswerInv'
  OBVIOUS
<1>1. CASE UNCHANGED calls /\ late' \in BOOLEAN
  BY <1>1 DEF calls, AnswerInv, Shape, Shape2, CommitInv
<1>2. ASSUME Fatalf \/ MainReturns PROVE AnswerInv'
  BY <1>2, ExitsKeeps DEF Fatalf, MainReturns
<1>3. CASE Interrupt \/ ServeRpc \/ RpcFails \/ StopRpc
  BY <1>1, <1>2, <1>3 DEF Interrupt, ServeRpc, RpcListen, RpcServe, RpcTooLate, RpcEnds, RpcFails,
              Rpc, StopRpc, GracefulStop, GracefulStopped, Stop, AnswerInv, Shape
<1>4. CASE ServeGateway \/ GatewayFails \/ CloseConn \/ Watcher \/ MainReturns
  BY <1>1, <1>2, <1>4 DEF ServeGateway, Register, Watch, GatewayListen, GatewayServe, GatewayEnds,
              Gateway, GatewayFails, CloseConn, Watcher, ShutdownBegins, ShutdownEnds,
              ShutdownTimesOut, Shutdown, AnswerInv, Shape
<1>5. ASSUME NEW c \in Calls, NEW r, Request(c, r) PROVE AnswerInv'
  <2>1. /\ client[c] = "new"
        /\ UNCHANGED <<goroutines, handler, committed, failure, greetings>>
    BY <1>5 DEF Request
  <2>2. CASE /\ client' = [client EXCEPT ![c] = "waiting"]
             /\ call' = [call EXCEPT ![c] = [http |-> TRUE, method |-> Routed(service, r).method,
                                             message |-> Bind(Routed(service, r), r)]]
             /\ UNCHANGED answer
    BY <2>1, <2>2 DEF AnswerInv, Shape, Shape2, CommitInv, goroutines
  <2>3. ASSUME NEW s \in {"NotFound", "InvalidArgument"}, Answered(c, Status0(s)), UNCHANGED call
        PROVE  AnswerInv'
    <3>1. Status0(s) # Status0("OK")
      BY DEF Status0
    <3> QED
      BY <2>1, <2>3, <3>1 DEF Answered, AnswerInv, Shape, Shape2, CommitInv, goroutines
  <2> QED
    BY <1>5, <2>2, <2>3 DEF Request
<1>6. ASSUME NEW c \in Calls, NEW d, DirectCall(c, d) PROVE AnswerInv'
  BY <1>6 DEF DirectCall, AnswerInv, Shape, Shape2, CommitInv, goroutines
<1>7. ASSUME NEW c \in Calls, Select(c) \/ Commit(c) \/ Invoke(c) PROVE AnswerInv'
  BY <1>7 DEF Select, Commit, Invoke, AnswerInv, Shape, Shape2, CommitInv, goroutines
<1>8. ASSUME NEW c \in Calls, CallFails(c) PROVE AnswerInv'
  <2>1. Status0("Canceled") # Status0("OK") /\ Status0("Unavailable") # Status0("OK")
    BY DEF Status0
  <2> QED
    BY <1>8, <2>1 DEF CallFails, Answered, AnswerInv, Shape, Shape2, CommitInv, goroutines
<1>9. CASE UNCHANGED vars
  BY <1>1, <1>9 DEF vars, goroutines, AnswerInv, Shape
<1> QED
  BY <1>3, <1>4, <1>5, <1>6, <1>7, <1>8, <1>9, FinishKeeps, AnswerKeeps
     DEF Next, ReadLate, Handle, Forward

(* A client that reads success has what it asked for in the database.      *)
THEOREM OkMeansCommittedCorrect == Spec => []OkMeansCommitted
<1>1. AnswerInv => OkMeansCommitted
  BY DEF AnswerInv, CommitInv, OkMeansCommitted
<1> QED
  BY <1>1, InitAnswer, AnswerStep, PTL DEF Spec
-----------------------------------------------------------------------------
(* What a client reads when a method ends with error e. *)
ReadOf(e) == IF e = NoError THEN Status0("OK")
             ELSE IF translateError(e) # 0 THEN [status |-> "OK", code |-> translateError(e)]
             ELSE Status0(e.status)

(* A call is of a method that there is; and whoever was answered of a      *)
(* handler has read how it ended, unless it was canceled.                  *)
CodeInv ==
    \A c \in Calls :
        /\ client[c] = "waiting" => call[c].method \in Methods
        /\ answer[c].code \in Code
        /\ (client[c] = "answered" /\ handler[c] # "none")
              => \/ answer[c] = Status0("Canceled")
                 \/ handler[c] = "done" /\ answer[c] = ReadOf(failure[c])

LEMMA InitCode == Init => CodeInv
<1>1. NoAnswer.code \in Code
  BY DEF NoAnswer, Code
<1> QED
  BY <1>1 DEF Init, CodeInv

LEMMA StatusHasCode == \A s : Status0(s).code \in Code
  BY DEF Status0, Code

LEMMA CodesRead ==
    ASSUME NEW e, e = NoError \/ IsError(e) PROVE ReadOf(e).code \in Code
<1>1. CASE e = NoError
  BY <1>1, StatusHasCode DEF ReadOf
<1>2. CASE e # NoError /\ translateError(e) # 0
  BY <1>2, Translations DEF ReadOf
<1>3. CASE e # NoError /\ translateError(e) = 0
  BY <1>3, StatusHasCode DEF ReadOf
<1> QED
  BY <1>1, <1>2, <1>3

LEMMA RequestCodes ==
    ASSUME AnswerInv, CodeInv, NEW c \in Calls, NEW r, Request(c, r) PROVE CodeInv'
<1>1. client[c] = "new" /\ handler[c] = "none" /\ UNCHANGED <<goroutines, handler, failure>>
  BY DEF Request, AnswerInv, CommitInv
<1>2. ASSUME Matching(service, r) # {},
             client' = [client EXCEPT ![c] = "waiting"],
             call' = [call EXCEPT ![c] = [http |-> TRUE, method |-> Routed(service, r).method,
                                          message |-> Bind(Routed(service, r), r)]],
             UNCHANGED answer
      PROVE  CodeInv'
  <2>1. Routed(service, r).method \in Methods
    BY <1>2, RoutedIsRoute, RoutesOfMethods
  <2> QED
    BY <1>1, <1>2, <2>1 DEF AnswerInv, Shape, CodeInv
<1>3. ASSUME NEW s, Answered(c, Status0(s)), UNCHANGED call PROVE CodeInv'
  BY <1>1, <1>3, StatusHasCode DEF Answered, AnswerInv, Shape, Shape2, CodeInv
<1> QED
  BY <1>2, <1>3 DEF Request

LEMMA DirectCodes ==
    ASSUME AnswerInv, CodeInv, NEW c \in Calls, NEW d \in Direct[c], DirectCall(c, d) PROVE CodeInv'
<1>1. d.method \in Methods
  BY DirectAssumption DEF Methods, EchoMethods, AssocMethods
<1> QED
  BY <1>1 DEF DirectCall, AnswerInv, Shape, CodeInv

LEMMA FinishCodes == ASSUME AnswerInv, CodeInv, NEW c \in Calls, Finish(c) PROVE CodeInv'
<1> PICK e \in Outcomes(c) : Ends(c, e)
  BY DEF Finish
<1> QED
  BY DEF Ends, AnswerInv, Shape, Shape2, CodeInv

LEMMA AnswerCodes == ASSUME AnswerInv, CodeInv, NEW c \in Calls, Answer(c) PROVE CodeInv'
<1>1. ReadBy(call[c].method, UnaryServerInterceptor(call[c].method, failure[c])) = ReadOf(failure[c])
  BY ErrorsReadBack DEF Answer, CodeInv, ReadOf, Status0
<1>2. ReadOf(failure[c]).code \in Code
  BY CodesRead DEF Answer, AnswerInv, CommitInv
<1> QED
  BY <1>1, <1>2 DEF Answer, Answered, AnswerInv, Shape, Shape2, CodeInv

LEMMA CodeStep == AnswerInv /\ CodeInv /\ [Next \/ ReadLate]_vars => CodeInv'
<1> SUFFICES ASSUME AnswerInv, CodeInv, [Next \/ ReadLate]_vars PROVE CodeInv'
  OBVIOUS
<1>1. CASE UNCHANGED calls
  BY <1>1 DEF calls, CodeInv
<1>2. ASSUME Fatalf \/ MainReturns PROVE CodeInv'
  BY <1>2 DEF Fatalf, MainReturns, Exits, AnswerInv, Shape, CodeInv
<1>3. CASE Interrupt \/ ServeRpc \/ RpcFails \/ StopRpc
  BY <1>1, <1>2, <1>3 DEF Interrupt, ServeRpc, RpcListen, RpcServe, RpcTooLate, RpcEnds, RpcFails,
              Rpc, StopRpc, GracefulStop, GracefulStopped, Stop
<1>4. CASE ServeGateway \/ GatewayFails \/ CloseConn \/ Watcher \/ MainReturns
  BY <1>1, <1>2, <1>4 DEF ServeGateway, Register, Watch, GatewayListen, GatewayServe, GatewayEnds,
              Gateway, GatewayFails, CloseConn, Watcher, ShutdownBegins, ShutdownEnds,
              ShutdownTimesOut, Shutdown
<1>5. ASSUME NEW c \in Calls, Select(c) \/ Commit(c) \/ Invoke(c) PROVE CodeInv'
  BY <1>5 DEF Select, Commit, Invoke, AnswerInv, Shape, CodeInv
<1>6. ASSUME NEW c \in Calls, CallFails(c) PROVE CodeInv'
  BY <1>6, StatusHasCode DEF CallFails, Answered, AnswerInv, Shape, Shape2, CodeInv
<1>7. CASE UNCHANGED vars
  BY <1>1, <1>7 DEF vars
<1> QED
  BY <1>3, <1>4, <1>5, <1>6, <1>7, RequestCodes, DirectCodes, FinishCodes, AnswerCodes
     DEF Next, ReadLate, Handle, Forward

LEMMA CodeInvariant == Spec => [](AnswerInv /\ CodeInv)
  BY InitAnswer, InitCode, AnswerStep, CodeStep, PTL DEF Spec

(* Every error of a handler that is not a status of gRPC is read as a      *)
(* response with its code, and no success has a code.                      *)
THEOREM ErrorsKeepTheirCodeCorrect == Spec => []ErrorsKeepTheirCode
<1>1. ASSUME AnswerInv, CodeInv, NEW c \in Calls,
             client[c] = "answered", handler[c] = "done", answer[c].status # "Canceled"
      PROVE  CASE failure[c].kind = "none"   -> answer[c] = Status0("OK")
               [] failure[c].kind = "custom" -> answer[c] = [status |-> "OK", code |-> failure[c].code]
               [] failure[c].kind = "status" /\ failure[c].status # "Unknown"
                                             -> answer[c] = Status0(failure[c].status)
               [] OTHER                      -> answer[c].status = "OK" /\ answer[c].code # 0
  <2> DEFINE e == failure[c]
  <2>1. answer[c] = ReadOf(e) /\ (e = NoError \/ IsError(e))
    <3>1. answer[c] # Status0("Canceled")
      BY <1>1 DEF Status0
    <3> QED
      BY <1>1, <3>1 DEF CodeInv, AnswerInv, CommitInv
  <2>2. CASE e = NoError
    <3>1. e.kind = "none"
      <4>1. NoError.kind = "none"
        BY DEF NoError
      <4> QED
        BY <2>2, <4>1
    <3> QED
      BY <2>1, <2>2, <3>1 DEF ReadOf
  <2>3. CASE IsError(e)
    <3>1. /\ e # NoError /\ e.kind # "none"
          /\ translateError(e) = 0 <=> (e.kind = "status" /\ e.status # "Unknown")
          /\ e.kind = "custom" => translateError(e) = e.code
      BY <2>3, Translations DEF IsError
    <3>2. CASE e.kind = "custom"
      BY <2>1, <3>1, <3>2 DEF ReadOf
    <3>3. CASE e.kind = "status" /\ e.status # "Unknown"
      BY <2>1, <3>1, <3>3 DEF ReadOf
    <3>4. CASE e.kind # "custom" /\ ~(e.kind = "status" /\ e.status # "Unknown")
      BY <2>1, <3>1, <3>4 DEF ReadOf
    <3> QED
      BY <3>2, <3>3, <3>4
  <2> QED
    BY <2>1, <2>2, <2>3
<1>2. AnswerInv /\ CodeInv => ErrorsKeepTheirCode
  BY <1>1 DEF ErrorsKeepTheirCode
<1> QED
  BY <1>2, CodeInvariant, PTL
-----------------------------------------------------------------------------
(* Where the goroutines can be, and what is stored. *)
Places ==
    /\ service \in {"echo", "assoc"}
    /\ process \in {"running", "returned", "dead"}
    /\ interrupted \in BOOLEAN /\ late \in BOOLEAN
    /\ rpc \in {"begun", "listening", "serving", "ended"}
    /\ stop \in {"waiting", "stopping", "stopped"}
    /\ gateway \in {"begun", "registered", "watched", "listening", "serving", "left", "ended"}
    /\ watcher \in {"none", "waiting", "shutting", "done"}
    /\ conn \in {"none", "open", "closed"}

Store == DOMAIN greetings = Ids

LEMMA CommitStores == ASSUME Store, NEW c \in Calls, Commit(c) PROVE Store'
<1> DEFINE method == call[c].method
           m == call[c].message
<1>1. ASSUME NEW id, Save(id, GreetingOf(m)) PROVE Store'
  BY <1>1 DEF Save, Store
<1>2. Effect(c)
  BY DEF Commit
<1>3. CASE method = "CreateGreeting"
  <2>1. \E id \in Absent : Save(id, GreetingOf(m))
    BY <1>2, <1>3 DEF Effect
  <2> QED
    BY <1>1, <2>1
<1>4. CASE method = "UpdateGreeting"
  <2>1. \E id : Save(id, GreetingOf(m))
    BY <1>2, <1>4 DEF Effect
  <2> QED
    BY <1>1, <2>1
<1>5. CASE method = "DeleteGreeting"
  <2>1. greetings' = [greetings EXCEPT ![IdIn(m)] = None]
    BY <1>2, <1>5 DEF Effect
  <2> QED
    BY <2>1 DEF Store
<1>6. CASE method = "DeleteGreetings"
  <2>1. \E S \in SUBSET Ids : greetings' = [i \in Ids |-> IF i \in S THEN None ELSE greetings[i]]
    BY <1>2, <1>6 DEF Effect
  <2> QED
    BY <2>1 DEF Store
<1>7. CASE method \notin {"CreateGreeting", "UpdateGreeting", "DeleteGreeting", "DeleteGreetings"}
  <2>1. UNCHANGED greetings
    BY <1>2, <1>7 DEF Effect
  <2> QED
    BY <2>1 DEF Store
<1> QED
  BY <1>3, <1>4, <1>5, <1>6, <1>7

LEMMA TypeStep == Places /\ Store /\ [Next \/ ReadLate]_vars => (Places /\ Store)'
<1> SUFFICES ASSUME Places, Store, [Next \/ ReadLate]_vars PROVE (Places /\ Store)'
  OBVIOUS
<1>1. ASSUME Fatalf \/ MainReturns PROVE (Places /\ Store)'
  BY <1>1 DEF Fatalf, MainReturns, Exits, Places, Store
<1>2. CASE Interrupt \/ ServeRpc \/ RpcFails \/ StopRpc
  BY <1>1, <1>2 DEF Interrupt, ServeRpc, RpcListen, RpcServe, RpcTooLate, RpcEnds, RpcFails,
              Rpc, StopRpc, GracefulStop, GracefulStopped, Stop, calls, Places, Store
<1>3. CASE ServeGateway \/ GatewayFails \/ CloseConn \/ MainReturns
  BY <1>1, <1>3 DEF ServeGateway, Register, Watch, GatewayListen, GatewayServe, GatewayEnds,
              Gateway, GatewayFails, CloseConn, calls, Places, Store
<1>4. CASE Watcher
  BY <1>4 DEF Watcher, ShutdownBegins, ShutdownEnds, ShutdownTimesOut, Shutdown, calls, Places, Store
<1>5. ASSUME NEW c \in Calls, ~Commit(c),
             \/ \E r \in Requests[c] : Request(c, r)
             \/ \E d \in Direct[c] : DirectCall(c, d)
             \/ Handle(c)
             \/ Forward(c)
      PROVE  UNCHANGED <<goroutines, greetings>>
  BY <1>5 DEF Request, DirectCall, Handle, Select, Finish, Ends, Forward, Invoke, CallFails, Answer
<1>6. ASSUME NEW c \in Calls, Commit(c) PROVE (Places /\ Store)'
  <2>1. UNCHANGED goroutines
    BY <1>6 DEF Commit
  <2> QED
    BY <1>6, <2>1, CommitStores DEF goroutines, Places
<1>7. CASE ReadLate
  BY <1>7 DEF ReadLate, Answer, goroutines, Places, Store
<1>8. CASE UNCHANGED vars
  BY <1>8 DEF vars, goroutines, calls, Places, Store
<1>9. CASE UNCHANGED <<goroutines, greetings>>
  BY <1>9 DEF goroutines, Places, Store
<1> QED
  BY <1>2, <1>3, <1>4, <1>5, <1>6, <1>7, <1>8, <1>9 DEF Next

(* The types of the variables; and the client reads the codes of the       *)
(* services, no other number.                                              *)
THEOREM TypeCorrect == Spec => []TypeOK
<1>1. Init => Places /\ Store
  BY DEF Init, Places, Store
<1>2. Places /\ Store /\ AnswerInv /\ CodeInv => TypeOK
  BY DEF Places, Store, AnswerInv, Shape, Shape2, CodeInv, TypeOK
<1> QED
  BY <1>1, <1>2, TypeStep, CodeInvariant, PTL DEF Spec
-----------------------------------------------------------------------------
(* Neither the way into a row nor the way out of it changes the contents   *)
(* of a greeting, and what comes out has the id of the column.             *)
LEMMA ContentsKept ==
    ASSUME NEW g, NEW id
    PROVE  /\ ContentsOf(EoToDo(g)) = ContentsOf(g)
           /\ ContentsOf(With(g, "id", id)) = ContentsOf(g)
           /\ With(g, "id", id)["id"] = id
<1>1. "id" \notin Contents
  BY DEF Contents
<1>2. Contents \cap DOMAIN EoToDo(g) = Contents \cap DOMAIN g
  BY DEF EoToDo
<1>3. Contents \cap DOMAIN With(g, "id", id) = Contents \cap DOMAIN g
  BY <1>1 DEF With
<1>4. ContentsOf(EoToDo(g)) = ContentsOf(g)
  BY <1>2 DEF ContentsOf, EoToDo
<1>5. ContentsOf(With(g, "id", id)) = ContentsOf(g)
  BY <1>1, <1>3 DEF ContentsOf, With
<1> QED
  BY <1>4, <1>5 DEF With

(* What a call has written stays written by it: neither the call nor, for  *)
(* the id of its row, its result changes once it has committed.            *)
Settled ==
    \A d \in Calls : committed[d] =>
        /\ committed'[d] /\ call'[d] = call[d]
        /\ call[d].method = "CreateGreeting" => result'[d] = result[d]

LEMMA WrittenStays ==
    ASSUME Settled, NEW id, NEW g, NEW h, Written(id, g), ContentsOf(h) = ContentsOf(g)
    PROVE  Written(id, h)'
<1>1. \A d \in Calls : Wrote(d, id) => Wrote(d, id)' /\ call'[d] = call[d]
  BY DEF Settled, Wrote
<1> QED
  BY <1>1 DEF Written, ContentsOf

(* Every row was written, and so was every greeting that a handler holds,  *)
(* in the row of its id; nothing is held before a handler runs.            *)
RowsWritten == \A id \in Ids : greetings[id] # None => Written(id, greetings[id])

Rightly(c, g) ==
    /\ call[c].method # "CreateGreeting" => g["id"] = IdIn(call[c].message)
    /\ Written(g["id"], g)

HeldWritten == \A c \in Calls : result[c] # None => Rightly(c, result[c])

WrittenInv ==
    /\ RowsWritten /\ HeldWritten
    /\ result = [c \in Calls |-> result[c]]
    /\ \A c \in Calls : handler[c] = "none" => ~committed[c] /\ result[c] = None

LEMMA RightlyNext ==
    ASSUME \A c \in Calls : \A g : (g = result'[c] /\ g # None) => Rightly(c, g)'
    PROVE  HeldWritten'
  BY DEF HeldWritten, Rightly, Written, Wrote, ContentsOf, IdIn, GreetingOf, Set, At

LEMMA RightlyStays ==
    ASSUME Settled, NEW c \in Calls, NEW g, Rightly(c, g), call'[c] = call[c]
    PROVE  Rightly(c, g)'
<1>1. Written(g["id"], g)'
  BY WrittenStays DEF Rightly
<1>2. IdIn(call[c].message)' = IdIn(call[c].message)
  BY DEF IdIn, GreetingOf
<1> QED
  BY <1>1, <1>2 DEF Rightly

LEMMA InitWritten == Init => WrittenInv
<1> SUFFICES ASSUME Init PROVE WrittenInv
  OBVIOUS
<1>1. ContentsOf(Old) = Old
  BY DEF ContentsOf, Old
<1>2. \A id \in Ids : greetings[id] # None => id \in Present /\ greetings[id] = Old
  BY DEF Init
<1>3. RowsWritten
  BY <1>1, <1>2 DEF RowsWritten, Written
<1>4. HeldWritten /\ result = [c \in Calls |-> result[c]]
  BY DEF Init, HeldWritten
<1> QED
  BY <1>3, <1>4 DEF Init, WrittenInv

(* A step that changes neither a row nor what a handler holds, nor a call  *)
(* that has a handler.                                                     *)
LEMMA WrittenUnmoved ==
    ASSUME AnswerInv, WrittenInv, UNCHANGED <<committed, result, greetings>>,
           \A c \in Calls : handler[c] # "none" => call'[c] = call[c] /\ handler'[c] # "none"
    PROVE  WrittenInv'
<1>1. Settled
  BY DEF Settled, WrittenInv
<1>2. RowsWritten'
  BY <1>1, WrittenStays DEF WrittenInv, RowsWritten
<1>3. HeldWritten'
  <2> SUFFICES ASSUME NEW c \in Calls, NEW g, g = result'[c], g # None PROVE Rightly(c, g)'
    BY RightlyNext
  <2>1. call'[c] = call[c]
    BY DEF WrittenInv
  <2>2. Rightly(c, g)
    BY DEF WrittenInv, HeldWritten
  <2> QED
    BY <1>1, <2>1, <2>2, RightlyStays
<1>4. \A c \in Calls : handler'[c] = "none" => ~committed'[c] /\ result'[c] = None
  BY DEF WrittenInv
<1>5. result' = [c \in Calls |-> result'[c]]
  BY DEF WrittenInv
<1> QED
  BY <1>2, <1>3, <1>4, <1>5 DEF WrittenInv

(* What a SELECT finds was written in the row. *)
LEMMA SelectedWritten ==
    ASSUME WrittenInv, Settled, NEW id, NEW g, g = Selected(id), g # None
    PROVE  g["id"] = id /\ Written(id, g)'
<1>1. /\ id \in Ids /\ greetings[id] # None
      /\ g = With(greetings[id], "id", id)
  BY DEF Selected, Exists, DoToEo
<1>2. g["id"] = id /\ ContentsOf(g) = ContentsOf(greetings[id])
  BY <1>1, ContentsKept
<1>3. Written(id, greetings[id])
  BY <1>1 DEF WrittenInv, RowsWritten
<1> QED
  BY <1>2, <1>3, WrittenStays

(* A handler that takes up a greeting that it selected, or nothing. *)
LEMMA HoldsKeeps ==
    ASSUME AnswerInv, WrittenInv, NEW c \in Calls,
           handler[c] = "running", handler'[c] # "none",
           \A d \in Calls \ {c} : handler'[d] = handler[d],
           UNCHANGED <<call, committed, greetings>>,
           \/ call[c].method # "CreateGreeting" /\ Holds(c, Selected(IdIn(call[c].message)))
           \/ UNCHANGED result
    PROVE  WrittenInv'
<1> DEFINE id == IdIn(call[c].message)
<1>1. CASE UNCHANGED result
  BY <1>1, WrittenUnmoved DEF AnswerInv, Shape
<1>2. CASE call[c].method # "CreateGreeting" /\ Holds(c, Selected(id))
  <2>1. Settled
    BY <1>2 DEF Settled, Holds, WrittenInv
  <2>2. RowsWritten'
    BY <2>1, WrittenStays DEF WrittenInv, RowsWritten
  <2>3. HeldWritten'
    <3> SUFFICES ASSUME NEW d \in Calls, NEW g, g = result'[d], g # None PROVE Rightly(d, g)'
      BY RightlyNext
    <3>1. CASE d = c
      <4>1. g = Selected(id)
        BY <1>2, <3>1 DEF Holds, WrittenInv
      <4>2. g["id"] = id /\ Written(id, g)'
        BY <2>1, <4>1, SelectedWritten
      <4>3. IdIn(call[c].message)' = id
        BY DEF IdIn, GreetingOf
      <4> QED
        BY <3>1, <4>2, <4>3 DEF Rightly
    <3>2. CASE d # c
      <4>1. Rightly(d, g)
        BY <1>2, <3>2 DEF Holds, WrittenInv, HeldWritten
      <4> QED
        BY <2>1, <4>1, RightlyStays
    <3> QED
      BY <3>1, <3>2
  <2>4. \A d \in Calls : handler'[d] = "none" => ~committed'[d] /\ result'[d] = None
    BY <1>2 DEF WrittenInv, Holds
  <2>5. result' = [d \in Calls |-> result'[d]]
    BY <1>2 DEF WrittenInv, Holds
  <2> QED
    BY <2>2, <2>3, <2>4, <2>5 DEF WrittenInv
<1> QED
  BY <1>1, <1>2
(* The rows after Commit(c), if those it changed are its own. *)
LEMMA RowsKept ==
    ASSUME AnswerInv, WrittenInv, Settled, NEW c \in Calls,
           \A i \in Ids : (greetings'[i] # None /\ greetings'[i] # greetings[i])
                           => Wrote(c, i)' /\ greetings'[i] = EoToDo(GreetingOf(call[c].message)),
           call' = call
    PROVE  RowsWritten'
<1> SUFFICES ASSUME NEW i \in Ids, NEW e, e = greetings'[i], e # None PROVE Written(i, e)'
  BY DEF RowsWritten, Written, Wrote, ContentsOf, IdIn, GreetingOf, Set, At
<1>1. CASE e = greetings[i]
  BY <1>1, WrittenStays DEF WrittenInv, RowsWritten
<1>2. CASE e # greetings[i]
  <2> PICK g : g = GreetingOf(call[c].message)
    OBVIOUS
  <2>1. ContentsOf(e) = ContentsOf(g)
    BY <1>2, ContentsKept
  <2>2. GreetingOf(call[c].message)' = g
    BY DEF GreetingOf
  <2>3. ContentsOf(GreetingOf(call[c].message))' = ContentsOf(g)
    BY <2>2 DEF ContentsOf
  <2> QED
    BY <1>2, <2>1, <2>3 DEF Written
<1> QED
  BY <1>1, <1>2

(* The greeting under its new id that CreateGreeting answers with. *)
LEMMA CreatedRightly ==
    ASSUME AnswerInv, NEW c \in Calls, NEW id, NEW g, call' = call,
           g = With(GreetingOf(call[c].message), "id", id), result'[c] = g, committed'[c],
           call[c].method = "CreateGreeting"
    PROVE  Wrote(c, id)' /\ Rightly(c, g)'
<1> PICK h : h = GreetingOf(call[c].message)
  OBVIOUS
<1>1. g["id"] = id /\ ContentsOf(g) = ContentsOf(h)
  BY ContentsKept
<1>2. GreetingOf(call[c].message)' = h
  BY DEF GreetingOf
<1>3. ContentsOf(GreetingOf(call[c].message))' = ContentsOf(h)
  BY <1>2 DEF ContentsOf
<1>4. Wrote(c, id)'
  BY <1>1 DEF Wrote
<1> QED
  BY <1>1, <1>3, <1>4 DEF Rightly, Written

(* What the handlers hold after Commit(c), if only its own changed. *)
LEMMA HeldKept ==
    ASSUME AnswerInv, WrittenInv, Settled, NEW c \in Calls, call' = call,
           \A d \in Calls \ {c} : result'[d] = result[d],
           \A g : g = result'[c] => g = result[c] \/ Rightly(c, g)'
    PROVE  HeldWritten'
<1> SUFFICES ASSUME NEW d \in Calls, NEW g, g = result'[d], g # None PROVE Rightly(d, g)'
  BY RightlyNext
<1>1. CASE g = result[d]
  BY <1>1, RightlyStays DEF WrittenInv, HeldWritten
<1>2. CASE g # result[d]
  BY <1>2
<1> QED
  BY <1>1, <1>2

LEMMA CommitWrites ==
    ASSUME AnswerInv, Store, WrittenInv, NEW c \in Calls, Commit(c) PROVE WrittenInv'
<1> DEFINE method == call[c].method
           m == call[c].message
           g == GreetingOf(m)
<1>1. /\ Effect(c) /\ call' = call /\ handler' = handler
      /\ ~committed[c] /\ committed'[c] /\ handler[c] = "running"
      /\ \A d \in Calls \ {c} : committed'[d] = committed[d]
  BY DEF Commit, AnswerInv, Shape2
<1>2. ASSUME RowsWritten', HeldWritten', result' = [d \in Calls |-> result'[d]],
             \A d \in Calls \ {c} : result'[d] = result[d]
      PROVE  WrittenInv'
  BY <1>1, <1>2 DEF WrittenInv
<1>3. CASE method = "CreateGreeting"
  <2> PICK id \in Absent : Save(id, g) /\ Holds(c, With(g, "id", id))
    BY <1>1, <1>3 DEF Effect
  <2>1. /\ result'[c] = With(g, "id", id)
        /\ \A d \in Calls \ {c} : result'[d] = result[d]
        /\ result' = [d \in Calls |-> result'[d]]
    BY DEF Holds, WrittenInv
  <2>2. Settled
    BY <1>1, <2>1 DEF Settled
  <2> PICK h : h = With(g, "id", id)
    OBVIOUS
  <2>3. Wrote(c, id)' /\ Rightly(c, h)'
    BY <1>1, <1>3, <2>1, CreatedRightly
  <2>4. \A i \in Ids : greetings'[i] # greetings[i] => i = id /\ greetings'[i] = EoToDo(g)
    BY DEF Save, Store
  <2>5. RowsWritten'
    BY <1>1, <2>2, <2>3, <2>4, RowsKept
  <2>6. HeldWritten'
    BY <1>1, <2>1, <2>2, <2>3, HeldKept
  <2> QED
    BY <1>2, <2>1, <2>5, <2>6
<1>4. CASE UNCHANGED result
  <2>1. Settled
    BY <1>1, <1>4 DEF Settled
  <2>2. HeldWritten'
    BY <1>1, <1>4, <2>1, HeldKept
  <2>3. CASE method = "UpdateGreeting"
    <3> PICK id : Save(id, g) /\ IdIn(m) \in {id, None}
      BY <1>1, <2>3 DEF Effect
    <3>1. \A i \in Ids : greetings'[i] # greetings[i] => i = id /\ greetings'[i] = EoToDo(g)
      BY DEF Save, Store
    <3>2. Wrote(c, id)'
      BY <1>1, <2>3 DEF Wrote, IdIn, GreetingOf
    <3>3. RowsWritten'
      BY <1>1, <2>1, <3>1, <3>2, RowsKept
    <3> QED
      BY <1>2, <1>4, <2>2, <3>3 DEF WrittenInv
  <2>4. CASE \A i \in Ids : greetings'[i] \in {None, greetings[i]}
    <3>1. RowsWritten'
      BY <1>1, <2>1, <2>4, RowsKept
    <3> QED
      BY <1>2, <1>4, <2>2, <3>1 DEF WrittenInv
  <2>5. CASE method = "DeleteGreeting"
    BY <1>1, <2>4, <2>5 DEF Effect, Store
  <2>6. CASE method = "DeleteGreetings"
    BY <1>1, <2>4, <2>6 DEF Effect
  <2>7. CASE method \notin {"CreateGreeting", "UpdateGreeting", "DeleteGreeting", "DeleteGreetings"}
    BY <1>1, <2>4, <2>7 DEF Effect
  <2> QED
    BY <1>3, <2>3, <2>5, <2>6, <2>7
<1> QED
  BY <1>1, <1>3, <1>4 DEF Effect

LEMMA WrittenStep ==
    AnswerInv /\ Store /\ WrittenInv /\ [Next \/ ReadLate]_vars => WrittenInv'
<1> SUFFICES ASSUME AnswerInv, Store, WrittenInv, [Next \/ ReadLate]_vars PROVE WrittenInv'
  OBVIOUS
<1>1. CASE UNCHANGED <<call, handler, committed, result, greetings>>
  BY <1>1, WrittenUnmoved
<1>2. ASSUME Fatalf \/ MainReturns PROVE WrittenInv'
  BY <1>1, <1>2 DEF Fatalf, MainReturns, Exits
<1>3. CASE Interrupt \/ ServeRpc \/ RpcFails \/ StopRpc
  BY <1>1, <1>2, <1>3 DEF Interrupt, ServeRpc, RpcListen, RpcServe, RpcTooLate, RpcEnds, RpcFails,
              Rpc, StopRpc, GracefulStop, GracefulStopped, Stop, calls
<1>4. CASE ServeGateway \/ GatewayFails \/ CloseConn \/ Watcher \/ MainReturns
  BY <1>1, <1>2, <1>4 DEF ServeGateway, Register, Watch, GatewayListen, GatewayServe, GatewayEnds,
              Gateway, GatewayFails, CloseConn, Watcher, ShutdownBegins, ShutdownEnds,
              ShutdownTimesOut, Shutdown, calls
<1>5. ASSUME NEW c \in Calls, NEW r, Request(c, r) PROVE WrittenInv'
  <2>1. /\ client[c] = "new" /\ handler[c] = "none" /\ UNCHANGED <<handler, committed, result, greetings>>
        /\ \A d \in Calls \ {c} : call'[d] = call[d]
    BY <1>5 DEF Request, AnswerInv, Shape, CommitInv
  <2> QED
    BY <2>1, WrittenUnmoved
<1>6. ASSUME NEW c \in Calls, NEW d, DirectCall(c, d) PROVE WrittenInv'
  <2>1. /\ client[c] = "new" /\ handler[c] = "none" /\ UNCHANGED <<committed, result, greetings>>
        /\ \A e \in Calls \ {c} : call'[e] = call[e] /\ handler'[e] = handler[e]
    BY <1>6 DEF DirectCall, AnswerInv, Shape, CommitInv
  <2> QED
    BY <2>1, WrittenUnmoved
<1>7. ASSUME NEW c \in Calls, Invoke(c) PROVE WrittenInv'
  BY <1>7, WrittenUnmoved DEF Invoke, AnswerInv, Shape
<1>8. ASSUME NEW c \in Calls, CallFails(c) \/ Answer(c) PROVE WrittenInv'
  BY <1>1, <1>8 DEF CallFails, Answer
<1>9. ASSUME NEW c \in Calls, Select(c) PROVE WrittenInv'
  BY <1>9, HoldsKeeps DEF Select
<1>10. ASSUME NEW c \in Calls, Finish(c) PROVE WrittenInv'
  <2> PICK e : Ends(c, e)
    BY <1>10 DEF Finish
  <2>1. /\ handler'[c] # "none" /\ handler[c] = "running"
        /\ \A d \in Calls \ {c} : handler'[d] = handler[d]
    BY DEF Ends, AnswerInv, Shape
  <2>2. call[c].method \in Reading => call[c].method # "CreateGreeting"
    BY DEF Reading
  <2> QED
    BY <2>1, <2>2, HoldsKeeps DEF Ends
<1>11. CASE UNCHANGED vars
  BY <1>1, <1>11 DEF vars, calls
<1> QED
  BY <1>3, <1>4, <1>5, <1>6, <1>7, <1>8, <1>9, <1>10, <1>11, CommitWrites
     DEF Next, ReadLate, Handle, Forward

(* A handler that ends without error answers with a greeting that was in   *)
(* the row of its id, and with the id that it was asked for, whichever     *)
(* calls come between its statements.                                      *)
THEOREM AnswersWereWrittenCorrect == Spec => []AnswersWereWritten
<1>1. WrittenInv => AnswersWereWritten
  BY DEF WrittenInv, HeldWritten, Rightly, AnswersWereWritten
<1>2. Init => Places /\ Store
  BY DEF Init, Places, Store
<1> QED
  BY <1>1, <1>2, InitAnswer, AnswerStep, TypeStep, InitWritten, WrittenStep, PTL DEF Spec
-----------------------------------------------------------------------------
(* No request has two routes, of the samples and of all others.            *)
THEOREM RoutesAreDisjointCorrect == Spec => []RoutesAreDisjoint
<1>1. RoutesAreDisjoint
  BY RoutesNeverCollide DEF RoutesAreDisjoint, EchoDisjoint, AssocDisjoint, Disjoint
<1> QED
  BY <1>1, PTL

(* Neither the body nor the query puts another id in the place of the one  *)
(* that the URL names.                                                     *)
THEOREM PathWinsCorrect == Spec => []PathWins
<1>1. ASSUME NEW s PROVE PathDecides(s)
  BY PathAlwaysWins DEF PathDecides
<1>2. PathWins
  BY <1>1 DEF PathWins, EchoPathDecides, AssocPathDecides
<1> QED
  BY <1>2, PTL
=============================================================================
