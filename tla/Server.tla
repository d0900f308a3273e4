------------------------------- MODULE Server -------------------------------
(***************************************************************************)
(* A server process (cmd/echo-server, cmd/assoc-server): the goroutines    *)
(* that main starts (RunRPC with its GracefulStop, RunGateway with its     *)
(* watcher, the scheduler of the echo server), from start to exit, and the *)
(* calls that reach its service over the HTTP gateway or straight by gRPC. *)
(*                                                                         *)
(* A call carries the message that Api!Bind makes of an HTTP request.  Its *)
(* handler may select a greeting (Select), change the database once        *)
(* (Commit), and ends with an error or without one (Finish); what else the *)
(* handlers do is in Greetings and in Assoc.  The connection of the        *)
(* gateway to the RPC server is one for all its calls.                     *)
(*                                                                         *)
(* A greeting is kept as a row: its id and times are columns, the entity   *)
(* is the JSON of the message that a client sent, with the id that this    *)
(* client put in it, if any (pkg/lib/convert).  The times are left out.    *)
(***************************************************************************)
EXTENDS Api

CONSTANTS Calls,     \* the calls
          Samples,   \* HTTP requests
          Requests,  \* Requests[c]: those that call c may be
          Direct,    \* Direct[c]: the gRPC calls that c may be, [method, message]
          Errors,    \* the errors that the database may come back with
          Ids,       \* bound: the ids of greetings
          Present,   \* the greetings that are stored at the start
          None       \* no greeting

ASSUME ErrorsAssumption ==
    \A e \in Errors : /\ e.kind \in {"custom", "status", "plain"}
                      /\ e.kind = "custom" => e.code \in Code \ {0}
                      /\ e.kind = "status" => e.status # "OK"

(* gRPC itself refuses a method that is not registered. *)
ASSUME DirectAssumption ==
    \A c \in Calls : \A d \in Direct[c] :
        \/ d.service = "echo" /\ d.method \in EchoMethods
        \/ d.service = "assoc" /\ d.method \in AssocMethods

VARIABLES service,      \* "echo" or "assoc"
          process,      \* "running", "returned" or "dead" (Fatalf)
          interrupted,  \* the context of main is done
          rpc,          \* serveRPC: "begun", "listening", "serving" or "ended"
          stop,         \* its GracefulStop: "waiting", "stopping" or "stopped"
          gateway,      \* ServeGateway: see TypeOK
          watcher,      \* its watcher: "none", "waiting", "shutting" or "done"
          late,         \* Shutdown gave up after 30 seconds
          conn,         \* gateway to RPC server: "none", "open" or "closed"
          client,       \* client[c]: "new", "waiting", "answered" or "lost"
          call,         \* call[c]: [http, method, message], or NoCall
          handler,      \* handler[c]: "none", "running" or "done"
          committed,    \* committed[c]: its handler has changed the database
          failure,      \* failure[c]: the error the handler of c ended with
          result,       \* result[c]: the greeting its handler answers with, or None
          answer,       \* answer[c]: [status, code] as the client reads it
          greetings     \* greetings[i]: the entity of the row with id i, or None

goroutines == <<service, process, interrupted, rpc, stop, gateway, watcher, late, conn>>
calls == <<client, call, handler, committed, failure, result, answer, greetings>>
vars == <<goroutines, calls>>

NoCall == [http |-> FALSE, method |-> "", message |-> Empty]
NoAnswer == [status |-> "", code |-> 0]
Contents == {"greeted", "chat"}   \* the fields of a greeting besides id and times
Old == [f \in Contents |-> "old"]

Init ==
    /\ service \in {"echo", "assoc"}
    /\ process = "running"
    /\ interrupted = FALSE
    /\ rpc = "begun" /\ stop = "waiting"
    /\ gateway = "begun" /\ watcher = "none" /\ late = FALSE
    /\ conn = "none"
    /\ client = [c \in Calls |-> "new"]
    /\ call = [c \in Calls |-> NoCall]
    /\ handler = [c \in Calls |-> "none"]
    /\ committed = [c \in Calls |-> FALSE]
    /\ failure = [c \in Calls |-> NoError]
    /\ result = [c \in Calls |-> None]
    /\ answer = [c \in Calls |-> NoAnswer]
    /\ greetings = [i \in Ids |-> IF i \in Present THEN Old ELSE None]
-----------------------------------------------------------------------------
(* The end of the process: a client that is still waiting has lost its     *)
(* answer, unless gRPC has sent it.                                        *)
Exits(how, sent) ==
    /\ process' = how
    /\ client' = [c \in Calls |-> IF client[c] = "waiting" /\ ~sent[c] THEN "lost" ELSE client[c]]
    /\ UNCHANGED <<service, interrupted, rpc, stop, gateway, watcher, late, conn>>
    /\ UNCHANGED <<call, handler, committed, failure, result, answer, greetings>>

Fatalf == Exits("dead", [c \in Calls |-> FALSE])

Interrupt ==
    /\ ~interrupted
    /\ interrupted' = TRUE
    /\ UNCHANGED <<service, process, rpc, stop, gateway, watcher, late, conn, calls>>

(* serveRPC *)
Rpc(from, to) ==
    /\ rpc = from
    /\ rpc' = to
    /\ UNCHANGED <<service, process, interrupted, stop, gateway, watcher, late, conn, calls>>

RpcListen == Rpc("begun", "listening")
RpcServe  == stop = "waiting" /\ Rpc("listening", "serving")

(* An interrupt before Serve: it returns ErrServerStopped. *)
RpcTooLate == rpc = "listening" /\ stop # "waiting" /\ Fatalf
RpcEnds    == stop = "stopped" /\ Rpc("serving", "ended")

(* An interceptor is not known, Listen fails, or Serve while it accepts.  *)
RpcFails == (rpc = "begun" \/ (rpc = "serving" /\ stop = "waiting")) /\ Fatalf

Stop(from, to) ==
    /\ stop = from
    /\ stop' = to
    /\ UNCHANGED <<service, process, interrupted, rpc, gateway, watcher, late, conn, calls>>

GracefulStop == interrupted /\ Stop("waiting", "stopping")

(* Mutant of GracefulStopped: Stop in place of GracefulStop. *)
StoppedAtOnce == Stop("stopping", "stopped")

GracefulStopped == (\A c \in Calls : handler[c] # "running") /\ Stop("stopping", "stopped")
-----------------------------------------------------------------------------
(* ServeGateway *)
Gateway(from, to) ==
    /\ gateway = from
    /\ gateway' = to
    /\ UNCHANGED <<service, process, interrupted, rpc, stop, late, calls>>

(* The handlers are registered and the connection is opened; a goroutine   *)
(* of its own closes it as soon as the context is done.                    *)
Register == Gateway("begun", "registered") /\ conn' = "open" /\ UNCHANGED watcher

CloseConn ==
    /\ interrupted
    /\ conn = "open"
    /\ conn' = "closed"
    /\ UNCHANGED <<service, process, interrupted, rpc, stop, gateway, watcher, late, calls>>

(* Mutant of Watch: the watcher is not started. *)
WatchNot == Gateway("registered", "watched") /\ UNCHANGED <<watcher, conn>>

Watch == Gateway("registered", "watched") /\ watcher' = "waiting" /\ UNCHANGED conn

GatewayListen == Gateway("watched", "listening") /\ UNCHANGED <<watcher, conn>>

(* After Shutdown, Serve returns at once. *)
GatewayServe ==
    /\ Gateway("listening", IF watcher \in {"shutting", "done"} THEN "left" ELSE "serving")
    /\ UNCHANGED <<watcher, conn>>

GatewayEnds ==
    /\ watcher = "done"
    /\ Gateway("left", "ended")
    /\ UNCHANGED <<watcher, conn>>

(* The endpoint or the listener fails; a Serve that fails is only logged. *)
GatewayFails ==
    \/ gateway \in {"begun", "watched"} /\ Fatalf
    \/ Gateway("serving", "left") /\ UNCHANGED <<watcher, conn>>

(* The watcher: Shutdown closes the listeners, so that Serve returns, and  *)
(* waits at most 30 seconds for the requests there are.                    *)
Busy == \E c \in Calls : client[c] = "waiting" /\ call[c].http

ShutdownBegins ==
    /\ interrupted
    /\ watcher = "waiting"
    /\ watcher' = "shutting"
    /\ gateway' = IF gateway = "serving" THEN "left" ELSE gateway
    /\ UNCHANGED <<service, process, interrupted, rpc, stop, late, conn, calls>>

Shutdown(gaveUp) ==
    /\ watcher = "shutting"
    /\ watcher' = "done"
    /\ late' = gaveUp
    /\ UNCHANGED <<service, process, interrupted, rpc, stop, gateway, conn, calls>>

ShutdownEnds     == ~Busy /\ Shutdown(FALSE)
ShutdownTimesOut == Busy /\ Shutdown(TRUE)

Sent == [c \in Calls |-> ~call[c].http /\ handler[c] = "done"]

(* Mutants of MainReturns: it does not wait for the gateway; the assoc     *)
(* server has a scheduler too.                                             *)
MainLeavesGateway == service = "assoc" /\ rpc = "ended" /\ Exits("returned", Sent)
MainNeverReturns  == service \notin {"echo", "assoc"} /\ Exits("returned", Sent)

(* main waits for its goroutines; the scheduler of the echo server waits   *)
(* for a channel that nobody closes.                                       *)
MainReturns ==
    /\ service = "assoc"
    /\ rpc = "ended" /\ gateway = "ended"
    /\ Exits("returned", Sent)
-----------------------------------------------------------------------------
(* Calls. *)
Answered(c, a) ==
    /\ client' = [client EXCEPT ![c] = "answered"]
    /\ answer' = [answer EXCEPT ![c] = a]

Status0(s) == [status |-> s, code |-> 0]

(* The gateway takes request r: without a route or with a bad parameter it *)
(* is answered at once.  Requests still come after the interrupt, until    *)
(* Shutdown.                                                               *)
Request(c, r) ==
    /\ client[c] = "new"
    /\ gateway = "serving"
    /\ IF Matching(service, r) = {} THEN Answered(c, Status0("NotFound")) /\ UNCHANGED call
       ELSE LET route == Routed(service, r)
            IN  IF BadRequest(route, r) THEN Answered(c, Status0("InvalidArgument")) /\ UNCHANGED call
                ELSE /\ client' = [client EXCEPT ![c] = "waiting"]
                     /\ call' = [call EXCEPT ![c] = [http |-> TRUE, method |-> route.method,
                                                     message |-> Bind(route, r)]]
                     /\ UNCHANGED answer
    /\ UNCHANGED <<goroutines, handler, committed, failure, result, greetings>>

Accepts == rpc = "serving" /\ stop = "waiting"

(* The gateway invokes the method over its connection, ... *)
Invoke(c) ==
    /\ client[c] = "waiting" /\ handler[c] = "none"
    /\ conn = "open" /\ Accepts
    /\ handler' = [handler EXCEPT ![c] = "running"]
    /\ UNCHANGED <<goroutines, client, call, committed, failure, result, answer, greetings>>

(* Mutant of CallFails: what is under way is not told that the connection  *)
(* is closed.                                                              *)
CallFailsEarly(c) ==
    /\ client[c] = "waiting" /\ call[c].http /\ handler[c] = "none"
    /\ \/ conn = "closed" /\ Answered(c, Status0("Canceled"))
       \/ conn = "open" /\ ~Accepts /\ Answered(c, Status0("Unavailable"))
    /\ UNCHANGED <<goroutines, call, handler, committed, failure, result, greetings>>

(* ... which fails if the connection is closed, before or while the        *)
(* handler runs (which goes on), or if the RPC server takes no calls.      *)
CallFails(c) ==
    /\ client[c] = "waiting" /\ call[c].http
    /\ \/ conn = "closed" /\ Answered(c, Status0("Canceled"))
       \/ /\ conn = "open" /\ handler[c] = "none" /\ ~Accepts
          /\ Answered(c, Status0("Unavailable"))
    /\ UNCHANGED <<goroutines, call, handler, committed, failure, result, greetings>>

(* A client calls by gRPC, on a connection of its own. *)
DirectCall(c, d) ==
    /\ client[c] = "new"
    /\ d.service = service
    /\ Accepts
    /\ client' = [client EXCEPT ![c] = "waiting"]
    /\ call' = [call EXCEPT ![c] = [http |-> FALSE, method |-> d.method, message |-> d.message]]
    /\ handler' = [handler EXCEPT ![c] = "running"]
    /\ UNCHANGED <<goroutines, committed, failure, result, answer, greetings>>

(* The greeting that the message of a call is about. *)
GreetingOf(m) == At(m, "greeting")
IdIn(m) == IF Set(m, "id") THEN m["id"]
           ELSE IF Set(GreetingOf(m), "id") THEN GreetingOf(m)["id"] ELSE None

Exists(id) == id \in Ids /\ greetings[id] # None
Absent     == {id \in Ids : greetings[id] = None}

(* The entity of a greeting, and the greeting of a row: the id is the      *)
(* column's, whatever the entity has.                                      *)
EoToDo(g) == [f \in (Contents \cup {"id"}) \cap DOMAIN g |-> g[f]]

(* Mutant of DoToEo: the id of the entity goes before that of the column. *)
DoToEoOwnId(id, entity) == IF "id" \in DOMAIN entity THEN entity ELSE With(entity, "id", id)

DoToEo(id, entity) == With(entity, "id", id)

(* What a SELECT by id becomes. *)
Selected(id) == IF Exists(id) THEN DoToEo(id, greetings[id]) ELSE None

Holds(c, g) == result' = [result EXCEPT ![c] = g]

Save(id, g) ==
    /\ id \in Ids
    /\ greetings' = [greetings EXCEPT ![id] = EoToDo(g)]

(* What a method does to the greetings.  CreateGreeting answers with the   *)
(* greeting of the request under its new id.  UpdateGreeting replaces the  *)
(* whole greeting, whatever the mask says; without an id it inserts one.   *)
(* DeleteGreeting deletes by the id, whatever has become of the row.       *)
Effect(c) ==
    LET m == call[c].message
        g == GreetingOf(m)
    IN  CASE call[c].method = "CreateGreeting" ->
                 \E id \in Absent : Save(id, g) /\ Holds(c, With(g, "id", id))
          [] call[c].method = "UpdateGreeting" ->
                 /\ IF IdIn(m) = None THEN \E id \in Absent : Save(id, g) ELSE Save(IdIn(m), g)
                 /\ UNCHANGED result
          [] call[c].method = "DeleteGreeting" ->
                 /\ result[c] # None
                 /\ greetings' = [greetings EXCEPT ![IdIn(m)] = None]
                 /\ UNCHANGED result
          [] call[c].method = "DeleteGreetings" ->
                 /\ \E S \in SUBSET Ids :
                        greetings' = [i \in Ids |-> IF i \in S THEN None ELSE greetings[i]]
                 /\ UNCHANGED result
          [] OTHER -> UNCHANGED <<greetings, result>>

(* DeleteGreeting selects the greeting first: that is its answer. *)
Select(c) ==
    /\ handler[c] = "running" /\ ~committed[c]
    /\ call[c].method = "DeleteGreeting"
    /\ result[c] = None
    /\ Exists(IdIn(call[c].message))
    /\ Holds(c, Selected(IdIn(call[c].message)))
    /\ UNCHANGED <<goroutines, client, call, handler, committed, failure, answer, greetings>>

Writing == Changing \cup {"DeleteGreetings", "DeleteAssocs"}

Commit(c) ==
    /\ handler[c] = "running" /\ ~committed[c]
    /\ Refusal(call[c].method, call[c].message) = NoError
    /\ call[c].method \in Writing
    /\ Effect(c)
    /\ committed' = [committed EXCEPT ![c] = TRUE]
    /\ UNCHANGED <<goroutines, client, call, handler, failure, answer>>

(* GetGreeting, and UpdateGreeting at its end, read the greeting.  A batch *)
(* delete that matches nothing, or whose SELECT fails, ends without error. *)
Reading == {"GetGreeting", "UpdateGreeting"}

Succeeds(c) ==
    LET m == call[c].method
    IN  /\ m \in Changing => committed[c]
        /\ m \in Reading => Exists(IdIn(call[c].message))

(* UpdateAssoc asks the database before it refuses. *)
Outcomes(c) ==
    LET m       == call[c].method
        refusal == Refusal(m, call[c].message)
    IN  IF refusal # NoError THEN {refusal} \cup (IF m = "UpdateAssoc" THEN Errors ELSE {})
        ELSE Errors \cup (IF Succeeds(c) THEN {NoError} ELSE {})

Ends(c, e) ==
    /\ handler[c] = "running"
    /\ handler' = [handler EXCEPT ![c] = "done"]
    /\ failure' = [failure EXCEPT ![c] = e]
    /\ IF e = NoError /\ call[c].method \in Reading THEN Holds(c, Selected(IdIn(call[c].message)))
       ELSE UNCHANGED result
    /\ UNCHANGED <<goroutines, client, call, committed, answer, greetings>>

(* Mutant of Finish: the error of the database is dropped. *)
FinishDropping(c) == \E e \in Outcomes(c) \cup {NoError} : Ends(c, e)

(* The handler ends, perhaps with an error although it has committed. *)
Finish(c) == \E e \in Outcomes(c) : Ends(c, e)

(* The client reads what the server sent: the gateway over its connection. *)
Answer(c) ==
    /\ client[c] = "waiting" /\ handler[c] = "done"
    /\ call[c].http => conn = "open"
    /\ Answered(c, ReadBy(call[c].method, UnaryServerInterceptor(call[c].method, failure[c])))
    /\ UNCHANGED <<goroutines, call, handler, committed, failure, result, greetings>>
-----------------------------------------------------------------------------
ServeRpc     == RpcListen \/ RpcServe \/ RpcTooLate \/ RpcEnds
StopRpc      == GracefulStop \/ GracefulStopped
ServeGateway == Register \/ Watch \/ GatewayListen \/ GatewayServe \/ GatewayEnds
Watcher      == ShutdownBegins \/ ShutdownEnds \/ ShutdownTimesOut
Handle(c)    == Select(c) \/ Commit(c) \/ Finish(c)
Forward(c)   == Invoke(c) \/ CallFails(c) \/ Answer(c)

Next ==
    /\ process = "running"
    /\ \/ Interrupt
       \/ ServeRpc \/ RpcFails \/ StopRpc
       \/ ServeGateway \/ GatewayFails \/ CloseConn \/ Watcher
       \/ MainReturns
       \/ \E c \in Calls :
             \/ \E r \in Requests[c] : Request(c, r)
             \/ \E d \in Direct[c] : DirectCall(c, d)
             \/ Handle(c)
             \/ Forward(c)

(* What a direct client has been sent it reads even after the exit. *)
ReadLate == process = "returned" /\ \E c \in Calls : Answer(c)

(* The goroutines of a running process go on, the database comes back to   *)
(* every handler, and what is sent is read.  Nothing makes a call come, or *)
(* the interrupt, or a failure.                                            *)
Goes(A) == process = "running" /\ A

Spec == Init /\ [][Next \/ ReadLate]_vars

Fairness ==
    /\ WF_vars(Goes(ServeRpc)) /\ WF_vars(Goes(StopRpc)) /\ WF_vars(Goes(ServeGateway))
    /\ WF_vars(Goes(CloseConn)) /\ WF_vars(Goes(Watcher)) /\ WF_vars(Goes(MainReturns))
    /\ \A c \in Calls : WF_vars(Goes(Finish(c))) /\ WF_vars(Goes(Forward(c)))
    /\ WF_vars(ReadLate)

FairSpec == Spec /\ Fairness
-----------------------------------------------------------------------------
TypeOK ==
    /\ service \in {"echo", "assoc"}
    /\ process \in {"running", "returned", "dead"}
    /\ interrupted \in BOOLEAN /\ late \in BOOLEAN
    /\ rpc \in {"begun", "listening", "serving", "ended"}
    /\ stop \in {"waiting", "stopping", "stopped"}
    /\ gateway \in {"begun", "registered", "watched", "listening", "serving", "left", "ended"}
    /\ watcher \in {"none", "waiting", "shutting", "done"}
    /\ conn \in {"none", "open", "closed"}
    /\ client \in [Calls -> {"new", "waiting", "answered", "lost"}]
    /\ handler \in [Calls -> {"none", "running", "done"}]
    /\ committed \in [Calls -> BOOLEAN]
    /\ \A c \in Calls : answer[c].code \in Code
    /\ DOMAIN greetings = Ids

(* A client that reads success has what it asked for in the database: no   *)
(* error gets lost on the way through adapter, interceptor and wire, where *)
(* a google.rpc.Status takes the place of the response.                    *)
OkMeansCommitted ==
    \A c \in Calls :
        (client[c] = "answered" /\ answer[c] = Status0("OK") /\ call[c].method \in Changing)
            => committed[c]

(* types.proto: the services' codes "map to status 2XX in grpc-gateway":   *)
(* every error of a handler that is not a status of gRPC is read as a      *)
(* response with its code, over HTTP too, and no success has a code.  (The *)
(* status Unknown is taken for an error without a status.)                 *)
ErrorsKeepTheirCode ==
    \A c \in Calls :
        (client[c] = "answered" /\ handler[c] = "done" /\ answer[c].status \notin {"Canceled"})
            => CASE failure[c].kind = "none"   -> answer[c] = Status0("OK")
                 [] failure[c].kind = "custom" -> answer[c] = [status |-> "OK", code |-> failure[c].code]
                 [] failure[c].kind = "status" /\ failure[c].status # "Unknown"
                                               -> answer[c] = Status0(failure[c].status)
                 [] OTHER                      -> answer[c].status = "OK" /\ answer[c].code # 0

(* The contents of a greeting: of old, or those that call d put into       *)
(* the row with this id.                                                   *)
ContentsOf(g) == [f \in Contents \cap DOMAIN g |-> g[f]]

Wrote(d, id) ==
    /\ committed[d]
    /\ \/ call[d].method = "CreateGreeting" /\ result[d]["id"] = id
       \/ call[d].method = "UpdateGreeting" /\ IdIn(call[d].message) \in {id, None}

Written(id, g) ==
    \/ id \in Present /\ ContentsOf(g) = Old
    \/ \E d \in Calls : Wrote(d, id) /\ ContentsOf(g) = ContentsOf(GreetingOf(call[d].message))

(* A greeting that a handler answers with is one that was in the row of    *)
(* its id: all of what some call put there, never a mixture of two, nor of *)
(* a call that did not commit; and the id is the one that was asked for,   *)
(* whatever id the entity has from the client that wrote it.  So it is     *)
(* although DeleteGreeting reads before it deletes and UpdateGreeting      *)
(* after it saved, with other calls in between.                            *)
AnswersWereWritten ==
    \A c \in Calls :
        (handler[c] = "done" /\ failure[c] = NoError /\ result[c] # None) =>
            /\ call[c].method # "CreateGreeting" => result[c]["id"] = IdIn(call[c].message)
            /\ Written(result[c]["id"], result[c])

(* A process that returned, and whose gateway did not run out of time, has *)
(* left no call without its answer and no handler at work.                 *)
CleanExit ==
    (process = "returned" /\ ~late)
        => \A c \in Calls : client[c] # "lost" /\ handler[c] # "running"

(* Once GracefulStop has returned nothing changes the database any more,   *)
(* not even for a call whose client was told that it is canceled.          *)
NoCommitAfterStop == [][stop = "stopped" => UNCHANGED <<committed, greetings>>]_vars

(* An interrupt ends both servers, or the process, in whatever state of    *)
(* starting it finds them.                                                 *)
StopsOnInterrupt == interrupted ~> (process # "running" \/ (rpc = "ended" /\ gateway = "ended"))

(* And the process, if it has no scheduler. *)
ReturnsUnlessScheduled == (interrupted /\ service = "assoc") ~> process # "running"

(* Whoever calls is answered, or sees the process die. *)
AnsweredOrLost == \A c \in Calls : client[c] = "waiting" ~> client[c] \in {"answered", "lost"}

Disjoint(s) == \A r \in Samples : Cardinality(Matching(s, r)) <= 1

EchoDisjoint  == Disjoint("echo")
AssocDisjoint == Disjoint("assoc")

(* The last word of ListGreetings' path keeps it from CreateGreeting       *)
(* ("to diff from create Greeting rpc"): no request has two routes.        *)
RoutesAreDisjoint == IF service = "echo" THEN EchoDisjoint ELSE AssocDisjoint

PathDecides(s) ==
    \A r \in {q \in Samples : Matching(s, q) # {}} :
        LET route == Routed(s, r)
        IN  ~BadRequest(route, r) =>
                \A i \in Bound(route) :
                    Get(Bind(route, r), route.path[i].binds) = PathValue(route, r, i)

EchoPathDecides  == PathDecides("echo")
AssocPathDecides == PathDecides("assoc")

(* What the path says goes: neither the body nor the query puts another id *)
(* or parent in the place of the one that the URL names.                   *)
PathWins == IF service = "echo" THEN EchoPathDecides ELSE AssocPathDecides
=============================================================================
