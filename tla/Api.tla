-------------------------------- MODULE Api --------------------------------
(***************************************************************************)
(* The interface of the Go services: which method of a service the HTTP    *)
(* gateway calls for a request, and with which message (.pb.gw.go), and    *)
(* how the error of a method becomes the response that the client reads    *)
(* (pkg/interceptor/errors and the generated client).                      *)
(*                                                                         *)
(* An HTTP request is a record: verb; path, a sequence of words, and       *)
(* colon, what follows a colon in the last one; query, <<>> or a field and *)
(* its value, <<<<"greeting", "id">>, "1">>; sent, whether it has a body,  *)
(* malformed, if that is not JSON; body, the message the body stands for   *)
(* (Empty if there is none).  Numbers are the words "0".."8".              *)
(***************************************************************************)
EXTENDS Messages, FiniteSets

Empty == [f \in {} |-> 0]   \* the message with no field set

With(m, f, v) == [g \in DOMAIN m \cup {f} |-> IF g = f THEN v ELSE m[g]]

At(m, f) == IF f \in DOMAIN m THEN m[f] ELSE Empty

(* Field path p of m set to v (at most one level down). *)
Put(m, p, v) == With(m, p[1], IF Len(p) = 1 THEN v ELSE With(At(m, p[1]), p[2], v))
Has(m, p)    == p[1] \in DOMAIN m /\ (Len(p) = 2 => p[2] \in DOMAIN m[p[1]])
Get(m, p)    == IF Len(p) = 1 THEN m[p[1]] ELSE m[p[1]][p[2]]
-----------------------------------------------------------------------------
(* Routes.  A word of a pattern is literal, a variable (any word), or a    *)
(* variable that takes one word only.                                      *)
Lit(w)    == [word |-> w, binds |-> <<>>]
Var(p)    == [word |-> "", binds |-> p]
Only(p,w) == [word |-> w, binds |-> p]

(* body: the field the body is decoded into, "*" for the whole message, "" *)
(* for none.  filter: the fields that the query must not set, or NoQuery   *)
(* if it is not read.  masked: update_mask is filled with the fields of    *)
(* the body.                                                               *)
Route(owner, method, verb, path, colon, body, filter) ==
    [service |-> owner, method |-> method, verb |-> verb, path |-> path, colon |-> colon,
     body |-> body, filter |-> filter, masked |-> FALSE]

NoQuery == {"*"}

Greetings == <<Lit("v1"), Only(<<"parent">>, "echos"), Lit("greetings")>>
ById(p)   == Append(Greetings, Var(p))

CreateGreetingRoute  == Route("echo", "CreateGreeting", "POST", Greetings, "", "greeting", NoQuery)
GetGreetingRoute     == Route("echo", "GetGreeting", "GET", ById(<<"id">>), "", "", {"parent", "id"})
UpdateGreetingRoute  == [Route("echo", "UpdateGreeting", "PATCH", ById(<<"greeting", "id">>), "",
                               "greeting", {"greeting", "parent"}) EXCEPT !.masked = TRUE]

(* Mutant of ListGreetingsRoute: without the last word of its path. *)
ListGreetingsPlain   == Route("echo", "ListGreetings", "POST", Greetings, "", "*", NoQuery)

ListGreetingsRoute   == Route("echo", "ListGreetings", "POST",
                              Append(Greetings, Lit("resources")), "", "*", NoQuery)
DeleteGreetingRoute  == Route("echo", "DeleteGreeting", "DELETE", ById(<<"id">>), "", "", NoQuery)
DeleteGreetingsRoute == Route("echo", "DeleteGreetings", "PATCH", Greetings, "", "*", NoQuery)
ImportGreetingRoute  == Route("echo", "ImportGreeting", "POST", Greetings, "import",
                              "import_config", NoQuery)
ExportGreetingRoute  == Route("echo", "ExportGreeting", "POST", Greetings, "export",
                              "export_config", NoQuery)

Assocs    == <<Lit("v1"), Lit("assocs")>>
FromType  == Assocs \o <<Var(<<"from_id">>), Var(<<"a_type">>)>>
FromTo    == Append(FromType, Var(<<"to_id">>))

CreateAssocRoute  == Route("assoc", "CreateAssoc", "POST", Assocs, "", "assoc", {"assoc"})
UpdateAssocRoute  == Route("assoc", "UpdateAssoc", "PATCH", FromTo, "", "*", NoQuery)
ListAssocsRoute   == Route("assoc", "ListAssocs", "POST", Append(Assocs, Lit("resources")), "", "*", NoQuery)
DeleteAssocRoute  == Route("assoc", "DeleteAssoc", "DELETE", FromTo, "", "", NoQuery)
DeleteAssocsRoute == Route("assoc", "DeleteAssocs", "PATCH", Assocs, "", "*", NoQuery)
CountAssocsRoute  == Route("assoc", "CountAssocs", "GET", FromType, "", "", NoQuery)
GetAssocRoute     == Route("assoc", "GetAssoc", "GET", FromTo, "", "", NoQuery)

(* The routes in the order in which each service registers them. *)
EchoRoutes  == <<CreateGreetingRoute, GetGreetingRoute, UpdateGreetingRoute, ListGreetingsRoute,
                 DeleteGreetingRoute, DeleteGreetingsRoute, ImportGreetingRoute, ExportGreetingRoute>>
AssocRoutes == <<CreateAssocRoute, UpdateAssocRoute, ListAssocsRoute, DeleteAssocRoute,
                 DeleteAssocsRoute, CountAssocsRoute, GetAssocRoute>>

Routes(s) == IF s = "echo" THEN EchoRoutes ELSE AssocRoutes

Matches(route, r) ==
    /\ route.verb = r.verb
    /\ route.colon = r.colon
    /\ Len(route.path) = Len(r.path)
    /\ \A i \in DOMAIN r.path : route.path[i].word \in {"", r.path[i]}

Matching(s, r) == {i \in DOMAIN Routes(s) : Matches(Routes(s)[i], r)}

(* The route of request r: of those that match, the one registered last. *)
Routed(s, r) ==
    Routes(s)[CHOOSE i \in Matching(s, r) : \A j \in Matching(s, r) : j <= i]
-----------------------------------------------------------------------------
(* Binding: the message that a route makes of a request. *)
Numerals == <<"0", "1", "2", "3", "4", "5", "6", "7", "8">>
Words(s) == {s[i] : i \in DOMAIN s}
Wrong    == "type mismatch"

(* A word of the path or of the query, read as a value of a type. *)
Parse(type, w) ==
    CASE type = "int64" -> IF w \in Words(Numerals) THEN w ELSE Wrong
      [] type = "AssocType" ->
           IF w \in Words(AssocType) THEN w
           ELSE IF w \in Words(Numerals) THEN AssocType[CHOOSE i \in DOMAIN Numerals : Numerals[i] = w]
           ELSE Wrong
      [] OTHER -> w

RequestOf(method) == method \o "Request"

Fields(t) == {MessageTypes[t][i][1] : i \in DOMAIN MessageTypes[t]}

TypeIn(t, f) == LET F == MessageTypes[t]
                IN  F[CHOOSE i \in DOMAIN F : F[i][1] = f][2]
TypeOf(t, p) == IF Len(p) = 1 THEN TypeIn(t, p[1]) ELSE TypeIn(TypeIn(t, p[1]), p[2])

(* The body, and for an update the mask that stands for its fields. *)
Decoded(route, r) ==
    LET m == CASE route.body = "*" -> r.body
               [] route.body # "" /\ r.sent -> With(Empty, route.body, r.body)
               [] OTHER -> Empty
    IN  IF route.masked THEN With(m, "update_mask", DOMAIN r.body) ELSE m

(* The variables of the pattern, and what the path has in their place. *)
Bound(route) == {i \in DOMAIN route.path : route.path[i].binds # <<>>}
PathValue(route, r, i) == Parse(TypeOf(RequestOf(route.method), route.path[i].binds), r.path[i])

InPath(route, r, m) ==
    [f \in DOMAIN m \cup {route.path[i].binds[1] : i \in Bound(route)} |->
        IF \E i \in Bound(route) : route.path[i].binds[1] = f
        THEN LET i == CHOOSE j \in Bound(route) : route.path[j].binds[1] = f
             IN  Get(Put(m, route.path[i].binds, PathValue(route, r, i)), <<f>>)
        ELSE m[f]]

(* Mutant of InQuery: the query may set what the path has set. *)
InQueryUnfiltered(route, r, m) ==
    IF r.query = <<>> \/ r.query[1][1] \notin Fields(RequestOf(route.method)) THEN m
    ELSE LET p == r.query[1]
         IN  IF TypeOf(RequestOf(route.method), p) = "FieldMask"
             THEN Put(m, p, (IF Has(m, p) THEN Get(m, p) ELSE {}) \cup {r.query[2]})
             ELSE Put(m, p, Parse(TypeOf(RequestOf(route.method), p), r.query[2]))

(* The query, a field and its value, unless the filter has the field.  A   *)
(* name that is no field is passed over; a mask is added to.               *)
InQuery(route, r, m) ==
    IF \/ r.query = <<>>
       \/ route.filter = NoQuery
       \/ r.query[1][1] \in route.filter
       \/ r.query[1][1] \notin Fields(RequestOf(route.method))
    THEN m
    ELSE LET p == r.query[1]
         IN  IF TypeOf(RequestOf(route.method), p) = "FieldMask"
             THEN Put(m, p, (IF Has(m, p) THEN Get(m, p) ELSE {}) \cup {r.query[2]})
             ELSE Put(m, p, Parse(TypeOf(RequestOf(route.method), p), r.query[2]))

(* First the body, then the path, then the query. *)
Bind(route, r) == InQuery(route, r, InPath(route, r, Decoded(route, r)))

(* The request is refused as an InvalidArgument. *)
BadRequest(route, r) ==
    \/ route.body # "" /\ r.malformed
    \/ \E i \in Bound(route) : PathValue(route, r, i) = Wrong
-----------------------------------------------------------------------------
(* Errors.  The error of a method is one of ours, with a code; or a status *)
(* of gRPC; or any other, known by what its message has in it.             *)
Ours(code)     == [kind |-> "custom", code |-> code, status |-> "", text |-> ""]
GrpcStatus(s)  == [kind |-> "status", code |-> 0, status |-> s, text |-> ""]
Plain(text)    == [kind |-> "plain", code |-> 0, status |-> "", text |-> text]
NoError        == [kind |-> "none", code |-> 0, status |-> "OK", text |-> ""]

(* Mutant of translateWellKnownErrorMessage: HTTP's codes for our own. *)
translateWellKnownHttp(text) ==
    CASE text = "no rows" -> 404
      [] OTHER -> 500

(* The codes that the services' errors become; 0: the error is left as it is. *)
translateWellKnownErrorMessage(text) ==
    CASE text = "no rows" -> 2001
      [] text = "sql" -> 2000
      [] OTHER -> 1000

(* Mutant of translateError: our own errors are taken for statuses. *)
translateErrorBypass(e) ==
    CASE e.kind = "custom" -> 0
      [] e.kind = "status" /\ e.status # "Unknown" -> 0
      [] OTHER -> translateWellKnownErrorMessage(e.text)

translateError(e) ==
    CASE e.kind = "custom" -> e.code
      [] e.kind = "status" /\ e.status # "Unknown" -> 0
      [] OTHER -> translateWellKnownErrorMessage(e.text)

(* On the wire a message is a function from the numbers of its fields. *)
Status == Reply("Any")   \* google.rpc.Status

Encoded(fields, m) ==
    [i \in {j \in DOMAIN fields : fields[j][1] \in DOMAIN m} |-> m[fields[i][1]]]
DecodedAs(fields, wire) ==
    [f \in {fields[i][1] : i \in DOMAIN fields \cap DOMAIN wire} |->
        wire[CHOOSE i \in DOMAIN fields : fields[i][1] = f]]

(* The response that the generated client decodes for each method. *)
EchoResponses == [
    CreateGreeting |-> CreateGreetingResponse, GetGreeting |-> GetGreetingResponse,
    UpdateGreeting |-> UpdateGreetingResponse, ListGreetings |-> ListGreetingsResponse,
    DeleteGreeting |-> DeleteGreetingResponse, DeleteGreetings |-> DeleteGreetingsResponse,
    ImportGreeting |-> ImportGreetingResponse, ExportGreeting |-> ExportGreetingResponse]
AssocResponses == [
    CreateAssoc |-> CreateAssocResponse, UpdateAssoc |-> UpdateAssocResponse,
    ListAssocs |-> ListAssocsResponse, DeleteAssoc |-> DeleteAssocResponse,
    DeleteAssocs |-> DeleteAssocsResponse, CountAssocs |-> CountAssocsResponse,
    GetAssoc |-> GetAssocResponse]
Responses == [m \in DOMAIN EchoResponses \cup DOMAIN AssocResponses |->
    IF m \in DOMAIN EchoResponses THEN EchoResponses[m] ELSE AssocResponses[m]]

(* The methods that each service registers with gRPC. *)
EchoMethods  == DOMAIN EchoResponses
AssocMethods == DOMAIN AssocResponses

(* What the server sends when a method ends with error e: its response, or *)
(* a google.rpc.Status in its place, or a status of gRPC.                  *)
UnaryServerInterceptor(method, e) ==
    IF e = NoError
    THEN [status |-> "OK",
          wire |-> Encoded(Responses[method], [details |-> "details"])]
    ELSE IF translateError(e) # 0
    THEN [status |-> "OK",
          wire |-> Encoded(Status, [code |-> translateError(e), message |-> "text"])]
    ELSE [status |-> e.status, wire |-> Empty]

(* What the client reads: the status, and the code of the response. *)
ReadBy(method, sent) ==
    LET m == DecodedAs(Responses[method], sent.wire)
    IN  [status |-> sent.status, code |-> IF "code" \in DOMAIN m THEN m["code"] ELSE 0]
-----------------------------------------------------------------------------
(* The methods that the services implement; the others of the interface    *)
(* answer that they are Unimplemented.                                     *)
Implemented(method) == method \notin {"ImportGreeting", "ExportGreeting"}

Changing == {"CreateGreeting", "UpdateGreeting", "DeleteGreeting",
             "CreateAssoc", "UpdateAssoc", "DeleteAssoc"}

Set(m, f) == f \in DOMAIN m /\ m[f] \notin {"0", "ASSOC_TYPE_UNSPECIFIED"}

(* validation, of pkg/lib/convert: a message that is not set does not      *)
(* become a row.                                                           *)
Converts(m, f) == f \in DOMAIN m

(* What a method refuses, whatever the database has. *)
Refusal(method, m) ==
    CASE ~Implemented(method) -> GrpcStatus("Unimplemented")
      [] method \in {"CreateGreeting", "UpdateGreeting"} /\ ~Converts(m, "greeting") -> Plain("other")
      [] method = "UpdateAssoc" /\ ~Converts(m, "assoc") -> Plain("other")
      [] method = "CreateAssoc" /\ \E f \in {"from_id", "a_type", "to_id"} : ~Set(At(m, "assoc"), f)
           -> Ours(1000)
      [] method = "CountAssocs" /\ ~Set(m, "from_id") -> Ours(1000)
      [] OTHER -> NoError
=============================================================================
