------------------------------ MODULE ApiProofs ------------------------------
(***************************************************************************)
(* What Api says of every request, route and error, sampled or not: no     *)
(* request has two routes, what the path says goes, and every error of a   *)
(* method is read back as what it was.                                     *)
(***************************************************************************)
EXTENDS Api, FiniteSetTheorems, TLAPS

(* The routes by their places, and what their parts bind.                  *)
LEMMA EchoRoutesAre ==
      /\ DOMAIN EchoRoutes = 1..8
      /\ EchoRoutes[1] = CreateGreetingRoute /\ EchoRoutes[2] = GetGreetingRoute
      /\ EchoRoutes[3] = UpdateGreetingRoute /\ EchoRoutes[4] = ListGreetingsRoute
      /\ EchoRoutes[5] = DeleteGreetingRoute /\ EchoRoutes[6] = DeleteGreetingsRoute
      /\ EchoRoutes[7] = ImportGreetingRoute /\ EchoRoutes[8] = ExportGreetingRoute
  BY DEF EchoRoutes

LEMMA AssocRoutesAre ==
      /\ DOMAIN AssocRoutes = 1..7
      /\ AssocRoutes[1] = CreateAssocRoute /\ AssocRoutes[2] = UpdateAssocRoute
      /\ AssocRoutes[3] = ListAssocsRoute /\ AssocRoutes[4] = DeleteAssocRoute
      /\ AssocRoutes[5] = DeleteAssocsRoute /\ AssocRoutes[6] = CountAssocsRoute
      /\ AssocRoutes[7] = GetAssocRoute
  BY DEF AssocRoutes

LEMMA WordBinds ==
    \A p, w : Var(p).binds = p /\ Only(p, w).binds = p /\ Lit(w).binds = <<>>
  BY DEF Var, Only, Lit

LEMMA EchoParts ==
    /\ CreateGreetingRoute.path = Greetings /\ CreateGreetingRoute.filter = NoQuery
    /\ GetGreetingRoute.path = ById(<<"id">>) /\ GetGreetingRoute.filter = {"parent", "id"}
    /\ UpdateGreetingRoute.path = ById(<<"greeting", "id">>)
    /\ UpdateGreetingRoute.filter = {"greeting", "parent"}
    /\ ListGreetingsRoute.path = Append(Greetings, Lit("resources"))
    /\ ListGreetingsRoute.filter = NoQuery
    /\ DeleteGreetingRoute.path = ById(<<"id">>) /\ DeleteGreetingRoute.filter = NoQuery
    /\ DeleteGreetingsRoute.path = Greetings /\ DeleteGreetingsRoute.filter = NoQuery
    /\ ImportGreetingRoute.path = Greetings /\ ImportGreetingRoute.filter = NoQuery
    /\ ExportGreetingRoute.path = Greetings /\ ExportGreetingRoute.filter = NoQuery
  BY DEF CreateGreetingRoute, GetGreetingRoute, UpdateGreetingRoute, ListGreetingsRoute,
         DeleteGreetingRoute, DeleteGreetingsRoute, ImportGreetingRoute, ExportGreetingRoute, Route

LEMMA AssocParts ==
    /\ CreateAssocRoute.path = Assocs
    /\ UpdateAssocRoute.path = FromTo /\ UpdateAssocRoute.filter = NoQuery
    /\ ListAssocsRoute.path = Append(Assocs, Lit("resources"))
    /\ DeleteAssocRoute.path = FromTo /\ DeleteAssocRoute.filter = NoQuery
    /\ DeleteAssocsRoute.path = Assocs
    /\ CountAssocsRoute.path = FromType /\ CountAssocsRoute.filter = NoQuery
    /\ GetAssocRoute.path = FromTo /\ GetAssocRoute.filter = NoQuery
  BY DEF CreateAssocRoute, UpdateAssocRoute, ListAssocsRoute, DeleteAssocRoute,
         DeleteAssocsRoute, CountAssocsRoute, GetAssocRoute, Route

(* Routes that could match one request differ in verb, in what follows the *)
(* colon, or in the length of the path.                                    *)
Apart(a, b) == a.verb # b.verb \/ a.colon # b.colon \/ Len(a.path) # Len(b.path)

LEMMA EchoRoutesApart ==
    ASSUME NEW i \in DOMAIN EchoRoutes, NEW j \in DOMAIN EchoRoutes, i # j
    PROVE  Apart(EchoRoutes[i], EchoRoutes[j])
<1> DEFINE Shape(route, verb, colon, n) ==
               route.verb = verb /\ route.colon = colon /\ Len(route.path) = n
<1>1. Len(Greetings) = 3 /\ (\A p : Len(ById(p)) = 4)
        /\ Len(Append(Greetings, Lit("resources"))) = 4
  BY DEF Greetings, ById
<1>2. /\ Shape(CreateGreetingRoute, "POST", "", 3)
      /\ Shape(GetGreetingRoute, "GET", "", 4)
      /\ Shape(UpdateGreetingRoute, "PATCH", "", 4)
      /\ Shape(ListGreetingsRoute, "POST", "", 4)
      /\ Shape(DeleteGreetingRoute, "DELETE", "", 4)
      /\ Shape(DeleteGreetingsRoute, "PATCH", "", 3)
      /\ Shape(ImportGreetingRoute, "POST", "import", 3)
      /\ Shape(ExportGreetingRoute, "POST", "export", 3)
  BY <1>1 DEF CreateGreetingRoute, GetGreetingRoute, UpdateGreetingRoute, ListGreetingsRoute,
              DeleteGreetingRoute, DeleteGreetingsRoute, ImportGreetingRoute, ExportGreetingRoute, Route
<1>3. DOMAIN EchoRoutes = 1..8
  BY EchoRoutesAre
<1>4. CASE /\ EchoRoutes[i].verb = EchoRoutes[j].verb
           /\ EchoRoutes[i].colon = EchoRoutes[j].colon
  <2>1. i \in 1..8 /\ j \in 1..8
    BY <1>3
  <2>2. /\ EchoRoutes[1].verb = "POST" /\ EchoRoutes[2].verb = "GET" /\ EchoRoutes[3].verb = "PATCH"
        /\ EchoRoutes[4].verb = "POST" /\ EchoRoutes[5].verb = "DELETE" /\ EchoRoutes[6].verb = "PATCH"
        /\ EchoRoutes[7].verb = "POST" /\ EchoRoutes[8].verb = "POST"
    BY <1>2, <1>3, EchoRoutesAre
  <2>3. /\ EchoRoutes[1].colon = "" /\ EchoRoutes[4].colon = ""
        /\ EchoRoutes[7].colon = "import" /\ EchoRoutes[8].colon = "export"
    BY <1>2, <1>3, EchoRoutesAre
  <2>4. \/ (i = 1 /\ j = 4) \/ (i = 4 /\ j = 1)
        \/ (i = 3 /\ j = 6) \/ (i = 6 /\ j = 3)
    <3>1. CASE i \in {2, 5}
      BY <1>4, <2>1, <2>2, <3>1
    <3>2. CASE i \in {3, 6}
      BY <1>4, <2>1, <2>2, <3>2
    <3>3. CASE i \in {1, 4, 7, 8}
      <4>1. j \in {1, 4, 7, 8}
        BY <1>4, <2>1, <2>2, <3>3
      <4> QED
        BY <1>4, <2>3, <3>3, <4>1
    <3> QED
      BY <2>1, <3>1, <3>2, <3>3
  <2>5. Apart(EchoRoutes[1], EchoRoutes[4]) /\ Apart(EchoRoutes[4], EchoRoutes[1])
    BY <1>2, <1>3, EchoRoutesAre DEF Apart
  <2>6. Apart(EchoRoutes[3], EchoRoutes[6]) /\ Apart(EchoRoutes[6], EchoRoutes[3])
    BY <1>2, <1>3, EchoRoutesAre DEF Apart
  <2> QED
    BY <2>4, <2>5, <2>6
<1> QED
  BY <1>4 DEF Apart

LEMMA AssocRoutesApart ==
    ASSUME NEW i \in DOMAIN AssocRoutes, NEW j \in DOMAIN AssocRoutes, i # j
    PROVE  Apart(AssocRoutes[i], AssocRoutes[j])
<1> DEFINE Shape(route, verb, n) == route.verb = verb /\ Len(route.path) = n
<1>1. /\ Len(Assocs) = 2 /\ Len(FromType) = 4 /\ Len(FromTo) = 5
      /\ Len(Append(Assocs, Lit("resources"))) = 3
  BY DEF Assocs, FromType, FromTo
<1>2. /\ Shape(CreateAssocRoute, "POST", 2)
      /\ Shape(UpdateAssocRoute, "PATCH", 5)
      /\ Shape(ListAssocsRoute, "POST", 3)
      /\ Shape(DeleteAssocRoute, "DELETE", 5)
      /\ Shape(DeleteAssocsRoute, "PATCH", 2)
      /\ Shape(CountAssocsRoute, "GET", 4)
      /\ Shape(GetAssocRoute, "GET", 5)
  BY <1>1 DEF CreateAssocRoute, UpdateAssocRoute, ListAssocsRoute, DeleteAssocRoute,
              DeleteAssocsRoute, CountAssocsRoute, GetAssocRoute, Route
<1>3. CASE AssocRoutes[i].verb = AssocRoutes[j].verb
  <2>1. \/ (i = 1 /\ j = 3) \/ (i = 3 /\ j = 1)
        \/ (i = 2 /\ j = 5) \/ (i = 5 /\ j = 2)
        \/ (i = 6 /\ j = 7) \/ (i = 7 /\ j = 6)
    BY <1>2, AssocRoutesAre, <1>3
  <2>2. Apart(AssocRoutes[1], AssocRoutes[3]) /\ Apart(AssocRoutes[3], AssocRoutes[1])
    BY <1>2, AssocRoutesAre DEF Apart
  <2>3. Apart(AssocRoutes[2], AssocRoutes[5]) /\ Apart(AssocRoutes[5], AssocRoutes[2])
    BY <1>2, AssocRoutesAre DEF Apart
  <2>4. Apart(AssocRoutes[6], AssocRoutes[7]) /\ Apart(AssocRoutes[7], AssocRoutes[6])
    BY <1>2, AssocRoutesAre DEF Apart
  <2> QED
    BY <2>1, <2>2, <2>3, <2>4
<1> QED
  BY <1>3 DEF Apart

LEMMA OneMatches ==
    ASSUME NEW s, NEW r, NEW i \in Matching(s, r), NEW j \in Matching(s, r)
    PROVE  i = j
<1>1. i \in DOMAIN Routes(s) /\ j \in DOMAIN Routes(s)
  BY DEF Matching
<1>2. ~Apart(Routes(s)[i], Routes(s)[j])
  BY DEF Matching, Matches, Apart
<1> QED
  BY <1>1, <1>2, EchoRoutesApart, AssocRoutesApart DEF Routes

(* No request whatever has two routes.                                     *)
THEOREM RoutesNeverCollide ==
    ASSUME NEW s, NEW r
    PROVE  Cardinality(Matching(s, r)) <= 1
<1>1. CASE Matching(s, r) = {}
  BY <1>1, FS_EmptySet
<1>2. CASE Matching(s, r) # {}
  <2>1. PICK i \in Matching(s, r) : TRUE
    BY <1>2
  <2>2. Matching(s, r) = {i}
    BY <2>1, OneMatches
  <2> QED
    BY <2>2, FS_Singleton
<1> QED
  BY <1>1, <1>2

(* So the one registered last is the one there is.                         *)
LEMMA RoutedIsRoute ==
    ASSUME NEW s, NEW r, Matching(s, r) # {}
    PROVE  \E i \in DOMAIN Routes(s) : Routed(s, r) = Routes(s)[i] /\ Matches(Routes(s)[i], r)
<1>1. PICK i \in Matching(s, r) : TRUE
  OBVIOUS
<1>2. i \in DOMAIN Routes(s) /\ Matches(Routes(s)[i], r)
  BY DEF Matching
<1>3. i \in Nat
  BY <1>2 DEF Routes, EchoRoutes, AssocRoutes
<1>4. \A j \in Matching(s, r) : j <= i
  BY <1>3, OneMatches
<1>5. (CHOOSE k \in Matching(s, r) : \A j \in Matching(s, r) : j <= k) = i
  BY <1>4, OneMatches
<1> QED
  BY <1>2, <1>5 DEF Routed
-----------------------------------------------------------------------------
(* A route whose path is safe: its variables are fields, or fields of      *)
(* fields, of different names at the top, which the query does not set.    *)
SafeVar(route, i) ==
    LET p == route.path[i].binds
    IN  /\ \E f, g : p = <<f>> \/ p = <<f, g>>
        /\ \A j \in Bound(route) : route.path[j].binds[1] = p[1] => j = i
        /\ route.filter = NoQuery \/ p[1] \in route.filter

LEMMA PathStays ==
    ASSUME NEW route, NEW r, NEW i \in Bound(route), SafeVar(route, i)
    PROVE  Get(Bind(route, r), route.path[i].binds) = PathValue(route, r, i)
<1> DEFINE p == route.path[i].binds
           f == p[1]
           v == PathValue(route, r, i)
           m == Decoded(route, r)
           inPath == InPath(route, r, m)
<1> HIDE DEF v, m
<1>1. Len(p) \in {1, 2} /\ (route.filter = NoQuery \/ f \in route.filter)
  <2>1. PICK a, b : p = <<a>> \/ p = <<a, b>>
    BY DEF SafeVar
  <2>2. Len(<<a>>) = 1 /\ Len(<<a, b>>) = 2
    OBVIOUS
  <2>3. Len(p) \in {1, 2}
    BY <2>1, <2>2
  <2> QED
    BY <2>3 DEF SafeVar
<1>2. (CHOOSE j \in Bound(route) : route.path[j].binds[1] = f) = i
  BY DEF SafeVar
<1>3. f \in DOMAIN inPath /\ inPath[f] = Get(Put(m, p, v), <<f>>)
  BY <1>2 DEF InPath, v
<1>4. Get(Put(m, p, v), <<f>>) = IF Len(p) = 1 THEN v ELSE With(At(m, f), p[2], v)
  <2>1. Put(m, p, v)[f] = IF Len(p) = 1 THEN v ELSE With(At(m, f), p[2], v)
    BY DEF Put, With
  <2>2. Len(<<f>>) = 1 /\ <<f>>[1] = f
    OBVIOUS
  <2> QED
    BY <2>1, <2>2 DEF Get
<1> HIDE DEF inPath
<1>5. ASSUME NEW q, NEW w, q # f PROVE With(inPath, q, w)[f] = inPath[f]
  BY <1>3, <1>5 DEF With
<1>6. InQuery(route, r, inPath)[f] = inPath[f]
  <2>1. CASE \/ r.query = <<>>
             \/ route.filter = NoQuery
             \/ r.query[1][1] \in route.filter
             \/ r.query[1][1] \notin Fields(RequestOf(route.method))
    BY <2>1 DEF InQuery
  <2>2. CASE ~(\/ r.query = <<>>
               \/ route.filter = NoQuery
               \/ r.query[1][1] \in route.filter
               \/ r.query[1][1] \notin Fields(RequestOf(route.method)))
    <3>1. r.query[1][1] # f
      BY <1>1, <2>2
    <3>2. \E w : InQuery(route, r, inPath) = Put(inPath, r.query[1], w)
      BY <2>2 DEF InQuery
    <3>3. \E w : InQuery(route, r, inPath) = With(inPath, r.query[1][1], w)
      BY <3>2 DEF Put
    <3> QED
      BY <1>5, <3>1, <3>3
  <2> QED
    BY <2>1, <2>2
<1>7. Bind(route, r)[f] = IF Len(p) = 1 THEN v ELSE With(At(m, f), p[2], v)
  BY <1>3, <1>4, <1>6 DEF Bind, m, inPath
<1>8. With(At(m, f), p[2], v)[p[2]] = v
  BY DEF With
<1>9. Get(Bind(route, r), p) = v
  BY <1>1, <1>7, <1>8 DEF Get
<1> QED
  BY <1>9 DEF v

LEMMA OnlyVarSafe ==
    ASSUME NEW route, NEW k, NEW f, Bound(route) = {k}, route.path[k].binds = <<f>>,
           route.filter = NoQuery
    PROVE  SafeVar(route, k)
  BY DEF SafeVar

LEMMA EchoPathsSafe ==
    ASSUME NEW n \in DOMAIN EchoRoutes, NEW i \in Bound(EchoRoutes[n])
    PROVE  SafeVar(EchoRoutes[n], i)
<1>1. /\ DOMAIN Greetings = 1..3
      /\ Greetings[1].binds = <<>> /\ Greetings[2].binds = <<"parent">> /\ Greetings[3].binds = <<>>
  BY DEF Greetings, Lit, Only
<1>2. ASSUME NEW route, route.path = Greetings, route.filter = NoQuery, NEW k \in Bound(route)
      PROVE  SafeVar(route, k)
  <2>1. Bound(route) = {2} /\ k = 2
    BY <1>1, <1>2 DEF Bound
  <2> QED
    BY <1>1, <1>2, <2>1, OnlyVarSafe
<1>3. ASSUME NEW route, route.path = Append(Greetings, Lit("resources")), route.filter = NoQuery,
             NEW k \in Bound(route)
      PROVE  SafeVar(route, k)
  <2> DEFINE path == Append(Greetings, Lit("resources"))
  <2>1. /\ DOMAIN path = 1..4 /\ path[1].binds = <<>> /\ path[2].binds = <<"parent">>
        /\ path[3].binds = <<>> /\ path[4].binds = <<>>
    BY DEF Greetings, Lit, Only
  <2>2. Bound(route) = {2} /\ k = 2
    BY <1>3, <2>1 DEF Bound
  <2> QED
    BY <1>3, <2>1, <2>2, OnlyVarSafe
<1>4. ASSUME NEW route, NEW p, NEW f, NEW g, route.path = ById(p),
             p = <<f>> \/ p = <<f, g>>, p[1] = f, p # <<>>, f # "parent",
             route.filter = NoQuery \/ (f \in route.filter /\ "parent" \in route.filter),
             NEW k \in Bound(route)
      PROVE  SafeVar(route, k)
  <2>1. /\ DOMAIN ById(p) = 1..4 /\ ById(p)[1] = Greetings[1] /\ ById(p)[2] = Greetings[2]
        /\ ById(p)[3] = Greetings[3]
    BY DEF ById, Greetings
  <2>2. ById(p)[4] = Var(p)
    BY DEF ById, Greetings
  <2>3. ById(p)[4].binds = p
    BY <2>2, WordBinds
  <2>4. Bound(route) = {2, 4}
    BY <1>1, <1>4, <2>1, <2>3 DEF Bound
  <2>5. <<"parent">>[1] = "parent"
    OBVIOUS
  <2>6. CASE k = 2
    <3>1. route.path[k].binds = <<"parent">>
      BY <1>1, <1>4, <2>1, <2>6
    <3>2. \A l \in Bound(route) : route.path[l].binds[1] = "parent" => l = k
      BY <1>4, <2>3, <2>4, <2>6
    <3> QED
      BY <1>4, <2>5, <3>1, <3>2 DEF SafeVar
  <2>7. CASE k = 4
    <3>1. route.path[k].binds = p
      BY <1>4, <2>3, <2>7
    <3>2. \A l \in Bound(route) : route.path[l].binds[1] = f => l = k
      BY <1>1, <1>4, <2>1, <2>4, <2>5, <2>7
    <3> QED
      BY <1>4, <3>1, <3>2 DEF SafeVar
  <2> QED
    BY <2>4, <2>6, <2>7
<1>5. n \in 1..8
  BY EchoRoutesAre
<1>6. CASE n \in {1, 6, 7, 8}
  <2>1. EchoRoutes[n].path = Greetings /\ EchoRoutes[n].filter = NoQuery
    BY <1>6, EchoRoutesAre, EchoParts
  <2> QED
    BY <1>2, <2>1
<1>7. CASE n = 4
  BY <1>3, <1>7, EchoRoutesAre, EchoParts
<1>8. CASE n \in {2, 5}
  <2>1. /\ EchoRoutes[n].path = ById(<<"id">>)
        /\ EchoRoutes[n].filter = NoQuery \/ EchoRoutes[n].filter = {"parent", "id"}
    BY <1>8, EchoRoutesAre, EchoParts
  <2>2. <<"id">>[1] = "id" /\ <<"id">> # <<>>
    OBVIOUS
  <2> QED
    BY <1>4, <2>1, <2>2
<1>9. CASE n = 3
  <2>1. /\ EchoRoutes[n].path = ById(<<"greeting", "id">>)
        /\ EchoRoutes[n].filter = {"greeting", "parent"}
    BY <1>9, EchoRoutesAre, EchoParts
  <2>2. <<"greeting", "id">>[1] = "greeting" /\ <<"greeting", "id">> # <<>>
    OBVIOUS
  <2> QED
    BY <1>4, <2>1, <2>2
<1> QED
  BY <1>5, <1>6, <1>7, <1>8, <1>9

LEMMA AssocPathsSafe ==
    ASSUME NEW n \in DOMAIN AssocRoutes, NEW i \in Bound(AssocRoutes[n])
    PROVE  SafeVar(AssocRoutes[n], i)
<1>1. ASSUME NEW route, route.path \in {Assocs, Append(Assocs, Lit("resources"))}
      PROVE  Bound(route) = {}
  BY <1>1 DEF Bound, Assocs, Lit
<1>2. ASSUME NEW route, route.path \in {FromType, FromTo}, route.filter = NoQuery,
             NEW k \in Bound(route)
      PROVE  SafeVar(route, k)
  <2>1. DOMAIN FromType = 1..4 /\ DOMAIN FromTo = 1..5
    BY DEF FromType, FromTo, Assocs
  <2>2. /\ FromType[1] = Lit("v1") /\ FromType[2] = Lit("assocs")
        /\ FromType[3] = Var(<<"from_id">>) /\ FromType[4] = Var(<<"a_type">>)
    BY DEF FromType, Assocs
  <2>3. /\ FromTo[1] = Lit("v1") /\ FromTo[2] = Lit("assocs")
        /\ FromTo[3] = Var(<<"from_id">>) /\ FromTo[4] = Var(<<"a_type">>)
    BY <2>2 DEF FromTo, FromType, Assocs
  <2>4. FromTo[5] = Var(<<"to_id">>)
    BY DEF FromTo, FromType, Assocs
  <2> DEFINE name(l) == IF l = 3 THEN "from_id" ELSE IF l = 4 THEN "a_type" ELSE "to_id"
  <2>5. \A l \in Bound(route) : l \in {3, 4, 5} /\ route.path[l].binds = <<name(l)>>
    <3>1. CASE route.path = FromType
      BY <2>1, <2>2, <3>1, WordBinds DEF Bound
    <3>2. CASE route.path = FromTo
      BY <2>1, <2>3, <2>4, <3>2, WordBinds DEF Bound
    <3> QED
      BY <1>2, <3>1, <3>2
  <2>6. \A l \in Bound(route) : name(l) = name(k) => l = k
    BY <2>5
  <2> HIDE DEF name
  <2>7. \A l \in Bound(route) : route.path[l].binds[1] = name(l)
    BY <2>5
  <2> QED
    BY <1>2, <2>5, <2>6, <2>7 DEF SafeVar
<1>3. n \in 1..7
  BY AssocRoutesAre
<1>4. CASE n \in {1, 3, 5}
  BY <1>1, <1>4, AssocRoutesAre, AssocParts
<1>5. CASE n \in {2, 4, 6, 7}
  <2>1. AssocRoutes[n].path \in {FromType, FromTo} /\ AssocRoutes[n].filter = NoQuery
    BY <1>5, AssocRoutesAre, AssocParts
  <2> QED
    BY <1>2, <2>1
<1> QED
  BY <1>3, <1>4, <1>5

(* For every request that has a route, what the path says of a field is    *)
(* what the method is called with, whatever body and query say.            *)
THEOREM PathAlwaysWins ==
    ASSUME NEW s, NEW r, Matching(s, r) # {}, NEW i \in Bound(Routed(s, r))
    PROVE  Get(Bind(Routed(s, r), r), Routed(s, r).path[i].binds) = PathValue(Routed(s, r), r, i)
<1>1. PICK n \in DOMAIN Routes(s) : Routed(s, r) = Routes(s)[n]
  BY RoutedIsRoute
<1>2. SafeVar(Routed(s, r), i)
  BY <1>1, EchoPathsSafe, AssocPathsSafe DEF Routes
<1> QED
  BY <1>2, PathStays
-----------------------------------------------------------------------------
Methods == DOMAIN EchoResponses \cup DOMAIN AssocResponses

LEMMA RoutesOfMethods ==
    ASSUME NEW s, NEW i \in DOMAIN Routes(s)
    PROVE  Routes(s)[i].method \in Methods
<1>1. ASSUME NEW n \in DOMAIN EchoRoutes PROVE EchoRoutes[n].method \in DOMAIN EchoResponses
  <2>1. /\ CreateGreetingRoute.method = "CreateGreeting" /\ GetGreetingRoute.method = "GetGreeting"
        /\ UpdateGreetingRoute.method = "UpdateGreeting" /\ ListGreetingsRoute.method = "ListGreetings"
        /\ DeleteGreetingRoute.method = "DeleteGreeting"
        /\ DeleteGreetingsRoute.method = "DeleteGreetings"
        /\ ImportGreetingRoute.method = "ImportGreeting"
        /\ ExportGreetingRoute.method = "ExportGreeting"
    BY DEF CreateGreetingRoute, GetGreetingRoute, UpdateGreetingRoute, ListGreetingsRoute,
           DeleteGreetingRoute, DeleteGreetingsRoute, ImportGreetingRoute, ExportGreetingRoute, Route
  <2>2. DOMAIN EchoResponses = {"CreateGreeting", "GetGreeting", "UpdateGreeting", "ListGreetings",
                                "DeleteGreeting", "DeleteGreetings", "ImportGreeting", "ExportGreeting"}
    BY DEF EchoResponses
  <2>3. n \in 1..8
    BY EchoRoutesAre
  <2> QED
    BY <2>1, <2>2, <2>3, EchoRoutesAre
<1>2. ASSUME NEW n \in DOMAIN AssocRoutes PROVE AssocRoutes[n].method \in DOMAIN AssocResponses
  <2>1. /\ CreateAssocRoute.method = "CreateAssoc" /\ UpdateAssocRoute.method = "UpdateAssoc"
        /\ ListAssocsRoute.method = "ListAssocs" /\ DeleteAssocRoute.method = "DeleteAssoc"
        /\ DeleteAssocsRoute.method = "DeleteAssocs" /\ CountAssocsRoute.method = "CountAssocs"
        /\ GetAssocRoute.method = "GetAssoc"
    BY DEF CreateAssocRoute, UpdateAssocRoute, ListAssocsRoute, DeleteAssocRoute,
           DeleteAssocsRoute, CountAssocsRoute, GetAssocRoute, Route
  <2>2. DOMAIN AssocResponses = {"CreateAssoc", "UpdateAssoc", "ListAssocs", "DeleteAssoc",
                                 "DeleteAssocs", "CountAssocs", "GetAssoc"}
    BY DEF AssocResponses
  <2>3. n \in 1..7
    BY AssocRoutesAre
  <2> QED
    BY <2>1, <2>2, <2>3, AssocRoutesAre
<1> QED
  BY <1>1, <1>2 DEF Routes, Methods

(* All of the responses begin with the fields of a google.rpc.Status.      *)
LEMMA ResponsesAlike ==
    ASSUME NEW method \in Methods
    PROVE  \E details : Responses[method] = Reply(details)
<1>1. CASE method \in DOMAIN EchoResponses
  <2>1. Responses[method] = EchoResponses[method]
    BY <1>1 DEF Responses
  <2>2. /\ EchoResponses["CreateGreeting"] = Reply("Greeting")
        /\ EchoResponses["GetGreeting"] = Reply("Greeting")
        /\ EchoResponses["UpdateGreeting"] = Reply("Greeting")
        /\ EchoResponses["ListGreetings"] = Reply("ListGreetingsDetails")
        /\ EchoResponses["DeleteGreeting"] = Reply("Greeting")
        /\ EchoResponses["DeleteGreetings"] = Reply("int64")
        /\ EchoResponses["ImportGreeting"] = Reply("bool")
        /\ EchoResponses["ExportGreeting"] = Reply("string")
    BY DEF EchoResponses, CreateGreetingResponse, GetGreetingResponse, UpdateGreetingResponse,
           ListGreetingsResponse, DeleteGreetingResponse, DeleteGreetingsResponse,
           ImportGreetingResponse, ExportGreetingResponse
  <2>3. method \in {"CreateGreeting", "GetGreeting", "UpdateGreeting", "ListGreetings",
                    "DeleteGreeting", "DeleteGreetings", "ImportGreeting", "ExportGreeting"}
    BY <1>1 DEF EchoResponses
  <2> QED
    BY <2>1, <2>2, <2>3
<1>2. CASE method \notin DOMAIN EchoResponses
  <2>1. Responses[method] = AssocResponses[method]
    BY <1>2 DEF Responses, Methods
  <2>2. /\ AssocResponses["CreateAssoc"] = Reply("Assoc")
        /\ AssocResponses["UpdateAssoc"] = Reply("Assoc")
        /\ AssocResponses["ListAssocs"] = Reply("ListAssocsDetails")
        /\ AssocResponses["DeleteAssoc"] = Reply("Assoc")
        /\ AssocResponses["DeleteAssocs"] = Reply("int64")
        /\ AssocResponses["CountAssocs"] = Reply("int64")
        /\ AssocResponses["GetAssoc"] = Reply("Assoc")
    BY DEF AssocResponses, CreateAssocResponse, UpdateAssocResponse, ListAssocsResponse,
           DeleteAssocResponse, DeleteAssocsResponse, CountAssocsResponse, GetAssocResponse
  <2>3. method \in {"CreateAssoc", "UpdateAssoc", "ListAssocs", "DeleteAssoc", "DeleteAssocs",
                    "CountAssocs", "GetAssoc"}
    BY <1>2 DEF AssocResponses, Methods
  <2> QED
    BY <2>1, <2>2, <2>3
<1> QED
  BY <1>1, <1>2

(* In such a response the code is the first field.                         *)
LEMMA CodeIsFirst ==
    ASSUME NEW details
    PROVE  LET R == Reply(details)
           IN  /\ DOMAIN R = 1..3
               /\ R[1][1] = "code" /\ R[2][1] = "message" /\ R[3][1] = "details"
               /\ (CHOOSE i \in DOMAIN R : R[i][1] = "code") = 1
<1> DEFINE R == Reply(details)
<1>1. DOMAIN R = 1..3 /\ R[1][1] = "code" /\ R[2][1] = "message" /\ R[3][1] = "details"
  BY DEF Reply
<1>2. \A i \in DOMAIN R : R[i][1] = "code" => i = 1
  BY <1>1
<1> QED
  BY <1>1, <1>2

LEMMA StatusReadAsResponse ==
    ASSUME NEW details, NEW k
    PROVE  LET m == DecodedAs(Reply(details), Encoded(Status, [code |-> k, message |-> "text"]))
           IN  "code" \in DOMAIN m /\ m["code"] = k
<1> DEFINE R == Reply(details)
           wire == Encoded(Status, [code |-> k, message |-> "text"])
<1>1. 1 \in DOMAIN wire /\ wire[1] = k
  BY DEF Encoded, Status, Reply
<1> HIDE DEF R, wire
<1>2. 1 \in DOMAIN R /\ R[1][1] = "code" /\ (CHOOSE i \in DOMAIN R : R[i][1] = "code") = 1
  BY CodeIsFirst DEF R
<1> QED
  BY <1>1, <1>2 DEF DecodedAs, R, wire

LEMMA NoCodeRead ==
    ASSUME NEW details
    PROVE  /\ "code" \notin DOMAIN DecodedAs(Reply(details), Encoded(Reply(details), [details |-> "details"]))
           /\ "code" \notin DOMAIN DecodedAs(Reply(details), Empty)
<1> DEFINE R == Reply(details)
<1>1. DOMAIN R = 1..3 /\ R[1][1] = "code" /\ R[2][1] = "message" /\ R[3][1] = "details"
  BY CodeIsFirst
<1> HIDE DEF R
<1>2. DOMAIN Encoded(R, [details |-> "details"]) = {3}
  BY <1>1 DEF Encoded
<1>3. DOMAIN Empty = {}
  BY DEF Empty
<1> QED
  BY <1>1, <1>2, <1>3 DEF DecodedAs, R

(* What the client of any method reads when the method ends with any       *)
(* error: a success, the code of the error in the place of the response's, *)
(* or the status of gRPC that the error was.                               *)
THEOREM ErrorsReadBack ==
    ASSUME NEW method \in Methods, NEW e
    PROVE  ReadBy(method, UnaryServerInterceptor(method, e)) =
              IF e = NoError THEN [status |-> "OK", code |-> 0]
              ELSE IF translateError(e) # 0 THEN [status |-> "OK", code |-> translateError(e)]
              ELSE [status |-> e.status, code |-> 0]
<1> DEFINE sent == UnaryServerInterceptor(method, e)
           m == DecodedAs(Responses[method], sent.wire)
<1>1. PICK details : Responses[method] = Reply(details)
  BY ResponsesAlike
<1>2. CASE e = NoError
  <2>1. sent.status = "OK" /\ sent.wire = Encoded(Reply(details), [details |-> "details"])
    BY <1>1, <1>2 DEF UnaryServerInterceptor
  <2>2. "code" \notin DOMAIN m
    BY <1>1, <2>1, NoCodeRead
  <2> QED
    BY <1>2, <2>1, <2>2 DEF ReadBy
<1>3. CASE e # NoError /\ translateError(e) # 0
  <2>1. /\ sent.status = "OK"
        /\ sent.wire = Encoded(Status, [code |-> translateError(e), message |-> "text"])
    BY <1>3 DEF UnaryServerInterceptor
  <2>2. "code" \in DOMAIN m /\ m["code"] = translateError(e)
    BY <1>1, <2>1, StatusReadAsResponse
  <2> QED
    BY <1>3, <2>1, <2>2 DEF ReadBy
<1>4. CASE e # NoError /\ translateError(e) = 0
  <2>1. sent.status = e.status /\ sent.wire = Empty
    BY <1>4 DEF UnaryServerInterceptor
  <2>2. "code" \notin DOMAIN m
    BY <1>1, <2>1, NoCodeRead
  <2> QED
    BY <1>4, <2>1, <2>2 DEF ReadBy
<1> QED
  BY <1>2, <1>3, <1>4
=============================================================================
