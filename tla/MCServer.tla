------------------------------ MODULE MCServer ------------------------------
EXTENDS Server

CONSTANTS c1, c2

Http(verb, path, query, body) ==
    [verb |-> verb, path |-> path, colon |-> "", query |-> query, sent |-> body # Empty,
     malformed |-> FALSE, body |-> body]

Echos(rest) == <<"v1", "echos", "greetings">> \o rest
New == [greeted |-> "new"]

Update     == Http("PATCH", Echos(<<"1">>), <<>>, New)
MoveIt     == Http("PATCH", Echos(<<"1">>), <<<<"greeting", "id">>, "2">>, [id |-> "2", chat |-> "new"])
MaskIt     == Http("PATCH", Echos(<<"1">>), <<<<"update_mask">>, "chat">>, New)
Create     == Http("POST", Echos(<<>>), <<>>, New)
CreateAs   == Http("POST", Echos(<<>>), <<>>, [id |-> "1", greeted |-> "new"])
CreateBad  == [Create EXCEPT !.malformed = TRUE]
CreateNone == Http("POST", Echos(<<>>), <<>>, Empty)
GetOne     == Http("GET", Echos(<<"1">>), <<<<"id">>, "2">>, Empty)
GetBad     == Http("GET", Echos(<<"resources">>), <<>>, Empty)
List       == Http("POST", Echos(<<"resources">>), <<>>, [common_option |-> [page |-> "1"]])
DeleteOne  == Http("DELETE", Echos(<<"1">>), <<>>, Empty)
DeleteAll  == Http("PATCH", Echos(<<>>), <<>>, [common_filter |-> [include_ids |-> "1"]])
Import     == [Create EXCEPT !.colon = "import", !.body = [file_path |-> "f"]]
AssocOf(rest) == <<"v1", "assocs">> \o rest
CreateAssoc   == Http("POST", AssocOf(<<>>), <<<<"assoc", "id">>, "7">>,
                      [from_id |-> "1", a_type |-> "ASSOC_TYPE_TAGBY", to_id |-> "2"])
CreateHalf    == Http("POST", AssocOf(<<>>), <<<<"parent">>, "p">>, [from_id |-> "1"])
UpdateAssocs  == {Http("PATCH", AssocOf(<<"1", t, "2">>), <<>>,
                       [from_id |-> "3", to_id |-> "3", assoc |-> [meta |-> "m"]]) :
                    t \in {"1", "ASSOC_TYPE_TAGBY", "other"}}

MCSamples == {Update, MoveIt, MaskIt, Create, CreateBad, CreateNone, GetOne, GetBad, List,
            DeleteOne, DeleteAll, Import, CreateAs}
           \cup UpdateAssocs
           \cup {CreateAssoc, CreateHalf, Http("GET", AssocOf(<<"1", "1">>), <<>>, Empty),
                 Http("GET", AssocOf(<<"1", "1", "2">>), <<<<"to_id">>, "3">>, Empty),
                 Http("DELETE", AssocOf(<<"1", "1", "2">>), <<>>, Empty),
                 Http("POST", AssocOf(<<"resources">>), <<>>, [read_mask |-> {"id"}]),
                 Http("PATCH", AssocOf(<<>>), <<>>, [option_filter |-> [from_id |-> "1"]])}

MCRequests == [c \in Calls |-> IF c = c1
    THEN {Update, CreateAs, CreateBad, GetOne, DeleteOne, DeleteAll, Import,
          CreateNone, CreateAssoc, Http("GET", AssocOf(<<"0", "1">>), <<>>, Empty)}
    ELSE {}]
OldKey == [from_id |-> "1", to_id |-> "2", a_type |-> "ASSOC_TYPE_TAGBY"]
MCDirect ==
    [c \in Calls |-> IF c = c1 THEN {} ELSE
        {[service |-> "echo", method |-> "UpdateGreeting",
          message |-> [greeting |-> [id |-> "1", chat |-> "newer"], update_mask |-> {"chat"}]],
         [service |-> "echo", method |-> "UpdateGreeting",
          message |-> [greeting |-> [greeted |-> "newer"], update_mask |-> {"greeted"}]],
         [service |-> "echo", method |-> "GetGreeting", message |-> [id |-> "2"]],
         [service |-> "assoc", method |-> "UpdateAssoc", message |-> OldKey],
         [service |-> "assoc", method |-> "UpdateAssoc",
          message |-> With(OldKey, "assoc",
                           [from_id |-> "1", to_id |-> "3", a_type |-> "ASSOC_TYPE_TAGBY"])]}]
MCErrors == {Plain("no rows")}
=============================================================================
