------------------------------ MODULE Messages ------------------------------
(***************************************************************************)
(* The requests and the responses of the Go services (the .pb.go files of  *)
(* apis/), as far as the gateway binds and the client decodes their fields.*)
(*                                                                         *)
(* A message type is the sequence of its fields, each a name and a type:   *)
(* the fields of every message are numbered from one without a gap, so a   *)
(* field's number is its place.  A repeated field has the type of its      *)
(* elements.  A message is the function from the fields that are set to    *)
(* their values: proto3 does not tell a field with the zero value from one *)
(* that is not set.                                                        *)
(***************************************************************************)
EXTENDS Naturals, Sequences

(* The three fields that every response has. *)
Reply(details) == <<<<"code", "int32">>, <<"message", "string">>, <<"details", details>>>>

(* The codes of the services' own errors; 0 is success. *)
Code == {0, 1000, 1003, 1005, 1006, 2000, 2001, 3000}

(* echo/v1 *)
Greeting == <<<<"id", "int64">>, <<"create_at", "string">>, <<"update_at", "string">>,
              <<"greeted", "string">>, <<"chat", "Chat">>>>

CreateGreetingRequest   == <<<<"parent", "string">>, <<"greeting", "Greeting">>>>
CreateGreetingResponse  == Reply("Greeting")
GetGreetingRequest      == <<<<"parent", "string">>, <<"id", "int64">>, <<"read_mask", "FieldMask">>>>
GetGreetingResponse     == Reply("Greeting")
UpdateGreetingRequest   == <<<<"parent", "string">>, <<"greeting", "Greeting">>,
                             <<"update_mask", "FieldMask">>>>
UpdateGreetingResponse  == Reply("Greeting")
ListGreetingsRequest    == <<<<"parent", "string">>, <<"common_option", "CommonOption">>,
                             <<"common_filter", "CommonFilter">>, <<"read_mask", "FieldMask">>,
                             <<"option_filter", "GreetingOptionFilter">>>>
ListGreetingsResponse   == Reply("ListGreetingsDetails")
DeleteGreetingRequest   == <<<<"parent", "string">>, <<"id", "int64">>>>
DeleteGreetingResponse  == Reply("Greeting")
DeleteGreetingsRequest  == <<<<"parent", "string">>, <<"common_filter", "CommonFilter">>,
                             <<"option_filter", "GreetingOptionFilter">>>>
DeleteGreetingsResponse == Reply("int64")
ImportGreetingRequest   == <<<<"parent", "string">>, <<"import_config", "ImportGreetingConfig">>>>
ImportGreetingResponse  == Reply("bool")
ExportGreetingRequest   == <<<<"parent", "string">>, <<"export_config", "ExportGreetingConfig">>>>
ExportGreetingResponse  == Reply("string")

(* assoc/v1; the types of associations are numbered from zero. *)
AssocType == <<"ASSOC_TYPE_UNSPECIFIED", "ASSOC_TYPE_TAGBY", "ASSOC_TYPE_TAGTO",
              "ASSOC_TYPE_CREATED_BY", "ASSOC_TYPE_CREATED_WITH", "ASSOC_TYPE_INHERIT_FROM",
              "ASSOC_TYPE_EXTEND_TO", "ASSOC_TYPE_FLOW_HISTORY", "ASSOC_TYPE_HISTORY_FLOW">>

Assoc == <<<<"id", "int64">>, <<"create_at", "string">>, <<"update_at", "string">>,
           <<"from_id", "int64">>, <<"to_id", "int64">>, <<"a_type", "AssocType">>,
           <<"meta", "string">>>>

CreateAssocRequest   == <<<<"parent", "string">>, <<"assoc", "Assoc">>>>
CreateAssocResponse  == Reply("Assoc")
UpdateAssocRequest   == <<<<"from_id", "int64">>, <<"to_id", "int64">>, <<"a_type", "AssocType">>,
                          <<"assoc", "Assoc">>, <<"update_mask", "FieldMask">>>>
UpdateAssocResponse  == Reply("Assoc")
ListAssocsRequest    == <<<<"parent", "string">>, <<"common_option", "CommonOption">>,
                          <<"common_filter", "CommonFilter">>, <<"read_mask", "FieldMask">>,
                          <<"option_filter", "AssocOptionFilter">>>>
ListAssocsResponse   == Reply("ListAssocsDetails")
DeleteAssocRequest   == <<<<"from_id", "int64">>, <<"to_id", "int64">>, <<"a_type", "AssocType">>>>
DeleteAssocResponse  == Reply("Assoc")
DeleteAssocsRequest  == <<<<"parent", "string">>, <<"common_filter", "CommonFilter">>,
                          <<"option_filter", "AssocOptionFilter">>>>
DeleteAssocsResponse == Reply("int64")
CountAssocsRequest   == <<<<"from_id", "int64">>, <<"a_type", "AssocType">>>>
CountAssocsResponse  == Reply("int64")
GetAssocRequest      == <<<<"from_id", "int64">>, <<"a_type", "AssocType">>, <<"to_id", "int64">>>>
GetAssocResponse     == Reply("Assoc")
-----------------------------------------------------------------------------
(* The types that the gateway sets fields of. *)
MessageTypes == [
    Greeting |-> Greeting,
    Assoc |-> Assoc,
    CreateGreetingRequest |-> CreateGreetingRequest,
    GetGreetingRequest |-> GetGreetingRequest,
    UpdateGreetingRequest |-> UpdateGreetingRequest,
    ListGreetingsRequest |-> ListGreetingsRequest,
    DeleteGreetingRequest |-> DeleteGreetingRequest,
    DeleteGreetingsRequest |-> DeleteGreetingsRequest,
    ImportGreetingRequest |-> ImportGreetingRequest,
    ExportGreetingRequest |-> ExportGreetingRequest,
    CreateAssocRequest |-> CreateAssocRequest,
    UpdateAssocRequest |-> UpdateAssocRequest,
    ListAssocsRequest |-> ListAssocsRequest,
    DeleteAssocRequest |-> DeleteAssocRequest,
    DeleteAssocsRequest |-> DeleteAssocsRequest,
    CountAssocsRequest |-> CountAssocsRequest,
    GetAssocRequest |-> GetAssocRequest]
=============================================================================
