------------------------------ MODULE HttpProtos ------------------------------
(* The message classes and enums of src/protos/http.js: the rules by which  *)
(* a method is bound to HTTP requests, with the names of the .proto file.   *)
EXTENDS ProtoSchema

-----------------------------------------------------------------------------
Http == Message("google.api",
  <<Repeated("rules", 1, "HttpRule"),
    One("fully_decode_reserved_expansion", 2, "bool")>>)

HttpRule == Message("google.api",
  <<One("selector", 1, "string"), ChoiceOr0("pattern", "get", 2, "string"),
    ChoiceOr0("pattern", "put", 3, "string"),
    ChoiceOr0("pattern", "post", 4, "string"),
    ChoiceOr0("pattern", "delete", 5, "string"),
    ChoiceOr0("pattern", "patch", 6, "string"), One("body", 7, "string"),
    Choice("pattern", "custom", 8, "CustomHttpPattern"),
    Repeated("additional_bindings", 11, "HttpRule"),
    One("response_body", 12, "string")>>)

CustomHttpPattern == Message("google.api",
  <<One("kind", 1, "string"), One("path", 2, "string")>>)

-----------------------------------------------------------------------------
(* All of them, under their names. *)
Package ==
    [Http |-> Http, HttpRule |-> HttpRule, CustomHttpPattern |-> CustomHttpPattern]

===============================================================================
