----------------------------- MODULE ProtoSchema -----------------------------
(***************************************************************************)
(* How the modules HttpProtos, LocationsProtos, OperationsProtos,          *)
(* IamServiceProtos and ComputeOperationsProtos write down the classes and *)
(* enums of src/protos/*.js: each with its namespace, each field with its  *)
(* number, its type, its label, the virtual property (oneof) it belongs    *)
(* to, and the default that the prototype of the class holds.              *)
(***************************************************************************)
EXTENDS Integers, Sequences

Null == -1    \* the default of a field that has none

Message(namespace, fields) ==
    [kind |-> "message", namespace |-> namespace, fields |-> fields]
Enum(namespace, numbers) ==
    [kind |-> "enum", namespace |-> namespace, numbers |-> numbers]

FieldOf(name, id, type, label, oneof, default) ==
    [name |-> name, id |-> id, type |-> type, label |-> label,
     oneof |-> oneof, default |-> default]

One(name, id, type)     == FieldOf(name, id, type, "one", "", 0)
OneOr(name, id, type, default) == FieldOf(name, id, type, "one", "", default)
Sub(name, id, type)     == FieldOf(name, id, type, "one", "", Null)  \* a message
Optional(name, id, type) == FieldOf(name, id, type, "one", "_" \o name, Null)
Choice(oneof, name, id, type)   == FieldOf(name, id, type, "one", oneof, Null)
ChoiceOr0(oneof, name, id, type) == FieldOf(name, id, type, "one", oneof, 0)
Required(name, id, type) == FieldOf(name, id, type, "required", "", 0)
Repeated(name, id, type) == FieldOf(name, id, type, "repeated", "", Null)
Packed(name, id, type)  == FieldOf(name, id, type, "packed", "", Null)
MapOf(name, id, type)   == FieldOf(name, id, type, "map", "", Null)

===============================================================================
