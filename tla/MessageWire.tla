----------------------------- MODULE MessageWire -----------------------------
(***************************************************************************)
(* A message between two peers.  It is built with a class of one of the    *)
(* files of src/protos, verified or not, encoded, and decoded with the     *)
(* same class or with the copy of it in another file: google.api.Http is   *)
(* in five files, google.protobuf.* in four, each generated on its own.    *)
(* On its way the message may be followed by a second one, whose fields    *)
(* count as more of the first, or come from a peer that omits a field.     *)
(***************************************************************************)
EXTENDS ProtoMessages, FiniteSets, FiniteSetsExt

HttpFile       == INSTANCE HttpProtos
LocationsFile  == INSTANCE LocationsProtos
OperationsFile == INSTANCE OperationsProtos
IamServiceFile == INSTANCE IamServiceProtos
ComputeFile    == INSTANCE ComputeOperationsProtos

CONSTANTS
    Files,      \* the files the peers use
    MaxFields   \* bound: the fields that are set in a message

Packages ==
    [http |-> HttpFile!Package, locations |-> LocationsFile!Package,
     operations |-> OperationsFile!Package, iam_service |-> IamServiceFile!Package,
     compute_operations |-> ComputeFile!Package]

ASSUME FilesAssumption == Files \subseteq DOMAIN Packages

MessageTypes(file) ==
    {t \in DOMAIN Packages[file] : Packages[file][t].kind = "message"}

VARIABLES
    origin, class,  \* the class of the message
    message,     \* as it was built
    stage,       \* "building", "sent", "joined", "omitted", "read" or "refused"
    way,         \* the stage in which it was when it was read
    second,      \* the message that follows it
    wire,        \* what is on its way
    reader,      \* the file of the class it was decoded with
    decoded      \* what came out, unless it was refused

vars == <<origin, class, message, stage, way, second, wire, reader, decoded>>

Pkg == Packages[origin]

-----------------------------------------------------------------------------
(* The values the model gives to fields: two for each, and a third for an   *)
(* enum, which none of its names has.                                       *)

Unknown == 99

Scalars(pkg, t) ==
    IF IsEnum(pkg, t) THEN {Max(EnumNumbers(pkg, t)), Min(EnumNumbers(pkg, t)), Unknown}
    ELSE {0, 1}

(* A small message: the first field of its class, the simplest value.       *)
Simplest(pkg, f) ==
    LET one == IF IsMessage(pkg, f.type) THEN <<>>
               ELSE IF IsEnum(pkg, f.type) THEN Max(EnumNumbers(pkg, f.type)) ELSE 1
    IN  IF IsMany(f) THEN <<one>>
        ELSE IF f.label = "map" THEN <<[name |-> "key", value |-> one]>> ELSE one

Small(pkg, t) ==
    LET fields == pkg[t].fields
    IN  IF fields = <<>> THEN <<>>
        ELSE <<[name |-> fields[1].name, value |-> Simplest(pkg, fields[1])]>>

Singles(pkg, t) == IF IsMessage(pkg, t) THEN {<<>>, Small(pkg, t)} ELSE Scalars(pkg, t)

Samples(pkg, f) ==
    LET single == Singles(pkg, f.type) IN
    IF IsMany(f) THEN {<<x>> : x \in single} \cup {<<Simplest(pkg, f)[1]>> \o <<x>> : x \in single}
    ELSE IF f.label = "map"
    THEN {<<[name |-> "key", value |-> x]>> : x \in single}
         \cup {Simplest(pkg, f) \o <<[name |-> "other", value |-> x]>> : x \in single}
    ELSE single

(* What the second part of a message may hold in a field: an entry of a map *)
(* has the key of the first part, or another.                               *)
Seconds(pkg, f) ==
    {Simplest(pkg, f)} \cup
    IF f.label = "map" THEN {<<[Simplest(pkg, f)[1] EXCEPT !.name = "other"]>>} ELSE {}

-----------------------------------------------------------------------------
Init ==
    /\ origin \in Files
    /\ class \in MessageTypes(origin)
    /\ message = <<>> /\ second = <<>> /\ wire = <<>> /\ decoded = <<>>
    /\ stage = "building" /\ way = "building"
    /\ reader = origin

(* create(), and the assignments that follow it.  (Bound: only the first    *)
(* field gets every value.)                                                 *)
SetField ==
    /\ stage = "building" /\ Len(message) < MaxFields
    /\ \E f \in FieldsOf(Pkg, class) :
          /\ ~Has(message, f.name)
          /\ \E value \in IF message = <<>> THEN Samples(Pkg, f) ELSE {Simplest(Pkg, f)} :
                message' = SetTo(message, f.name, value)
    /\ UNCHANGED <<origin, class, stage, way, second, wire, reader, decoded>>

Send ==
    /\ stage = "building"
    /\ stage' = "sent"
    /\ wire' = Encode(Pkg, class, message)
    /\ UNCHANGED <<origin, class, message, way, second, reader, decoded>>

(* Another message of the class follows on the wire.  (Bound: it has one    *)
(* field, which is set in the first, or in a oneof with one that is, if the *)
(* first has more than one.)                                                *)
Join ==
    /\ stage = "sent"
    /\ \E f \in FieldsOf(Pkg, class) : \E value \in Seconds(Pkg, f) :
          /\ \/ Len(message) < 2
             \/ \E g \in FieldsOf(Pkg, class) :
                   /\ Has(message, g.name)
                   /\ f = g \/ (f.oneof = g.oneof /\ f.oneof # "")
          /\ second' = <<[name |-> f.name, value |-> value]>>
    /\ stage' = "joined"
    /\ wire' = wire \o Encode(Pkg, class, second')
    /\ UNCHANGED <<origin, class, message, way, reader, decoded>>

(* A peer left out the first field it would have written.  (Bound: of a     *)
(* message of at most one field.)                                           *)
Omit ==
    /\ stage = "sent" /\ wire # <<>> /\ Len(message) < 2
    /\ stage' = "omitted"
    /\ wire' = Tail(wire)
    /\ UNCHANGED <<origin, class, message, way, second, reader, decoded>>

IsCopy(g) ==
    /\ class \in MessageTypes(g)
    /\ Packages[g][class].namespace = Pkg[class].namespace

Receive(g) ==
    /\ stage \in {"sent", "joined", "omitted"} /\ IsCopy(g)
    /\ reader' = g
    /\ way' = stage
    /\ \/ /\ Refused(Packages[g], class, wire)
          /\ stage' = "refused"
          /\ UNCHANGED decoded
       \/ /\ ~Refused(Packages[g], class, wire)
          /\ stage' = "read"
          /\ decoded' = Decode(Packages[g], class, wire)
    /\ UNCHANGED <<origin, class, message, second, wire>>

Next == SetField \/ Send \/ Join \/ Omit \/ \E g \in Files : Receive(g)

Spec == Init /\ [][Next]_vars

-----------------------------------------------------------------------------
(* The name of a field in JavaScript; http.js was generated with the names  *)
(* of the .proto file.                                                      *)
CamelCase(name) ==
    CASE name = "fully_decode_reserved_expansion" -> "fullyDecodeReservedExpansion"
      [] name = "additional_bindings" -> "additionalBindings"
      [] name = "response_body" -> "responseBody"
      [] OTHER -> name

(* What another copy of a class makes of a message, by the names of fields. *)
RECURSIVE Translated(_, _, _, _)
TranslatedValue(from, to, t, value) ==
    IF IsMessage(from, t) THEN Translated(from, to, t, value) ELSE value

TranslatedField(from, to, f, v) ==
    IF IsMany(f) THEN [i \in DOMAIN v |-> TranslatedValue(from, to, f.type, v[i])]
    ELSE IF f.label = "map"
    THEN [i \in DOMAIN v |-> [v[i] EXCEPT !.value = TranslatedValue(from, to, f.type, @)]]
    ELSE TranslatedValue(from, to, f.type, v)

Translated(from, to, t, m) ==
    ConcatFields(from, t, LAMBDA f :
        IF ~Has(m, f.name) /\ f.label # "required" THEN <<>>
        ELSE LET known == {g.name : g \in {h \in FieldsOf(to, t) :
                                             CamelCase(h.name) = CamelCase(f.name)}}
             IN  SetToSeq({[name |-> n, value |-> TranslatedField(from, to, f, Read(m, f))] :
                              n \in known}))

Oneofs(pkg, t) == {f.oneof : f \in FieldsOf(pkg, t)} \ {""}

(* Whichever copy of its class a message is decoded with, the fields both   *)
(* copies have come out with their values and all others are skipped; a     *)
(* verified message keeps the choice of each oneof, on which                *)
(* Operation._unpackResponse decides whether an operation has failed        *)
(* (protos/operations.js:307-317, 340-417; longrunning.ts:210).             *)
CopiesAgree ==
    stage = "read" /\ way = "sent" =>
        /\ decoded = Translated(Pkg, Packages[reader], class, message)
        /\ Verify(Pkg, class, message) =>
              \A o \in Oneofs(Packages[reader], class) :
                  Which(Packages[reader], class, decoded, o) = Which(Pkg, class, message, o)

(* What a field holds when a message comes in two parts.                    *)
Joined(f, first, last) ==
    LET old  == Get(first, f.name)
        new  == Get(last, f.name)
        both == Has(first, f.name) /\ Has(last, f.name)
    IN  CASE ~Has(last, f.name) -> Read(first, f)
          [] both /\ IsMany(f) -> old \o new
          [] both /\ f.label = "map" ->
                [i \in DOMAIN old |-> [old[i] EXCEPT
                    !.value = IF Has(new, old[i].name) THEN Get(new, old[i].name) ELSE @]]
                \o SelectSeq(new, LAMBDA e : ~Has(old, e.name))
          [] Has(last, f.name) /\ ~(both /\ (IsMany(f) \/ f.label = "map")) -> new

(* The second of two joined messages adds to the repeated fields and to the *)
(* maps, and replaces other fields and the map entries of its keys, nested  *)
(* messages as a whole.  Its choice in a oneof is the one that counts, if   *)
(* the first was verified.  A message is refused if and only if a required  *)
(* field was left out                                                       *)
(* (protos/operations.js:380-417, 10320-10343; iam_service.js:9679-9730).   *)
LastPartWins ==
    /\ stage = "read" /\ way = "joined" /\ reader = origin =>
          /\ \A f \in FieldsOf(Pkg, class) :
                Read(decoded, f) = Joined(f, Translated(Pkg, Pkg, class, message),
                                          Translated(Pkg, Pkg, class, second))
          /\ Verify(Pkg, class, message) =>
                \A o \in Oneofs(Pkg, class) :
                    LET chosen == Which(Pkg, class, second, o)
                    IN  Which(Pkg, class, decoded, o) =
                            IF chosen # "" THEN chosen ELSE Which(Pkg, class, message, o)
    /\ stage \in {"read", "refused"} =>
          (stage = "refused" <=> \E f \in FieldsOf(Pkg, class) :
                                    /\ f.label = "required" /\ way = "omitted"
                                    /\ \A g \in FieldsOf(Pkg, class) : f.id =< g.id)

(* How two messages read: a field that is not there has its default.        *)
RECURSIVE Same(_, _, _, _)
SameValue(pkg, t, a, b) == IF IsMessage(pkg, t) THEN Same(pkg, t, a, b) ELSE a = b

Same(pkg, t, a, b) ==
    \A f \in FieldsOf(pkg, t) :
        LET v == Read(a, f)
            w == Read(b, f)
        IN  IF f.default = Null /\ (~Has(a, f.name) \/ ~Has(b, f.name))
            THEN Has(a, f.name) = Has(b, f.name)
            ELSE IF IsMany(f) \/ f.label = "map"
            THEN /\ DOMAIN v = DOMAIN w
                 /\ \A i \in DOMAIN v :
                       IF IsMany(f) THEN SameValue(pkg, f.type, v[i], w[i])
                       ELSE v[i].name = w[i].name /\ SameValue(pkg, f.type, v[i].value, w[i].value)
            ELSE SameValue(pkg, f.type, v, w)

(* toJSON(), no options, and what decodeResponse() of the fallback uses.    *)
Options == [enums : BOOLEAN, defaults : {FALSE}, oneofs : {FALSE}]
           \cup [enums : {TRUE}, defaults : {TRUE}, oneofs : {TRUE}]

(* A verified message is the same, as its fields are read, after toObject   *)
(* and fromObject, with numbers or names for enums, with or without         *)
(* defaults, and the virtual property of a oneof that toObject writes names *)
(* the same choice as the getter (protos/iam_service.js:9828-9971;          *)
(* operations.js:307-317, 478-538).                                         *)
ObjectsKeepMessages ==
    stage = "read" /\ reader = origin /\ Verify(Packages[reader], class, decoded) =>
        \A options \in Options :
            LET pkg    == Packages[reader]
                object == ToObject(pkg, class, decoded, options)
                again  == FromObject(pkg, class, object, options)
            IN  /\ Same(pkg, class, again, decoded)
                /\ Verify(pkg, class, again)
                /\ \A o \in Oneofs(pkg, class) :
                      LET chosen == Which(pkg, class, decoded, o)
                      IN  /\ Which(pkg, class, again, o) = chosen
                          /\ options.oneofs /\ chosen # "" => Get(object, o) = chosen

=============================================================================
