---------------------------- MODULE ProtoMessages ----------------------------
(***************************************************************************)
(* What the generated message classes of src/protos/*.js do: encode,       *)
(* decode, verify, fromObject, toObject and the virtual getters of oneofs. *)
(* Each class has these methods written out for its own fields; here they  *)
(* are operators that take the fields from a package, a record of schemas  *)
(* (ProtoSchema) such as that of OperationsProtos.                         *)
(*                                                                         *)
(* A message is the sequence of its own properties, in the order in which  *)
(* they were set.  Scalars of all types are numbers, 0 being the zero of   *)
(* the type; a repeated field is a sequence, and is not there when empty;  *)
(* a map is a sequence of properties.  A property that is null counts as   *)
(* one that is not there, for every method.                                *)
(***************************************************************************)
EXTENDS ProtoSchema, SequencesExt

-----------------------------------------------------------------------------
IsMessage(pkg, type) == type \in DOMAIN pkg /\ pkg[type].kind = "message"
IsEnum(pkg, type) == type \in DOMAIN pkg /\ pkg[type].kind = "enum"
EnumNumbers(pkg, type) == {pkg[type].numbers[n] : n \in DOMAIN pkg[type].numbers}
FieldsOf(pkg, type) == ToSet(pkg[type].fields)

(* part(1) \o ... \o part(n), each evaluated once.                          *)
Concat(part(_), n) ==
    LET upTo[i \in 0 .. n] == IF i = 0 THEN <<>> ELSE upTo[i - 1] \o part(i) IN upTo[n]

ConcatFields(pkg, type, part(_)) ==
    LET fields == pkg[type].fields IN Concat(LAMBDA i : part(fields[i]), Len(fields))

IsMany(f) == f.label \in {"repeated", "packed"}

-----------------------------------------------------------------------------
(* The own properties of a JavaScript object.                               *)

Has(m, name) == \E i \in DOMAIN m : m[i].name = name
Get(m, name) == m[CHOOSE i \in DOMAIN m : m[i].name = name].value
SetTo(m, name, value) ==
    IF Has(m, name)
    THEN [i \in DOMAIN m |-> IF m[i].name = name THEN [m[i] EXCEPT !.value = value] ELSE m[i]]
    ELSE Append(m, [name |-> name, value |-> value])

Read(m, f) == IF Has(m, f.name) THEN Get(m, f.name) ELSE f.default

(* $util.oneOfGetter: of the members that are set, the one set last.        *)
Which(pkg, type, m, oneof) ==
    LET members == {f.name : f \in {g \in FieldsOf(pkg, type) : g.oneof = oneof}}
        set     == {i \in DOMAIN m : m[i].name \in members}
    IN  IF set = {} THEN "" ELSE m[CHOOSE i \in set : \A j \in set : j =< i].name

-----------------------------------------------------------------------------
(* The wire: a sequence of entries, each with the number of its field and a *)
(* body, which is a scalar, or the wire of a message, or, if packed, a      *)
(* sequence of scalars.                                                     *)

Entry(f, body) == [id |-> f.id, packed |-> FALSE, body |-> body]

RECURSIVE Encode(_, _, _)
Body(pkg, type, value) == IF IsMessage(pkg, type) THEN Encode(pkg, type, value) ELSE value

Entries(pkg, f, m) ==
    LET value == Get(m, f.name) IN
    CASE f.label = "required" -> <<Entry(f, Read(m, f))>>
      [] f.label # "required" /\ ~Has(m, f.name) -> <<>>
      [] f.label = "one" /\ Has(m, f.name) -> <<Entry(f, Body(pkg, f.type, value))>>
      [] f.label = "repeated" /\ Has(m, f.name) ->
            [i \in DOMAIN value |-> Entry(f, Body(pkg, f.type, value[i]))]
      [] f.label = "packed" /\ Has(m, f.name) -> <<[Entry(f, value) EXCEPT !.packed = TRUE]>>
      [] f.label = "map" /\ Has(m, f.name) ->
            [i \in DOMAIN value |->
                Entry(f, <<[id |-> 1, packed |-> FALSE, body |-> value[i].name],
                           [id |-> 2, packed |-> FALSE, body |-> Body(pkg, f.type, value[i].value)]>>)]

(* Fields are written in the order of their numbers, as in the schema.      *)
Encode(pkg, type, m) ==
    ConcatFields(pkg, type, LAMBDA f : Entries(pkg, f, m))

(* A class reads an entry by the number of its field and skips those it     *)
(* does not know.  A scalar or message replaces what was there; repeated    *)
(* fields, packed or not, and maps grow.                                    *)
RECURSIVE Decode(_, _, _)
Value(pkg, type, body) == IF IsMessage(pkg, type) THEN Decode(pkg, type, body) ELSE body

ElementsOne(pkg, f, e) ==   \* mutant: an if for the while
    IF e.packed THEN <<e.body[1]>> ELSE <<Value(pkg, f.type, e.body)>>

Elements(pkg, f, e) == IF e.packed THEN e.body ELSE <<Value(pkg, f.type, e.body)>>

OldNone(m, f) == <<>>   \* mutant: repeated fields start anew

Old(m, f) == IF Has(m, f.name) THEN Get(m, f.name) ELSE <<>>

ReadEntry(pkg, type, m, e) ==
    LET known == {f \in FieldsOf(pkg, type) : f.id = e.id}
        f     == CHOOSE g \in known : TRUE
    IN  CASE known = {} -> m
          [] known # {} /\ IsMany(f) -> SetTo(m, f.name, Old(m, f) \o Elements(pkg, f, e))
          [] known # {} /\ f.label = "map" ->
                SetTo(m, f.name,
                      SetTo(Old(m, f), e.body[1].body, Value(pkg, f.type, e.body[2].body)))
          [] known # {} /\ f.label \in {"one", "required"} ->
                SetTo(m, f.name, Value(pkg, f.type, e.body))

Decode(pkg, type, entries) ==
    LET upTo[i \in 0 .. Len(entries)] ==
            IF i = 0 THEN <<>> ELSE ReadEntry(pkg, type, upTo[i - 1], entries[i])
    IN  upTo[Len(entries)]

(* decode() throws a ProtocolError if a required field has not come, in the *)
(* message or in one nested in it.                                          *)
RECURSIVE Refused(_, _, _)
Refused(pkg, type, entries) ==
    \E f \in FieldsOf(pkg, type) :
        LET of == {i \in DOMAIN entries : entries[i].id = f.id} IN
        \/ f.label = "required" /\ of = {}
        \/ /\ IsMessage(pkg, f.type) /\ f.label # "map"
           /\ \E i \in of : Refused(pkg, f.type, entries[i].body)

-----------------------------------------------------------------------------
(* verify(): null, here TRUE, or the reason why it is not a message.  For   *)
(* the values at hand these are numbers that are none of an enum's, and two *)
(* members of one oneof.                                                    *)
RECURSIVE Verify(_, _, _)
VerifyValue(pkg, type, value) ==
    CASE IsMessage(pkg, type) -> Verify(pkg, type, value)
      [] IsEnum(pkg, type) -> value \in EnumNumbers(pkg, type)
      [] ~IsMessage(pkg, type) /\ ~IsEnum(pkg, type) -> TRUE

Verify(pkg, type, m) ==
    LET set == {f \in FieldsOf(pkg, type) : Has(m, f.name)} IN
    /\ \A f \in set :
          LET value == Get(m, f.name) IN
          CASE f.label \in {"one", "required"} -> VerifyValue(pkg, f.type, value)
            [] IsMany(f) -> \A i \in DOMAIN value : VerifyValue(pkg, f.type, value[i])
            [] f.label = "map" -> \A i \in DOMAIN value : VerifyValue(pkg, f.type, value[i].value)
    /\ \A f, g \in set : f.oneof = g.oneof /\ f.oneof # "" => f = g

-----------------------------------------------------------------------------
(* toObject() and toJSON(): plain objects, here sequences of properties     *)
(* again.  options.enums turns numbers into names, and one the enum does    *)
(* not have into undefined; options.defaults adds the fields that are not   *)
(* set and belong to no oneof; options.oneofs adds the virtual properties.  *)

Undefined == "undefined"

RECURSIVE ToObject(_, _, _, _)
ObjectValue(pkg, type, value, options) ==
    CASE IsMessage(pkg, type) -> ToObject(pkg, type, value, options)
      [] IsEnum(pkg, type) /\ options.enums ->
            LET numbers == pkg[type].numbers
                names   == {n \in DOMAIN numbers : numbers[n] = value}
            IN  IF names = {} THEN [name |-> Undefined] ELSE [name |-> CHOOSE n \in names : TRUE]
      [] ~IsMessage(pkg, type) /\ ~(IsEnum(pkg, type) /\ options.enums) -> value

Property(pkg, f, m, options) ==
    LET value == Get(m, f.name)
        set(v) == <<[name |-> f.name, value |-> v]>>
    IN  CASE Has(m, f.name) /\ f.label \in {"one", "required"} ->
               set(ObjectValue(pkg, f.type, value, options))
               \o IF options.oneofs /\ f.oneof # ""
                  THEN <<[name |-> f.oneof, value |-> f.name]>> ELSE <<>>
          [] Has(m, f.name) /\ IsMany(f) ->
               set([i \in DOMAIN value |-> ObjectValue(pkg, f.type, value[i], options)])
          [] Has(m, f.name) /\ f.label = "map" ->
               set([i \in DOMAIN value |->
                      [value[i] EXCEPT !.value = ObjectValue(pkg, f.type, @, options)]])
          [] ~Has(m, f.name) /\ options.defaults /\ f.oneof = "" /\ f.default # Null ->
               set(ObjectValue(pkg, f.type, f.default, options))
          [] ~Has(m, f.name) /\ ~(options.defaults /\ f.oneof = "" /\ f.default # Null) -> <<>>

(* With several members of a oneof the virtual property is written several  *)
(* times, and the last one stays.                                           *)
ToObject(pkg, type, m, options) ==
    LET written == ConcatFields(pkg, type, LAMBDA f : Property(pkg, f, m, options))
        upTo[i \in 0 .. Len(written)] ==
            IF i = 0 THEN <<>> ELSE SetTo(upTo[i - 1], written[i].name, written[i].value)
    IN  upTo[Len(written)]

-----------------------------------------------------------------------------
(* fromObject(): enums by name or number.  One that is neither leaves a     *)
(* single field unset, and becomes 0 in an array.                           *)
KnownEnumByName(pkg, type, value, options) ==   \* mutant: no case for numbers
    options.enums /\ value.name # Undefined

KnownEnum(pkg, type, value, options) ==
    IF options.enums THEN value.name # Undefined ELSE value \in EnumNumbers(pkg, type)

RECURSIVE FromObject(_, _, _, _)
MessageValue(pkg, type, value, options) ==
    CASE IsMessage(pkg, type) -> FromObject(pkg, type, value, options)
      [] IsEnum(pkg, type) /\ ~KnownEnum(pkg, type, value, options) -> 0
      [] IsEnum(pkg, type) /\ KnownEnum(pkg, type, value, options) ->
            IF options.enums THEN pkg[type].numbers[value.name] ELSE value
      [] ~IsMessage(pkg, type) /\ ~IsEnum(pkg, type) -> value

FromProperty(pkg, f, o, options) ==
    LET value == Get(o, f.name)
        set(v) == <<[name |-> f.name, value |-> v]>>
    IN  CASE ~Has(o, f.name) -> <<>>
          [] Has(o, f.name) /\ f.label \in {"one", "required"} ->
               IF IsEnum(pkg, f.type) /\ ~KnownEnum(pkg, f.type, value, options) THEN <<>>
               ELSE set(MessageValue(pkg, f.type, value, options))
          [] Has(o, f.name) /\ IsMany(f) ->
               set([i \in DOMAIN value |-> MessageValue(pkg, f.type, value[i], options)])
          [] Has(o, f.name) /\ f.label = "map" ->
               set([i \in DOMAIN value |->
                      [value[i] EXCEPT !.value = MessageValue(pkg, f.type, @, options)]])

FromObject(pkg, type, o, options) ==
    ConcatFields(pkg, type, LAMBDA f : FromProperty(pkg, f, o, options))

=============================================================================
