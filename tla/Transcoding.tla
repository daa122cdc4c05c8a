----------------------------- MODULE Transcoding -----------------------------
(***************************************************************************)
(* How the request of a REST call becomes an HTTP request: transcode       *)
(* (src/src/transcoding.ts), which follows the google.api.http options of  *)
(* the method, as used by encodeRequest (src/src/fallbackRest.ts).         *)
(*                                                                         *)
(* A request is a function from field paths to values: <<a, b>> is the     *)
(* field b of the message in field a.  A value is a string, split at its   *)
(* slashes; a number is a value like any other, and lists are left out (in *)
(* a query a list is several parameters, and a field that is the body and  *)
(* a list becomes an object of its indexes).  A field's name is a sequence *)
(* of words, each with how it is joined to the one before: by an           *)
(* underscore, by a capital, or, as a digit may be, by nothing.            *)
(***************************************************************************)
EXTENDS Integers, FiniteSetsExt, SequencesExt

CONSTANTS
    HttpOptions,      \* the method's parsedOptions that are HTTP rules
    HttpRules,        \* the client's rules for the method, which override them
    RequiredFields,   \* its top-level fields annotated as REQUIRED
    OptionalFields,   \* its proto3 optional fields
    Caseless          \* the words of names that have no capital

(* A rule has a path template for some of the methods, and the name of the  *)
(* field that is the body, or *, which is all of them.  A template is a     *)
(* sequence of parts.  Each part is a pattern; that of a variable is bound  *)
(* to a field.                                                              *)
supportedHttpMethods == <<"get", "post", "put", "patch", "delete">>

NoBody == <<>>
WholeBody == <<[join |-> "none", word |-> "*"]>>

Literal(segment) == [field |-> <<>>, pattern |-> <<segment>>]
Variable(field, pattern) == [field |-> field, pattern |-> pattern]

(* What has this value counts as a field that is not set.                   *)
Undefined == <<"undefined">>

(* overrideHttpRules: a rule of the client replaces what an option has too, *)
(* and adds its bindings for every method and the body that the option has. *)
Override(option, own) ==
    LET methods  == DOMAIN option.rule.templates
        bodies   == {option.rule.body, own.rule.body}
        repeated == Cardinality(methods) + (IF option.rule.body = NoBody THEN 0 ELSE 1)
    IN  [rule |-> [templates |-> [m \in methods |-> IF m \in DOMAIN own.rule.templates
                                                   THEN own.rule.templates[m]
                                                   ELSE option.rule.templates[m]],
                   body |-> IF NoBody \in bodies THEN option.rule.body ELSE own.rule.body],
         additional_bindings |->
            option.additional_bindings
                \o FlattenSeq([i \in 1 .. repeated |-> own.additional_bindings])]

(* The rules in the order in which they are tried, a method each.           *)
Bindings ==
    LET options == [i \in DOMAIN HttpOptions |->
                       FoldLeft(Override, HttpOptions[i], HttpRules)]
        rules == FlattenSeq([i \in DOMAIN options |->
                    <<options[i].rule>> \o options[i].additional_bindings])
        ofRule(rule) == LET methods == SelectSeq(supportedHttpMethods,
                                                 LAMBDA m : m \in DOMAIN rule.templates)
                        IN  [k \in DOMAIN methods |->
                                [method |-> methods[k], body |-> rule.body,
                                 template |-> rule.templates[methods[k]]]]
    IN  FlattenSeq([i \in DOMAIN rules |-> ofRule(rules[i])])

-----------------------------------------------------------------------------
FieldNames == Seq([join : {"none", "_", "capital"}, word : STRING])

Joined(part, join) == [part EXCEPT !.join = join]

(* camelToSnakeCase and snakeToCamelCase.  A word without a capital does    *)
(* not come back: line_1 becomes line1, which no conversion splits again.   *)
Snake(name) ==
    [i \in DOMAIN name |->
        IF name[i].join = "capital" THEN Joined(name[i], "_") ELSE name[i]]

Camel(name) ==
    [i \in DOMAIN name |->
        IF name[i].join # "_" THEN name[i]
        ELSE Joined(name[i], IF name[i].word \in Caseless THEN "none" ELSE "capital")]

(* A pattern in which * stands for a segment and ** for segments.  All fits *)
(* * on its own, and nothing.                                               *)
Anything(pattern) == pattern \in {<<>>, <<"*">>}

(* A part of a template with any number of segments.                        *)
IsOpen(part) == part.field # <<>> /\ ~Anything(part.pattern) /\ "**" \in ToSet(part.pattern)

(* What the rules are like: a variable has a field, one variable at most is *)
(* open, and a body is named in snake case.                                 *)
ASSUME RulesAssumption ==
    /\ Bindings \in Seq(ToSet(Bindings))
    /\ \A k \in DOMAIN Bindings :
          LET template == Bindings[k].template IN
          /\ template \in Seq([field : Seq(FieldNames), pattern : Seq(STRING)])
          /\ \A i \in DOMAIN template :
                template[i].field = <<>> => Len(template[i].pattern) = 1
          /\ \A i, j \in DOMAIN template : IsOpen(template[i]) /\ IsOpen(template[j]) => i = j
          /\ Bindings[k].body \in FieldNames
          /\ Snake(Camel(Bindings[k].body)) = Bindings[k].body

(* The optional fields are known by their names in camel case.              *)
ASSUME OptionalFieldsAssumption ==
    \A name \in OptionalFields : name \in FieldNames /\ Camel(name) = name

SnakePath(path) == [i \in DOMAIN path |-> Snake(path[i])]
CamelPath(path) == [i \in DOMAIN path |-> Camel(path[i])]

(* How a path that was changed to snake case comes back.                    *)
Spelled(path) == CamelPath(SnakePath(path))

(* requestChangeCaseAndCleanup, either way.                                 *)
SnakeRequest(request) ==
    [path \in {SnakePath(p) : p \in DOMAIN request} |->
        request[CHOOSE p \in DOMAIN request : SnakePath(p) = path]]

CamelRequest(request) ==
    [path \in {CamelPath(p) : p \in DOMAIN request} |->
        request[CHOOSE p \in DOMAIN request : CamelPath(p) = path]]

-----------------------------------------------------------------------------
(* applyPattern: where in a value the first k of the pattern may end.       *)
Ends(pattern, value) ==
    LET isSome(m, n) == m < n /\ ~(n = m + 1 /\ value[n] = "")
        next(p, from) ==
            IF p = "**" THEN {n \in DOMAIN value : \E m \in from : isSome(m, n)}
            ELSE {n \in DOMAIN value : /\ n - 1 \in from
                                       /\ IF p = "*" THEN value[n] # "" ELSE value[n] = p}
        after[k \in 0 .. Len(pattern)] ==
            IF k = 0 THEN {0} ELSE next(pattern[k], after[k - 1])
    IN  after

Fits(pattern, value) == Len(value) \in Ends(pattern, value)[Len(pattern)]

(* A segment of the URL is a sequence of strings with escaped slashes       *)
(* between them: slashes are escaped for * on its own.                      *)
Encode(pattern, value) ==
    IF Anything(pattern) THEN <<value>> ELSE [k \in DOMAIN value |-> <<value[k]>>]

(* match: every variable of the template is bound to a field that is set,   *)
(* is not a message, and has a value that fits.                             *)
Matches(template, request) ==
    \A k \in DOMAIN template :
        LET part == template[k] IN
        part.field # <<>> =>
            /\ part.field \in DOMAIN request
            /\ Anything(part.pattern) \/ Fits(part.pattern, request[part.field])

MatchedFields(template) == {template[k].field : k \in DOMAIN template} \ {<<>>}

Url(template, request) ==
    FlattenSeq([k \in DOMAIN template |->
        LET part == template[k] IN
        IF part.field = <<>> THEN <<part.pattern>>
        ELSE Encode(part.pattern, request[part.field])])

-----------------------------------------------------------------------------
(* deleteField, for each of the fields.                                     *)
WithoutFields(request, fields) ==
    [path \in {p \in DOMAIN request : ~\E f \in fields : IsPrefix(f, p)} |-> request[path]]

(* The fields that are set, for a set of optional ones.                     *)
DropUnset(request, optional) ==
    [path \in {p \in DOMAIN request : ~(p \in {<<f>> : f \in optional}
                                        /\ request[p] = Undefined)} |-> request[path]]

(* buildQueryStringComponents: a field of a message is named after it and   *)
(* the message, and what the message itself is in is left out.              *)
ParameterName(path) ==
    IF Len(path) = 1 THEN path ELSE SubSeq(path, Len(path) - 1, Len(path))

Parameter(request, path) == [name |-> ParameterName(path), value |-> request[path]]

QueryString(request) == {Parameter(request, path) : path \in DOMAIN request}

(* The value of one field: a message, or under the path <<>> a value.  An   *)
(* optional field that is not set is none, if it has the same name in both  *)
(* cases.                                                                   *)
BodyField(request, body) ==
    LET inside == {p \in DOMAIN DropUnset(request, OptionalFields) : p[1] = body}
    IN  [path \in {Tail(p) : p \in inside} |-> request[<<body>> \o path]]

(* What goes to the body, which is of the request in snake case and turned  *)
(* back into camel case.                                                    *)
Data(request, binding) ==
    LET snake    == SnakeRequest(request)
        matched  == MatchedFields(binding.template)
        optional == {f \in {p[1] : p \in DOMAIN snake} : Camel(f) \in OptionalFields}
    IN  CASE binding.body = WholeBody ->
                CamelRequest(DropUnset(WithoutFields(snake, matched), optional))
          [] binding.body = NoBody -> <<>>
          [] OTHER -> CamelRequest(BodyField(snake, binding.body))

LeftForQueryUnconverted(request, binding) ==   \* mutant: fields keep their snake case
    IF binding.body = WholeBody THEN <<>>
    ELSE LET used == MatchedFields(binding.template)
                        \cup (IF binding.body = NoBody THEN {} ELSE {<<binding.body>>})
         IN  DropUnset(WithoutFields(request, used), OptionalFields)

(* What is left for the query string: the request in camel case, from which *)
(* the fields used are deleted by the camel case of their names.            *)
LeftForQuery(request, binding) ==
    IF binding.body = WholeBody THEN <<>>
    ELSE LET used == MatchedFields(binding.template)
                        \cup (IF binding.body = NoBody THEN {} ELSE {<<binding.body>>})
         IN  DropUnset(WithoutFields(request, {CamelPath(f) : f \in used}), OptionalFields)

(* transcode throws, or finds no rule.                                      *)
Fitting(request) ==
    {k \in DOMAIN Bindings : Matches(Bindings[k].template, SnakeRequest(request))}

CanTranscode(request) ==
    /\ \A f \in RequiredFields :
          \E p \in DOMAIN request : p[1] = f /\ (p = <<f>> => request[p] # Undefined)
    /\ Fitting(request) # {}

BindingFor(request) == Bindings[Min(Fitting(request))]

Transcode(request) ==
    LET binding == BindingFor(request)
    IN  [method      |-> binding.method,
         url         |-> Url(binding.template, SnakeRequest(request)),
         queryString |-> QueryString(LeftForQuery(request, binding)),
         data        |-> Data(request, binding)]

=============================================================================
