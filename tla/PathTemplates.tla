---------------------------- MODULE PathTemplates ----------------------------
(***************************************************************************)
(* Resource names: PathTemplate (src/src/pathTemplate.ts), with which      *)
(* clients render the names they put into requests and read those they     *)
(* get.                                                                    *)
(*                                                                         *)
(* A name is a sequence of segments, the strings between its slashes, and  *)
(* so is the value of a variable.  A template is a sequence of segments    *)
(* too, each with a literal text or with variables, which have separators  *)
(* between them if there are several.                                      *)
(***************************************************************************)
EXTENDS Integers, FiniteSets, SequencesExt, TLC

CONSTANTS
    SimpleTexts,    \* the texts without separators, and without / $ { } and *
    Compounds,      \* the segments with separators in them, and what they are made of
    VariableNames,  \* of letters, digits and _ (match() recognizes no others)
    NamesWithin     \* the pairs of these of which the first occurs within the second

(* Where match() splits a segment.                                          *)
Separators == {"-", "_", ".", "~"}

(* A segment is known by what it is made of: values, with separators at the *)
(* even places.                                                             *)
ASSUME CompoundsAssumption ==
    /\ SimpleTexts \subseteq STRING \ {"other"}
    /\ VariableNames \subseteq STRING \ Separators
    /\ DOMAIN Compounds \subseteq STRING \ {"", "other"}
    /\ DOMAIN Compounds \cap SimpleTexts = {}
    /\ \A s \in DOMAIN Compounds :
          /\ Compounds[s] \in Seq(STRING) /\ Len(Compounds[s]) % 2 = 1
          /\ \A i \in DOMAIN Compounds[s] :
                Compounds[s][i] \in IF i % 2 = 1 THEN SimpleTexts ELSE Separators
    /\ \A s, t \in DOMAIN Compounds : Compounds[s] = Compounds[t] => s = t

(* The texts that String.replace() puts in as they are.                     *)
Plain == SimpleTexts \cup DOMAIN Compounds

Fixed(text) == [text |-> text, variables |-> <<>>, separators |-> <<>>]
Variables(variables, separators) ==
    [text |-> "", variables |-> variables, separators |-> separators]

(* {name=*} and {name=**}; and {name}, which stands for {name=*}.           *)
Var(name, pattern) == [name |-> name, pattern |-> pattern, bare |-> FALSE]
BareVar(name) == [name |-> name, pattern |-> "*", bare |-> TRUE]

(* A variable that stands alone, and * or ** without a name.                *)
Named(name, pattern) == Variables(<<Var(name, pattern)>>, <<>>)
Unnamed(pattern) == Named("", pattern)

(* parsePathTemplate: the unnamed are numbered, and more than one ** is an  *)
(* error.  A bare variable gets its =* at the first place in the segment    *)
(* where its name occurs: in its own place, if RewrittenInPlace.            *)
VariablesOf(template) == UNION {ToSet(template[k].variables) : k \in DOMAIN template}

Parsed(template) ==
    LET unnamed(k) == template[k].variables # <<>> /\ template[k].variables[1].name = ""
        number(k)  == Cardinality({j \in 1 .. k - 1 : unnamed(j)})
    IN  [k \in DOMAIN template |->
            IF unnamed(k)
            THEN Named("$" \o ToString(number(k)), template[k].variables[1].pattern)
            ELSE template[k]]

IsWild(segment) == segment.variables # <<>> /\ segment.variables[1].pattern = "**"
Wildcards(template) == Cardinality({k \in DOMAIN template : IsWild(template[k])})
CanParse(template) == Wildcards(template) =< 1

RewrittenInPlace(segment) ==
    \A i \in DOMAIN segment.variables : segment.variables[i].bare =>
        \A j \in 1 .. i - 1 : <<segment.variables[i].name, segment.variables[j].name>> \notin NamesWithin

IsRecognized(segment) ==
    /\ segment.variables = <<>> => segment.text \in Plain \ {""}
    /\ \A v \in ToSet(segment.variables) :
          \/ v.name \in VariableNames
          \/ v = Var("", v.pattern) /\ Len(segment.variables) = 1

(* A template in which no two variables have one name, and which the code   *)
(* reads as it is meant: the variables have names that match() recognizes,  *)
(* bare ones are rewritten in their own place, and between those of a       *)
(* segment is one of the characters at which it is split.  Those of a       *)
(* segment that has several are *.                                          *)
IsSegment(segment) ==
    /\ segment.text \in STRING
    /\ segment.variables \in Seq(ToSet(segment.variables))
    /\ segment.separators \in Seq(STRING)
    /\ \A v \in ToSet(segment.variables) : v.pattern \in {"*", "**"}
    /\ Len(segment.variables) > 1 =>
          /\ Len(segment.separators) = Len(segment.variables) - 1
          /\ \A v \in ToSet(segment.variables) : v.pattern = "*"
          /\ ToSet(segment.separators) \subseteq Separators

IsTemplate(template) ==
    LET nameAt(k, i) == Parsed(template)[k].variables[i].name IN
    /\ template \in Seq(ToSet(template))
    /\ \A k \in DOMAIN template : IsSegment(template[k]) /\ IsSegment(Parsed(template)[k])
    /\ \A k \in DOMAIN template : RewrittenInPlace(template[k]) /\ IsRecognized(template[k])
    /\ \A k, l \in DOMAIN template : \A i \in DOMAIN Parsed(template)[k].variables :
          \A j \in DOMAIN Parsed(template)[l].variables :
             nameAt(k, i) = nameAt(l, j) => k = l /\ i = j

-----------------------------------------------------------------------------
(* What a segment splits into, at its separators, which are kept at the     *)
(* even places.                                                             *)
PartsOf(segment) == IF segment \in DOMAIN Compounds THEN Compounds[segment] ELSE <<segment>>

HasGaps(name) == \E k \in DOMAIN name : "" \in ToSet(PartsOf(name[k]))

(* (What is none of the compounds at hand is "other", a segment of no name.) *)
JoinSegment(parts) ==
    LET compounds == {s \in DOMAIN Compounds : Compounds[s] = parts}
    IN  IF compounds = {} THEN "other" ELSE CHOOSE s \in compounds : TRUE

Separated(values, separators) ==
    [i \in 1 .. Len(values) + Len(separators) |->
        IF i % 2 = 1 THEN values[(i + 1) \div 2] ELSE separators[i \div 2]]

(* match(): the loop over the segments, which stops early when the name is  *)
(* used up.  ** takes two segments, even where there is only one.           *)
TakeOne(left) == [value |-> SubSeq(left, 1, Min({2, Len(left)})), left |-> Tail(left)]   \* mutant

TakeTwo(left) ==
    [value |-> IF Len(left) > 1 THEN SubSeq(left, 1, 2) ELSE <<left[1], "undefined">>,
     left  |-> SubSeq(left, 3, Len(left))]

Bind(bindings, added) ==
    [n \in DOMAIN bindings \cup DOMAIN added |->
        IF n \in DOMAIN added THEN added[n] ELSE bindings[n]]

(* The variables of a segment and what they take from what is left.         *)
Taken(segment, left) ==
    LET parts == PartsOf(left[1])
        count == Len(segment.variables)
        place(n) == CHOOSE j \in 1 .. count : segment.variables[j].name = n
    IN  [n \in {segment.variables[i].name : i \in 1 .. count} |->
            CASE IsWild(segment) -> TakeTwo(left).value
              [] count = 1 /\ ~IsWild(segment) -> <<left[1]>>
              [] count > 1 /\ ~IsWild(segment) ->
                   IF 2 * place(n) - 1 =< Len(parts) THEN <<parts[2 * place(n) - 1]>> ELSE <<>>]

Agrees(segment, first) ==
    LET parts == PartsOf(first)
        count == Len(segment.variables)
    IN  /\ count = 0 => segment.text = first
        /\ count > 1 => /\ Len(parts) = 2 * count - 1
                        /\ \A i \in DOMAIN segment.separators :
                              parts[2 * i] = segment.separators[i]

MatchSegment(state, segment) ==
    IF ~state.ok \/ state.left = <<>> THEN state
    ELSE [ok       |-> Agrees(segment, state.left[1]),
          left     |-> IF IsWild(segment) THEN TakeTwo(state.left).left ELSE Tail(state.left),
          bindings |-> Bind(state.bindings, Taken(segment, state.left))]

(* The state after each segment; its bindings count only if it is ok.       *)
Matching(template, name) ==
    LET start == [ok |-> \/ Len(name) = Len(template)
                         \/ Wildcards(template) > 0 /\ Len(name) = Len(template) + 1,
                  left |-> name, bindings |-> <<>>]
        after[k \in 0 .. Len(template)] ==
            IF k = 0 THEN start ELSE MatchSegment(after[k - 1], Parsed(template)[k])
    IN  after

Match(template, name) == Matching(template, name)[Len(template)]

-----------------------------------------------------------------------------
(* render(), of plain values: all the variables, and no others, get values, *)
(* for ** more than nothing and for * more than slashes.  (A value for *    *)
(* may have slashes: the test is not anchored.)                             *)
Keys(template) == {v.name : v \in VariablesOf(Parsed(template))}

CanRender(template, bindings) ==
    /\ DOMAIN bindings = Keys(template)
    /\ \A v \in VariablesOf(Parsed(template)) :
          LET value == bindings[v.name] IN
          IF v.pattern = "**" THEN value \notin {<<>>, <<"">>}
          ELSE \E i \in DOMAIN value : value[i] # ""

RenderSegment(segment, bindings) ==
    LET values == [i \in DOMAIN segment.variables |-> bindings[segment.variables[i].name]]
    IN  CASE segment.variables = <<>> -> <<segment.text>>
          [] Len(values) = 1 -> values[1]
          [] Len(values) > 1 ->
               <<JoinSegment(Separated([i \in DOMAIN values |-> values[i][1]],
                                        segment.separators))>>

Render(template, bindings) ==
    LET segments == Parsed(template)
    IN  FlattenSeq([k \in DOMAIN segments |-> RenderSegment(segments[k], bindings)])

(* Values that a name can keep apart, plain ones: one segment for *,        *)
(* without separators where the segment has others, and two for **.  (In    *)
(* a value that is not plain, render() would expand a $& and so replace     *)
(* {other=*}.)                                                              *)
Separable(template, bindings) ==
    \A k \in DOMAIN template :
        LET segment == Parsed(template)[k] IN
        \A v \in ToSet(segment.variables) :
            LET value == bindings[v.name] IN
            /\ Len(value) = IF v.pattern = "**" THEN 2 ELSE 1
            /\ ToSet(value) \subseteq Plain
            /\ Len(segment.variables) > 1 => value[1] \in SimpleTexts

=============================================================================
