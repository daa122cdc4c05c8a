---------------------------- MODULE MCStreamProxy ----------------------------
(* Two objects for the parser of StreamProxy: braces and brackets within    *)
(* strings, escapes, and an object within an object.  And a REST method     *)
(* with a rule of every kind of body: a resource name in the path, alone or *)
(* with an id that may have slashes in it.  The names are those of a        *)
(* project, a project's child, and a team of an organization.               *)
EXTENDS StreamProxy

CONSTANTS m1, m2

MCMessages == <<m1, m2>>

MCObjects == << <<"{", Quote, "}", Backslash, Quote, "]", Quote, "x", "{", "}", "}">>,
                <<"{", Quote, Backslash, Backslash, Quote, "}">> >>

(* What retry-request does by default and when its options are given: no    *)
(* retries; responses retried always or at the user's choice; and a first   *)
(* request that waits.                                                      *)
Options(retries, current, noResponse, should) ==
    [retries |-> retries, currentRetryAttempt |-> current,
     noResponseRetries |-> noResponse, shouldRetryFn |-> should]

MCRetryOptions ==
    { Options(2, NotGiven, 2, {FALSE}), Options(0, 0, 0, {TRUE}),
      Options(2, NotGiven, 1, {TRUE, FALSE}), Options(3, 0, 1, {TRUE}),
      Options(3, 1, 1, {TRUE, FALSE}), Options(2, 1, 0, {FALSE}) }

One(word) == <<[join |-> "none", word |-> word]>>
Two(word, join, next) == Append(One(word), [join |-> join, word |-> next])

MCNameField == <<One("name")>>

Rule(method, template, body) == [templates |-> method :> template, body |-> body]
Name(pattern) == Variable(MCNameField, pattern)

MCHttpOptions ==
    << [rule |-> Rule("get", <<Literal("v1"), Name(<<"projects", "*">>)>>, NoBody),
        additional_bindings |->
          << Rule("post", <<Literal("v0"), Name(<<"orgs", "*">>)>>, WholeBody) >>] >>

MCHttpRules ==
    << [rule |-> Rule("get", <<Literal("v2"), Name(<<"projects", "*">>)>>, WholeBody),
        additional_bindings |->
          << Rule("patch", <<Literal("v1"), Name(<<"**">>), Literal("ids"),
                             Variable(<<Two("item", "_", "id")>>, <<"*">>)>>, One("opts")),
             Rule("patch", <<Literal("v1"), Variable(<<One("opts"), Two("read", "_", "mask")>>, <<>>)>>,
                  One("opts")),
             Rule("put", <<Literal("v1"), Name(<<"projects", "*", "*">>),
                           Variable(<<Two("line", "_", "1")>>, <<"*">>)>>, NoBody) >>] >>

MCRequiredFields == {One("name")}
MCOptionalFields == {Two("item", "capital", "id")}

Given(path, values) == {<<>>} \cup {path :> v : v \in values}

MCSimpleTexts == {"", "p", "a", "x", "projects", "orgs"}
MCCompounds == [s \in {"a~p", "a.p"} |-> IF s = "a~p" THEN <<"a", "~", "p">> ELSE <<"a", ".", "p">>]

MCNameTemplates ==
    { <<Fixed("projects"), Variables(<<BareVar("project")>>, <<>>)>>,
      <<Fixed("projects"), Named("rest", "**")>>,
      <<Unnamed("**"), Fixed("x")>>,
      <<Unnamed("*"), Variables(<<Var("org", "*"), BareVar("team")>>, <<"~">>)>>,
      <<Fixed("orgs"), Variables(<<BareVar("org"), BareVar("org_id")>>, <<".">>)>> }

MCVariableNames == {"project", "rest", "org", "team", "org_id"}
MCNamesWithin == {<<n, n>> : n \in MCVariableNames} \cup {<<"org", "org_id">>}

MCNameValues == {<<"p">>, <<"">>, <<"a">>, <<"p", "x">>, <<"projects", "p">>, <<"a~p">>, <<"orgs">>}

(* Rendered by one of the templates, but for one with an empty segment; the *)
(* separator of one template is not that of another.                        *)
MCNames == {<<"projects", "p">>, <<"projects", "">>, <<"projects", "p", "x">>, <<"orgs", "a~p">>, <<"orgs", "a.p">>}

MCRequests ==
    {name @@ id @@ mask @@ line :
        name \in Given(MCNameField, MCNames),
        id   \in Given(<<Two("item", "capital", "id")>>, {<<"a">>, <<"a", "b">>, Undefined}),
        mask \in Given(<<One("opts"), Two("read", "capital", "mask")>>, {<<"m">>}),
        line \in Given(<<Two("line", "_", "1")>>, {<<"n">>})}

=============================================================================
