--------------------------- MODULE MCCallSettings ---------------------------
(* Small instances of CallSettings: a method that is retried, one whose     *)
(* codes have no parameters, one whose codes the user overrides, one whose  *)
(* retries the user disables, and one that only a call's own codes retry.   *)
EXTENDS CallSettings, TLC

CONSTANTS get, list, run, drop, put,                        \* methods
          plain, short, capped, private, bare, strict, some, none,
          eager, limited                                    \* calls

MCParams == [rpc |-> 3, maxRpc |-> 4, total |-> 6, maxRetries |-> Unset]

Named(codes, params, t) == [codesName |-> codes, paramsName |-> params, timeout |-> t]

MCClientConfig ==
    [retry_codes |-> [idempotent |-> {"UNAVAILABLE"}, non_idempotent |-> {}],
     retry_params |-> [default |-> MCParams],
     methods |-> (get :> Named("idempotent", "default", 3)
               @@ list :> Named("idempotent", Null, 2)
               @@ run :> Named("non_idempotent", "default", Unset)
               @@ drop :> Named("idempotent", "default", 3)
               @@ put :> Named("non_idempotent", "default", 2))]

MCConfigOverrides ==
    [retry_codes |-> [eager |-> {"ABORTED"}], retry_params |-> Null,
     methods |-> (run :> Named("eager", "default", 4) @@ drop :> Null)]

MCBaseHeaders ==
    [h \in Headers |-> [list |-> h = "tags", values |-> <<"client">>]]

NoOptions == [given |-> FALSE, timeout |-> Unset, maxRetries |-> Unset,
              retryGiven |-> FALSE, retry |-> Null, headers |-> <<>>]

Given == [NoOptions EXCEPT !.given = TRUE]

Tagged(list_) == [h \in Headers |-> [list |-> list_, values |-> <<"call">>]]

MCMethodOf ==
    [c \in Calls |->
        CASE c \in {plain, short, capped, private} -> get
          [] c \in {bare, strict} -> list
          [] c = some -> run
          [] c = none -> drop
          [] c \in {eager, limited} -> put]

MCOptionsOf ==
    [c \in Calls |->
        CASE c \in {plain, bare} -> NoOptions
          [] c \in {short, strict} -> [Given EXCEPT !.timeout = 1, !.headers = Tagged(TRUE)]
          [] c = eager -> [Given EXCEPT !.retryGiven = TRUE,
                              !.retry = [codes |-> {"ABORTED"}, backoff |-> Null]]
          [] c \in {capped, none, limited} -> [Given EXCEPT !.maxRetries = 2]
          [] c = private -> [Given EXCEPT !.timeout = 5, !.maxRetries = 4, !.retryGiven = TRUE,
                                !.retry = [codes |-> Null,
                                           backoff |-> [rpc |-> Unset, maxRpc |-> 6, total |-> 7,
                                                        maxRetries |-> Unset]]]
          [] c = some -> [Given EXCEPT !.headers = Tagged(FALSE)]]

=============================================================================
