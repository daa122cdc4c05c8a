---------------------------- MODULE CallSettings ----------------------------
(***************************************************************************)
(* How settings reach the calls of a client: constructSettings builds the  *)
(* defaults of each method from the client's configuration and the user's  *)
(* overrides; merge() is run when a call is made; createApiCall wraps the  *)
(* stub in a later turn, and retryable() or addTimeoutArg, invoked in yet  *)
(* another one, read the merged settings and build the headers             *)
(* (src/src/gax.ts, createApiCall.ts, normalCalls/, grpc.ts, fallback.ts). *)
(*                                                                         *)
(* merge() returns a new CallSettings, but the backoffSettings object in   *)
(* it is that of the method's defaults unless the call brings its own.     *)
(***************************************************************************)
EXTENDS Integers, Sequences, FiniteSets, Functions

CONSTANTS
    Null,             \* `null` or `undefined`
    Codes,            \* the error codes that may be retried
    Methods,          \* the methods of the API
    ClientConfig,     \* the configuration of the service, see Config
    ConfigOverrides,  \* the user's overrides of it
    BaseTimeout,      \* the 30 seconds of a CallSettings without a timeout
    Headers,          \* the names of headers
    BaseHeaders,      \* the headers of the client
    Transports,       \* "grpc", or "fallback", which build headers differently
    Calls,            \* the calls made
    MethodOf,         \* the method of each call
    OptionsOf,        \* the CallOptions of each call
    MaxCalls          \* bound: so many of them are made in a behaviour

Unset == -1           \* `undefined`, for a number

(* The initial and the maximal rpc timeout, the total timeout, and          *)
(* maxRetries of a backoffSettings object.                                  *)
Backoff == [rpc : Nat \cup {Unset}, maxRpc : Nat \cup {Unset},
            total : Nat \cup {Unset}, maxRetries : Nat \cup {Unset}]

(* The codes and the backoff settings of retries, each of which may be Null. *)
RetryOptions == [codes : (SUBSET Codes) \cup {Null}, backoff : Backoff \cup {Null}]

(* retry_codes and retry_params map names to codes and to backoff settings; *)
(* the configuration of a method names one of each, or none, of parameters  *)
(* that exist.                                                              *)
IsConfig(config) ==
    /\ DOMAIN config = {"retry_codes", "retry_params", "methods"}
    /\ \A m \in DOMAIN config.methods :
          LET method == config.methods[m]
          IN  method # Null =>
                /\ DOMAIN method = {"codesName", "paramsName", "timeout"}
                /\ method.timeout \in Nat \cup {Unset}
                /\ config.retry_codes # Null /\ method.codesName # Null
                      /\ method.codesName \in DOMAIN config.retry_codes =>
                         config.retry_codes[method.codesName] \subseteq Codes
                /\ config.retry_params # Null /\ method.paramsName # Null =>
                      config.retry_params[method.paramsName] \in Backoff

(* CallOptions, with a timeout that is not 0.                               *)
IsOptions(o) ==
    /\ o.given \in BOOLEAN /\ o.retryGiven \in BOOLEAN
    /\ o.timeout \in (Nat \ {0}) \cup {Unset}
    /\ o.maxRetries \in Nat \cup {Unset}
    /\ o.retry \in RetryOptions \cup {Null}

ASSUME ConfigAssumption ==
    /\ IsConfig(ClientConfig) /\ IsConfig(ConfigOverrides)
    /\ DOMAIN ClientConfig.methods = Methods
    /\ \A m \in Methods : ClientConfig.methods[m] # Null
    /\ BaseTimeout \in Nat \ {0}
ASSUME NullAssumption == Null \notin Backoff /\ Null \notin RetryOptions
ASSUME CallsAssumption ==
    /\ MethodOf \in [Calls -> Methods]
    /\ \A c \in Calls : IsOptions(OptionsOf[c])
    /\ Transports \subseteq {"grpc", "fallback"}

-----------------------------------------------------------------------------
(* The defaults of a method: [timeout, retry], where retry is Null or       *)
(* [codes, backoff], each of which may be Null.                             *)

ConstructRetry(methodConfig, codes, params) ==
    IF methodConfig = Null THEN Null
    ELSE [codes |-> IF codes = Null \/ methodConfig.codesName = Null THEN Null
                    ELSE IF methodConfig.codesName \in DOMAIN codes
                         THEN codes[methodConfig.codesName] ELSE {},
          backoff |-> IF params = Null \/ methodConfig.paramsName = Null THEN Null
                      ELSE params[methodConfig.paramsName]]

EitherSwapped(a, b) == IF b # Null THEN b ELSE a   \* mutant

Either(a, b) == IF a # Null THEN a ELSE b

(* Overrides replace codes and backoff settings separately; a null override *)
(* disables retries.                                                        *)
MergeRetryOptions(retry, overrides) ==
    IF overrides = Null THEN Null
    ELSE [codes |-> Either(overrides.codes, retry.codes),
          backoff |-> Either(overrides.backoff, retry.backoff)]

NoRetry == [codes |-> Null, backoff |-> Null]

Overridden(m) == m \in DOMAIN ConfigOverrides.methods

ConfiguredTimeout(m) ==
    LET base == ClientConfig.methods[m].timeout
    IN  IF Overridden(m) /\ ConfigOverrides.methods[m] # Null
           /\ ConfigOverrides.methods[m].timeout # Unset
        THEN ConfigOverrides.methods[m].timeout
        ELSE base

ConstructSettings(m) ==
    LET base == ConstructRetry(ClientConfig.methods[m], ClientConfig.retry_codes,
                               ClientConfig.retry_params)
        over == ConstructRetry(ConfigOverrides.methods[m], ConfigOverrides.retry_codes,
                               ConfigOverrides.retry_params)
        t    == ConfiguredTimeout(m)
    IN  [timeout |-> IF t \in {Unset, 0} THEN BaseTimeout ELSE t,
         retry |-> IF Overridden(m) THEN MergeRetryOptions(base, over) ELSE base]

Defaults == [m \in Methods |-> ConstructSettings(m)]   \* createApiCall gets them

DefaultTimeout(m) == Defaults[m].timeout
DefaultRetry(m) == Defaults[m].retry
DefaultCodes(m) == IF DefaultRetry(m) = Null THEN Null ELSE DefaultRetry(m).codes
DefaultBackoff(m) == IF DefaultRetry(m) = Null THEN Null ELSE DefaultRetry(m).backoff

-----------------------------------------------------------------------------
VARIABLES
    transport,   \* which client builds the headers, chosen once
    shared,      \* the backoffSettings of each method's defaults
    own,         \* the backoffSettings a call brought
    headers,     \* the client's headers, as its metadata builder keeps them
    stage,       \* how far each call is
    timeout,     \* thisSettings.timeout
    used,        \* what the retry loop of each call works with
    sent,        \* the headers of each call's attempt
    undisturbed  \* history: no other call was made between merge and use

vars == <<transport, shared, own, headers, stage, timeout, used, sent, undisturbed>>

(* A call "thrown" failed in merge(), before there was a promise; one       *)
(* "failed" is told so by its callback; one "single" is not retried.        *)
Stages == {"new", "thrown", "merged", "failed", "wrapped", "single", "invoked", "retried"}

NoBackoff == [rpc |-> Unset, maxRpc |-> Unset, total |-> Unset, maxRetries |-> Unset]

Init ==
    /\ transport \in Transports
    /\ shared = [m \in Methods |-> DefaultBackoff(m)]
    /\ own = [c \in Calls |-> IF OptionsOf[c].retry = Null THEN Null
                              ELSE OptionsOf[c].retry.backoff]
    /\ headers = [h \in Headers |-> BaseHeaders[h].values]
    /\ stage = [c \in Calls |-> "new"]
    /\ timeout = [c \in Calls |-> DefaultTimeout(MethodOf[c])]
    /\ used = [c \in Calls |-> NoBackoff]
    /\ sent = [c \in Calls |-> headers]
    /\ undisturbed = [c \in Calls |-> TRUE]

-----------------------------------------------------------------------------
CallTimeoutAsGiven(c) == OptionsOf[c].timeout   \* mutant: no default

(* The method's timeout, or that of the options.                            *)
CallTimeout(c) ==
    IF OptionsOf[c].timeout # Unset THEN OptionsOf[c].timeout
    ELSE DefaultTimeout(MethodOf[c])

Retries(codes) == codes # Null /\ codes # {}

TimedRpcOnly(c, b) == [b EXCEPT !.rpc = CallTimeout(c), !.maxRpc = CallTimeout(c)]   \* mutant

(* merge() writes the timeout into the defaults' backoffSettings, whatever  *)
(* the options say about retries.                                           *)
Timed(c, b) ==
    [b EXCEPT !.rpc = CallTimeout(c), !.maxRpc = CallTimeout(c), !.total = CallTimeout(c)]

(* maxRetries goes to the object the call will use, and replaces its total. *)
WithMaxRetries(c, b) ==
    IF OptionsOf[c].maxRetries = Unset THEN b
    ELSE [b EXCEPT !.maxRetries = OptionsOf[c].maxRetries, !.total = Unset]

(* options.retry is `given`, as null or as an object.                       *)
MergedRetry(c) ==
    LET o == OptionsOf[c]
        default == DefaultRetry(MethodOf[c])
    IN  IF ~o.given \/ ~o.retryGiven THEN default
        ELSE MergeRetryOptions(Either(default, NoRetry), o.retry)

CodesOf(c) == IF MergedRetry(c) = Null THEN Null ELSE MergedRetry(c).codes

(* Which object the backoffSettings of the call are.                        *)
Source(c) ==
    LET o == OptionsOf[c]
    IN  IF MergedRetry(c) = Null \/ MergedRetry(c).backoff = Null THEN "none"
        ELSE IF o.given /\ o.retryGiven /\ o.retry.backoff # Null THEN "own" ELSE "shared"

SourceShared(c) ==   \* mutant: the call's own backoffSettings are not used
    IF MergedRetry(c) = Null \/ MergedRetry(c).backoff = Null THEN "none" ELSE "shared"

Current(c) == IF Source(c) = "own" THEN own[c] ELSE shared[MethodOf[c]]

(* The first write of the method's timeout, and the check of the codes that *)
(* comes before the second, fail if the configuration names only one of     *)
(* codes and parameters; the write of maxRetries if there is no object.     *)
WritesTimeout(c) == Retries(DefaultCodes(MethodOf[c])) /\ shared[MethodOf[c]] # Null

Throws(c) ==
    LET o == OptionsOf[c]
        m == MethodOf[c]
    IN  \/ Retries(DefaultCodes(m)) /\ shared[m] = Null
        \/ o.timeout # Unset /\ DefaultRetry(m) # Null /\ DefaultCodes(m) = Null
        \/ o.maxRetries # Unset /\ Source(c) = "none"

(* merge(): what was written before it throws stays.                        *)
Merge(c) ==
    LET o == OptionsOf[c]
        m == MethodOf[c]
        b == IF WritesTimeout(c) THEN Timed(c, shared[m]) ELSE shared[m]
    IN
    /\ stage[c] = "new"
    /\ Cardinality({d \in Calls : stage[d] # "new"}) < MaxCalls
    /\ \/ /\ ~o.given
          /\ stage' = [stage EXCEPT ![c] = "merged"]
          /\ UNCHANGED <<shared, own, timeout>>
       \/ /\ o.given /\ Throws(c)
          /\ stage' = [stage EXCEPT ![c] = "thrown"]
          /\ shared' = [shared EXCEPT ![m] = b]
          /\ UNCHANGED <<own, timeout>>
       \/ /\ o.given /\ ~Throws(c)
          /\ stage' = [stage EXCEPT ![c] = "merged"]
          /\ timeout' = [timeout EXCEPT ![c] = CallTimeout(c)]
          /\ shared' = [shared EXCEPT ![m] =
                            IF Source(c) = "shared" THEN WithMaxRetries(c, b) ELSE b]
          /\ own' = [own EXCEPT ![c] = IF Source(c) = "own" THEN WithMaxRetries(c, @) ELSE @]
    /\ undisturbed' = [d \in Calls |->
                         undisturbed[d] /\ ~(/\ d # c /\ MethodOf[d] = m
                                             /\ stage[d] \in {"merged", "wrapped"})]
    /\ UNCHANGED <<transport, headers, used, sent>>

(* The stub is ready.  If the call is retried, createApiCall fills in a     *)
(* missing initial rpc timeout, in the object itself, and retryable() reads *)
(* the rpc timeouts.                                                        *)
Wrap(c) ==
    LET b   == Current(c)
        rpc == IF b.rpc \in {Unset, 0} THEN timeout[c] ELSE b.rpc
    IN
    /\ stage[c] = "merged"
    /\ \/ /\ ~Retries(CodesOf(c))
          /\ stage' = [stage EXCEPT ![c] = "single"]
          /\ UNCHANGED <<shared, own, used>>
       \/ /\ Retries(CodesOf(c)) /\ Source(c) = "none"
          /\ stage' = [stage EXCEPT ![c] = "failed"]
          /\ UNCHANGED <<shared, own, used>>
       \/ /\ Retries(CodesOf(c)) /\ Source(c) # "none"
          /\ stage' = [stage EXCEPT ![c] = "wrapped"]
          /\ used' = [used EXCEPT ![c].rpc = rpc, ![c].maxRpc = b.maxRpc]
          /\ IF Source(c) = "own"
             THEN own' = [own EXCEPT ![c].rpc = rpc] /\ UNCHANGED shared
             ELSE shared' = [shared EXCEPT ![MethodOf[c]].rpc = rpc] /\ UNCHANGED own
    /\ UNCHANGED <<transport, headers, timeout, sent, undisturbed>>

HeadersOf(c) == OptionsOf[c].headers   \* a function on some of Headers

(* The metadata of an attempt: a call's header replaces that of the client, *)
(* or is added to it if it is a list.                                       *)
BuildMetadata(c) ==
    [h \in Headers |->
        IF h \notin DOMAIN HeadersOf(c) THEN headers[h]
        ELSE IF HeadersOf(c)[h].list THEN headers[h] \o HeadersOf(c)[h].values
        ELSE HeadersOf(c)[h].values]

KeptInPlace(c) == BuildMetadata(c)   \* mutant: the base metadata is not cloned

(* grpc.ts works on a clone.  fallback.ts adds a list to the very array of  *)
(* the client's header, if that is a list too.                              *)
KeptHeaders(c) ==
    [h \in Headers |->
        IF /\ transport = "fallback" /\ BaseHeaders[h].list
           /\ h \in DOMAIN HeadersOf(c) /\ HeadersOf(c)[h].list
        THEN BuildMetadata(c)[h] ELSE headers[h]]

(* In a later turn the function is invoked: it reads the limits, if the     *)
(* call is retried, and builds the headers.                                 *)
Invoke(c) ==
    /\ stage[c] \in {"wrapped", "single"}
    /\ stage' = [stage EXCEPT ![c] = "invoked"]
    /\ used' = IF stage[c] = "wrapped"
               THEN [used EXCEPT ![c].total = Current(c).total,
                                 ![c].maxRetries = Current(c).maxRetries]
               ELSE [used EXCEPT ![c].rpc = timeout[c]]
    /\ sent' = [sent EXCEPT ![c] = BuildMetadata(c)]
    /\ headers' = KeptHeaders(c)
    /\ UNCHANGED <<transport, shared, own, timeout, undisturbed>>

(* Another attempt builds the headers again.  (Bound: one retry per call.)  *)
Retry(c) ==
    /\ stage[c] = "invoked" /\ Retries(CodesOf(c))
    /\ stage' = [stage EXCEPT ![c] = "retried"]
    /\ sent' = [sent EXCEPT ![c] = BuildMetadata(c)]
    /\ headers' = KeptHeaders(c)
    /\ UNCHANGED <<transport, shared, own, timeout, used, undisturbed>>

Next == \E c \in Calls : Merge(c) \/ Wrap(c) \/ Invoke(c) \/ Retry(c)

Spec == Init /\ [][Next]_vars

-----------------------------------------------------------------------------
TypeOK ==
    /\ transport \in Transports
    /\ shared \in [Methods -> Backoff \cup {Null}]
    /\ own \in [Calls -> Backoff \cup {Null}]
    /\ stage \in [Calls -> Stages]
    /\ timeout \in [Calls -> Nat]
    /\ used \in [Calls -> Backoff]
    /\ undisturbed \in [Calls -> BOOLEAN]

Loops(c) == stage[c] \in {"invoked", "retried"} /\ Retries(CodesOf(c))

(* What the options of a call and the defaults of the method ask for, were  *)
(* the call the only one ever made.                                         *)
Requested(c) ==
    LET o    == OptionsOf[c]
        m    == MethodOf[c]
        base == IF Source(c) = "own" THEN o.retry.backoff
                ELSE IF o.given /\ Retries(DefaultCodes(m)) THEN Timed(c, DefaultBackoff(m))
                ELSE DefaultBackoff(m)
        filled == [base EXCEPT !.rpc = IF @ \in {Unset, 0}
                                       THEN (IF o.given THEN CallTimeout(c) ELSE DefaultTimeout(m))
                                       ELSE @]
    IN  IF o.given THEN WithMaxRetries(c, filled) ELSE filled

(* A call that brings its own backoffSettings is isolated from all others.  *)
(* If its method is retried by default, the timeouts a call writes into the *)
(* object of the method reach its own retry loop unless a call of the same  *)
(* method is made in between, so that only maxRetries can come from an      *)
(* earlier call of the method; calls of other methods never interfere.      *)
(* (Where only the call's own codes make it a retried one, nothing resets   *)
(* the object, and what other calls left there stays.)  gax.ts:212-238,     *)
(* 262-265, 518-536, createApiCall.ts:83-112.                               *)
UndisturbedCallHasItsSettings ==
    \A c \in Calls : Loops(c) =>
        /\ Source(c) = "own" => used[c] = Requested(c)
        /\ OptionsOf[c].given /\ undisturbed[c] /\ Retries(DefaultCodes(MethodOf[c])) =>
              /\ used[c].rpc = Requested(c).rpc /\ used[c].maxRpc = Requested(c).maxRpc
              /\ used[c].total = Requested(c).total
              /\ used[c].maxRetries # Requested(c).maxRetries =>
                    \E d \in Calls \ {c} :
                        /\ MethodOf[d] = MethodOf[c]
                        /\ stage[d] # "new" /\ OptionsOf[d].given
                        /\ OptionsOf[d].maxRetries = used[c].maxRetries

(* The levels at which retries are configured for a call, the strongest     *)
(* first; a level that is null hides those below it.                        *)
DefaultLevels(m) ==
    LET level(config) == ConstructRetry(config.methods[m], config.retry_codes,
                                        config.retry_params)
    IN  IF ~Overridden(m) THEN <<level(ClientConfig)>>
        ELSE IF ConfigOverrides.methods[m] = Null THEN <<>>
        ELSE <<level(ConfigOverrides), level(ClientConfig)>>

Levels(c) ==
    LET o == OptionsOf[c]
    IN  IF ~o.given \/ ~o.retryGiven THEN DefaultLevels(MethodOf[c])
        ELSE IF o.retry = Null THEN <<>> ELSE <<o.retry>> \o DefaultLevels(MethodOf[c])

First(levels, field) ==
    LET given == {i \in DOMAIN levels : levels[i][field] # Null}
    IN  IF given = {} THEN Null
        ELSE levels[CHOOSE i \in given : \A j \in given : i =< j][field]

(* Codes and backoff settings each come from the strongest level that has   *)
(* them: a call is retried, sent once, or told that it cannot be made, as   *)
(* these say.  A call fails before there is a promise only if it has        *)
(* options, and its method is configured with codes but without backoff     *)
(* settings or the other way round, or it sets maxRetries where there are   *)
(* none (gax.ts:212-235, 262-265, 466-536, 633-703).                        *)
StrongestSettingsWin ==
    \A c \in Calls :
        LET codes   == First(Levels(c), "codes")
            backoff == First(Levels(c), "backoff")
            default == DefaultLevels(MethodOf[c])
        IN  /\ stage[c] = "single" => ~Retries(codes)
            /\ stage[c] = "failed" => Retries(codes) /\ backoff = Null
            /\ stage[c] \in {"wrapped", "retried"} => Retries(codes) /\ backoff # Null
            /\ stage[c] = "thrown" =>
                  /\ OptionsOf[c].given
                  /\ \/ OptionsOf[c].maxRetries # Unset /\ backoff = Null
                     \/ Retries(First(default, "codes")) /\ First(default, "backoff") = Null
                     \/ default # <<>> /\ First(default, "codes") = Null

(* Every attempt carries the client's headers and its own call's, never     *)
(* those of another call or of an earlier attempt.  Over the fallback this  *)
(* takes a client header that is no list (grpc.ts:311-347,                  *)
(* fallback.ts:174-236, timeout.ts:46-54).                                  *)
HeadersStayWithTheirCall ==
    \A c \in Calls, h \in Headers :
        stage[c] \in {"invoked", "retried"} /\ (transport = "fallback" => ~BaseHeaders[h].list) =>
            sent[c][h] = IF h \notin DOMAIN HeadersOf(c) THEN BaseHeaders[h].values
                         ELSE IF HeadersOf(c)[h].list
                              THEN BaseHeaders[h].values \o HeadersOf(c)[h].values
                         ELSE HeadersOf(c)[h].values

(* "When provided, its values override the GAX service defaults for that    *)
(* particular call" (gax.ts:29-30): a call works with its own options and   *)
(* the defaults, never with the options of another call.                    *)
OptionsStayWithTheirCall ==
    \A c \in Calls : Loops(c) => used[c] = Requested(c)

=============================================================================
