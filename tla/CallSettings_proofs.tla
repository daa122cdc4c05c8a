------------------------ MODULE CallSettings_proofs ------------------------
(***************************************************************************)
(* Proofs about CallSettings, for every configuration, all overrides and   *)
(* options, and any order of calls.                                        *)
(*                                                                         *)
(* Each property follows from an invariant that says what every object     *)
(* holds at each stage of a call:                                          *)
(*   Kept       which objects exist never changes: merge() writes fields   *)
(*   Ordered    the stage of a call is decided by its own settings         *)
(*   OwnKept    the object a call brought is written by that call only     *)
(*   SharedKept the method's object is that of the last call merged, up to *)
(*              maxRetries, which nobody resets                            *)
(*   HeadersKept  the client's headers that are no lists never change      *)
(***************************************************************************)
EXTENDS CallSettings, TLAPS

-----------------------------------------------------------------------------
(* Types of what the configuration and the options determine.               *)

(* The retries a configuration gives one of its methods are retry options,  *)
(* or null exactly if the method's entry is null (constructRetry).          *)
LEMMA ConstructRetryType ==
    ASSUME NEW config, IsConfig(config), NEW m \in DOMAIN config.methods
    PROVE  LET r == ConstructRetry(config.methods[m], config.retry_codes,
                                   config.retry_params)
           IN  /\ config.methods[m] = Null => r = Null
               /\ config.methods[m] # Null => r \in RetryOptions
  <1> DEFINE method == config.methods[m]
             r == ConstructRetry(method, config.retry_codes, config.retry_params)
  <1>1. CASE method = Null
    BY <1>1 DEF ConstructRetry
  <1>2. CASE method # Null
    <2> DEFINE codes == IF config.retry_codes = Null \/ method.codesName = Null THEN Null
                        ELSE IF method.codesName \in DOMAIN config.retry_codes
                             THEN config.retry_codes[method.codesName] ELSE {}
               backoff == IF config.retry_params = Null \/ method.paramsName = Null THEN Null
                          ELSE config.retry_params[method.paramsName]
    <2>1. codes \in (SUBSET Codes) \cup {Null}
      <3>1. /\ config.retry_codes # Null /\ method.codesName # Null
            /\ method.codesName \in DOMAIN config.retry_codes
            => config.retry_codes[method.codesName] \subseteq Codes
        BY <1>2, Zenon DEF IsConfig
      <3> QED BY <3>1
    <2>2. backoff \in Backoff \cup {Null}
      BY <1>2 DEF IsConfig
    <2>3. r = [codes |-> codes, backoff |-> backoff]
      BY <1>2, Zenon DEF ConstructRetry
    <2> HIDE DEF codes, backoff
    <2> QED BY <1>2, <2>1, <2>2, <2>3 DEF RetryOptions
  <1> QED BY <1>1, <1>2

(* Merged retry options are retry options, or null if the overrides are.    *)
LEMMA MergeType ==
    ASSUME NEW retry \in RetryOptions, NEW overrides \in RetryOptions \cup {Null}
    PROVE  MergeRetryOptions(retry, overrides) \in RetryOptions \cup {Null}
  BY NullAssumption DEF MergeRetryOptions, RetryOptions, Either

(* The defaults of a method: a timeout that is not 0, and retry options.    *)
LEMMA DefaultsType ==
    ASSUME NEW m \in Methods
    PROVE  /\ DefaultTimeout(m) \in Nat \ {0}
           /\ DefaultRetry(m) \in RetryOptions \cup {Null}
           /\ DefaultCodes(m) \in (SUBSET Codes) \cup {Null}
           /\ DefaultBackoff(m) \in Backoff \cup {Null}
  <1> DEFINE base == ConstructRetry(ClientConfig.methods[m], ClientConfig.retry_codes,
                                    ClientConfig.retry_params)
             over == ConstructRetry(ConfigOverrides.methods[m], ConfigOverrides.retry_codes,
                                    ConfigOverrides.retry_params)
             t == ConfiguredTimeout(m)
  <1>1. base \in RetryOptions
    BY ConstructRetryType, ConfigAssumption
  <1>2. Overridden(m) => over \in RetryOptions \cup {Null}
    BY ConstructRetryType, ConfigAssumption DEF Overridden
  <1>3. t \in Nat \cup {Unset}
    BY ConfigAssumption DEF ConfiguredTimeout, Overridden, IsConfig
  <1>4. Defaults[m] = [timeout |-> IF t \in {Unset, 0} THEN BaseTimeout ELSE t,
                       retry |-> IF Overridden(m) THEN MergeRetryOptions(base, over) ELSE base]
    BY DEF Defaults, ConstructSettings
  <1>5. DefaultTimeout(m) = IF t \in {Unset, 0} THEN BaseTimeout ELSE t
    BY <1>4 DEF DefaultTimeout
  <1>6. DefaultRetry(m) = IF Overridden(m) THEN MergeRetryOptions(base, over) ELSE base
    BY <1>4 DEF DefaultRetry
  <1>7. DefaultTimeout(m) \in Nat \ {0}
    <2> HIDE DEF t
    <2> QED BY <1>3, <1>5, ConfigAssumption DEF Unset
  <1>8. DefaultRetry(m) \in RetryOptions \cup {Null}
    <2> HIDE DEF base, over
    <2> QED BY <1>1, <1>2, <1>6, MergeType
  <1>9. DefaultRetry(m) # Null =>
          /\ DefaultRetry(m).codes \in (SUBSET Codes) \cup {Null}
          /\ DefaultRetry(m).backoff \in Backoff \cup {Null}
    BY <1>8 DEF RetryOptions
  <1> QED BY <1>7, <1>8, <1>9, Zenon DEF DefaultCodes, DefaultBackoff

-----------------------------------------------------------------------------
(* What a call's options and its method's defaults make of it.              *)

LEMMA OptionsType ==
    ASSUME NEW c \in Calls
    PROVE  /\ MethodOf[c] \in Methods
           /\ OptionsOf[c].given \in BOOLEAN /\ OptionsOf[c].retryGiven \in BOOLEAN
           /\ OptionsOf[c].maxRetries \in Nat \cup {Unset}
           /\ OptionsOf[c].retry \in RetryOptions \cup {Null}
           /\ CallTimeout(c) \in Nat \ {0}
  <1>1. MethodOf[c] \in Methods
    BY CallsAssumption
  <1>2. IsOptions(OptionsOf[c])
    BY CallsAssumption
  <1> QED BY <1>1, <1>2, DefaultsType DEF IsOptions, CallTimeout, Unset

LEMMA MergedType ==
    ASSUME NEW c \in Calls
    PROVE  /\ MergedRetry(c) \in RetryOptions \cup {Null}
           /\ CodesOf(c) \in (SUBSET Codes) \cup {Null}
  <1>1. NoRetry \in RetryOptions
    BY DEF NoRetry, RetryOptions
  <1>2. Either(DefaultRetry(MethodOf[c]), NoRetry) \in RetryOptions
    BY <1>1, OptionsType, DefaultsType DEF Either
  <1>3. MergedRetry(c) \in RetryOptions \cup {Null}
    BY <1>2, OptionsType, DefaultsType, MergeType DEF MergedRetry
  <1>4. MergedRetry(c) # Null => MergedRetry(c).codes \in (SUBSET Codes) \cup {Null}
    BY <1>3 DEF RetryOptions
  <1> QED BY <1>3, <1>4, Zenon DEF CodesOf

(* The backoffSettings a call brings.                                       *)
Brought(c) == IF OptionsOf[c].retry = Null THEN Null ELSE OptionsOf[c].retry.backoff

LEMMA BroughtType ==
    ASSUME NEW c \in Calls PROVE Brought(c) \in Backoff \cup {Null}
  <1>1. OptionsOf[c].retry # Null => OptionsOf[c].retry.backoff \in Backoff \cup {Null}
    BY OptionsType DEF RetryOptions
  <1> QED BY <1>1, Zenon DEF Brought

(* A call's object is its own only if it brought one, and its method's only *)
(* if the method has one (mergeRetryOptions).                               *)
LEMMA SourceExists ==
    ASSUME NEW c \in Calls
    PROVE  /\ Source(c) \in {"none", "own", "shared"}
           /\ Source(c) = "own" => OptionsOf[c].given /\ Brought(c) \in Backoff
           /\ Source(c) = "own" => Brought(c) = OptionsOf[c].retry.backoff
           /\ Source(c) = "shared" => DefaultBackoff(MethodOf[c]) \in Backoff
  <1> DEFINE default == DefaultRetry(MethodOf[c])
  <1>1. Source(c) \in {"none", "own", "shared"}
    BY DEF Source
  <1>2. ASSUME Source(c) = "own"
        PROVE  OptionsOf[c].given /\ Brought(c) \in Backoff
               /\ Brought(c) = OptionsOf[c].retry.backoff
    <2>1. OptionsOf[c].given /\ OptionsOf[c].retryGiven /\ OptionsOf[c].retry.backoff # Null
          /\ MergedRetry(c) # Null
      BY <1>2, OptionsType DEF Source
    <2>2. OptionsOf[c].retry # Null
      BY <2>1 DEF MergedRetry, MergeRetryOptions
    <2> QED BY <2>1, <2>2, BroughtType DEF Brought
  <1>3. ASSUME Source(c) = "shared"
        PROVE  DefaultBackoff(MethodOf[c]) \in Backoff
    <2>1. MergedRetry(c) # Null /\ MergedRetry(c).backoff # Null
          /\ (OptionsOf[c].given /\ OptionsOf[c].retryGiven => OptionsOf[c].retry.backoff = Null)
      BY <1>3, OptionsType DEF Source
    <2>2. default # Null /\ default.backoff # Null
      <3>1. CASE OptionsOf[c].given /\ OptionsOf[c].retryGiven
        <4>1. OptionsOf[c].retry # Null
          BY <2>1, <3>1 DEF MergedRetry, MergeRetryOptions
        <4>2. MergedRetry(c) = [codes |-> Either(OptionsOf[c].retry.codes,
                                                 Either(default, NoRetry).codes),
                                backoff |-> Either(OptionsOf[c].retry.backoff,
                                                   Either(default, NoRetry).backoff)]
          BY <3>1, <4>1 DEF MergedRetry, MergeRetryOptions
        <4>3. MergedRetry(c).backoff = Either(default, NoRetry).backoff
          BY <2>1, <3>1, <4>2 DEF Either
        <4> QED BY <2>1, <4>3 DEF Either, NoRetry
      <3>2. CASE ~(OptionsOf[c].given /\ OptionsOf[c].retryGiven)
        BY <2>1, <3>2 DEF MergedRetry
      <3> QED BY <3>1, <3>2
    <2> QED BY <2>2, OptionsType, DefaultsType DEF DefaultBackoff
  <1> QED BY <1>1, <1>2, <1>3

(* What the writes of merge() make of an object.                            *)
LEMMA WritesKeepType ==
    ASSUME NEW c \in Calls, NEW b \in Backoff
    PROVE  /\ Timed(c, b) \in Backoff /\ WithMaxRetries(c, b) \in Backoff
           /\ Timed(c, b) = [rpc |-> CallTimeout(c), maxRpc |-> CallTimeout(c), total |-> CallTimeout(c),
                             maxRetries |-> b.maxRetries]
           /\ WithMaxRetries(c, b).rpc = b.rpc /\ WithMaxRetries(c, b).maxRpc = b.maxRpc
           /\ WithMaxRetries(c, b).total = IF OptionsOf[c].maxRetries = Unset
                                           THEN b.total ELSE Unset
           /\ WithMaxRetries(c, b).maxRetries = IF OptionsOf[c].maxRetries = Unset
                                                THEN b.maxRetries ELSE OptionsOf[c].maxRetries
  <1>1. CallTimeout(c) \in Nat \cup {Unset}
    BY OptionsType
  <1>2. /\ Timed(c, b) \in Backoff
        /\ Timed(c, b).rpc = CallTimeout(c) /\ Timed(c, b).maxRpc = CallTimeout(c)
        /\ Timed(c, b).total = CallTimeout(c)
        /\ Timed(c, b).maxRetries = b.maxRetries
    BY <1>1 DEF Timed, Backoff
  <1>3. Timed(c, b) = [rpc |-> CallTimeout(c), maxRpc |-> CallTimeout(c), total |-> CallTimeout(c),
                       maxRetries |-> b.maxRetries]
    BY <1>2 DEF Backoff
  <1>4. CASE OptionsOf[c].maxRetries = Unset
    BY <1>2, <1>3, <1>4 DEF WithMaxRetries
  <1>5. CASE OptionsOf[c].maxRetries # Unset
    <2> DEFINE n == OptionsOf[c].maxRetries
               w == [b EXCEPT !.maxRetries = n, !.total = Unset]
    <2>1. WithMaxRetries(c, b) = w
      BY <1>5 DEF WithMaxRetries
    <2>2. n \in Nat \cup {Unset}
      BY OptionsType
    <2> HIDE DEF n
    <2>3. w \in Backoff /\ w.rpc = b.rpc /\ w.maxRpc = b.maxRpc /\ w.total = Unset /\ w.maxRetries = n
      BY <2>2 DEF Backoff
    <2> QED BY <1>2, <1>3, <1>5, <2>1, <2>3 DEF n
  <1> QED BY <1>4, <1>5

-----------------------------------------------------------------------------
(* Types.  Which objects exist never changes, and how far a call gets is    *)
(* decided by its settings alone, so that an object that is read exists.    *)

Kept ==
    /\ \A m \in Methods : shared[m] = Null <=> DefaultBackoff(m) = Null
    /\ \A c \in Calls : own[c] = Null <=> Brought(c) = Null

(* Why merge() throws for a call, by the objects that exist.                *)
Misconfigured(c) ==
    LET m == MethodOf[c]
    IN  \/ Retries(DefaultCodes(m)) /\ DefaultBackoff(m) = Null
        \/ DefaultRetry(m) # Null /\ DefaultCodes(m) = Null
        \/ OptionsOf[c].maxRetries # Unset /\ Source(c) = "none"

OrderedOf(c, s) ==
    /\ s = "single" => ~Retries(CodesOf(c))
    /\ s = "failed" => Retries(CodesOf(c)) /\ Source(c) = "none"
    /\ s \in {"wrapped", "retried"} => Retries(CodesOf(c)) /\ Source(c) # "none"
    /\ s = "invoked" => (Retries(CodesOf(c)) => Source(c) # "none")
    /\ s = "thrown" => OptionsOf[c].given /\ Misconfigured(c)

Ordered == \A c \in Calls : OrderedOf(c, stage[c])

TypeInv == TypeOK /\ Kept /\ Ordered

LEMMA SharedFacts ==
    ASSUME TypeOK, Kept, NEW c \in Calls
    PROVE  LET m == MethodOf[c]
               b == IF WritesTimeout(c) THEN Timed(c, shared[m]) ELSE shared[m]
           IN  /\ b \in Backoff \cup {Null}
               /\ b = Null <=> DefaultBackoff(m) = Null
               /\ Source(c) = "shared" => b \in Backoff
               /\ Source(c) = "shared" => WithMaxRetries(c, b) \in Backoff
               /\ Source(c) = "own" => own[c] \in Backoff
               /\ Source(c) # "none" => Current(c) \in Backoff
  <1> DEFINE m == MethodOf[c]
             b == IF WritesTimeout(c) THEN Timed(c, shared[m]) ELSE shared[m]
  <1>1. m \in Methods /\ shared[m] \in Backoff \cup {Null} /\ own[c] \in Backoff \cup {Null}
    BY OptionsType DEF TypeOK
  <1>2. shared[m] \in Backoff => Timed(c, shared[m]) \in Backoff
    BY WritesKeepType
  <1>3. WritesTimeout(c) => shared[m] # Null
    BY DEF WritesTimeout
  <1>4. b \in Backoff \cup {Null} /\ (b = Null <=> shared[m] = Null)
    BY <1>1, <1>2, <1>3, NullAssumption
  <1>5. shared[m] = Null <=> DefaultBackoff(m) = Null
    BY <1>1 DEF Kept
  <1>6. Source(c) = "shared" => b \in Backoff /\ shared[m] \in Backoff
    BY <1>1, <1>4, <1>5, SourceExists, NullAssumption
  <1>7. b \in Backoff => WithMaxRetries(c, b) \in Backoff
    <2> HIDE DEF b
    <2> QED BY WritesKeepType
  <1>8. Source(c) = "own" => own[c] \in Backoff
    BY <1>1, SourceExists, NullAssumption DEF Kept
  <1>9. Source(c) # "none" => Current(c) \in Backoff
    BY <1>6, <1>8, SourceExists DEF Current
  <1> HIDE DEF b
  <1> QED BY <1>4, <1>5, <1>6, <1>7, <1>8, <1>9 DEF b

LEMMA InitTypeInv == Init => TypeInv
  <1> SUFFICES ASSUME Init PROVE TypeInv
    OBVIOUS
  <1>1. NoBackoff \in Backoff
    BY DEF NoBackoff, Backoff
  <1>2. own = [c \in Calls |-> Brought(c)]
    BY DEF Init, Brought
  <1>3. shared \in [Methods -> Backoff \cup {Null}] /\ own \in [Calls -> Backoff \cup {Null}]
    BY <1>2, BroughtType, DefaultsType DEF Init
  <1>4. timeout \in [Calls -> Nat]
    BY OptionsType, DefaultsType DEF Init
  <1>5. TypeOK
    BY <1>1, <1>3, <1>4 DEF Init, TypeOK, Stages
  <1>6. Kept
    BY <1>2 DEF Init, Kept
  <1>7. Ordered
    BY DEF Init, Ordered, OrderedOf
  <1> QED BY <1>5, <1>6, <1>7 DEF TypeInv

LEMMA MergeTypeInv ==
    ASSUME TypeInv, NEW c \in Calls, Merge(c) PROVE TypeInv'
  <1> DEFINE m == MethodOf[c]
             b == IF WritesTimeout(c) THEN Timed(c, shared[m]) ELSE shared[m]
  <1> USE DEF TypeInv
  <1>1. /\ m \in Methods /\ CallTimeout(c) \in Nat
        /\ b \in Backoff \cup {Null} /\ (b = Null <=> DefaultBackoff(m) = Null)
        /\ Source(c) = "shared" => WithMaxRetries(c, b) \in Backoff
        /\ Source(c) = "shared" => DefaultBackoff(m) # Null
        /\ Source(c) = "own" => WithMaxRetries(c, own[c]) \in Backoff
        /\ Source(c) = "own" => Brought(c) # Null
    BY OptionsType, SharedFacts, SourceExists, WritesKeepType, NullAssumption
  <1>2. undisturbed' \in [Calls -> BOOLEAN]
    BY DEF Merge, TypeOK
  <1>3. UNCHANGED <<transport, used>>
    BY DEF Merge
  <1> HIDE DEF b
  <1>4. CASE ~OptionsOf[c].given
    <2>1. stage' = [stage EXCEPT ![c] = "merged"] /\ UNCHANGED <<shared, own, timeout>>
      BY <1>4 DEF Merge
    <2>2. TypeOK'
      BY <1>2, <1>3, <2>1 DEF TypeOK, Stages
    <2>3. Kept'
      BY <2>1 DEF Kept
    <2>4. Ordered'
      BY <2>1 DEF Ordered, OrderedOf, TypeOK
    <2> QED BY <2>2, <2>3, <2>4
  <1>5. CASE OptionsOf[c].given /\ Throws(c)
    <2>1. /\ stage' = [stage EXCEPT ![c] = "thrown"]
          /\ shared' = [shared EXCEPT ![m] = b]
          /\ UNCHANGED <<own, timeout>>
      BY <1>5 DEF Merge, b
    <2>2. TypeOK'
      BY <1>1, <1>2, <1>3, <2>1 DEF TypeOK, Stages
    <2>3. Kept'
      BY <1>1, <2>1 DEF Kept, TypeOK
    <2>4. Misconfigured(c)
      BY <1>1, <1>5 DEF Throws, Misconfigured, Kept
    <2>5. Ordered'
      BY <1>5, <2>1, <2>4 DEF Ordered, OrderedOf, TypeOK
    <2> QED BY <2>2, <2>3, <2>5
  <1>6. CASE OptionsOf[c].given /\ ~Throws(c)
    <2> DEFINE x == IF Source(c) = "shared" THEN WithMaxRetries(c, b) ELSE b
               y == IF Source(c) = "own" THEN WithMaxRetries(c, own[c]) ELSE own[c]
    <2>1. /\ stage' = [stage EXCEPT ![c] = "merged"]
          /\ timeout' = [timeout EXCEPT ![c] = CallTimeout(c)]
          /\ shared' = [shared EXCEPT ![m] = x]
          /\ own' = [own EXCEPT ![c] = y]
      BY <1>6 DEF Merge, b
    <2>2. /\ x \in Backoff \cup {Null} /\ (x = Null <=> DefaultBackoff(m) = Null)
          /\ y \in Backoff \cup {Null} /\ (y = Null <=> Brought(c) = Null)
      BY <1>1, NullAssumption DEF TypeOK, Kept
    <2> HIDE DEF x, y
    <2>3. TypeOK'
      BY <1>1, <1>2, <1>3, <2>1, <2>2 DEF TypeOK, Stages
    <2>4. Kept'
      BY <1>1, <2>1, <2>2 DEF Kept, TypeOK
    <2>5. Ordered'
      BY <2>1 DEF Ordered, OrderedOf, TypeOK
    <2> QED BY <2>3, <2>4, <2>5
  <1> QED BY <1>4, <1>5, <1>6

(* The rpc timeout with which a call is wrapped, once the object is known.  *)
RpcOf(c) == IF Current(c).rpc \in {Unset, 0} THEN timeout[c] ELSE Current(c).rpc

LEMMA WrapTypeInv ==
    ASSUME TypeInv, NEW c \in Calls, Wrap(c) PROVE TypeInv'
  <1> USE DEF TypeInv
  <1> DEFINE m == MethodOf[c]
  <1>1. UNCHANGED <<transport, headers, timeout, sent, undisturbed>> /\ m \in Methods
    BY OptionsType DEF Wrap
  <1>2. ASSUME UNCHANGED <<shared, own, used>>,
               NEW s \in {"single", "failed"}, stage' = [stage EXCEPT ![c] = s],
               OrderedOf(c, s)
        PROVE  TypeInv'
    <2>1. TypeOK'
      BY <1>1, <1>2 DEF TypeOK, Stages
    <2>2. Kept'
      BY <1>2 DEF Kept
    <2>3. Ordered'
      BY <1>2 DEF Ordered, OrderedOf, TypeOK
    <2> QED BY <2>1, <2>2, <2>3
  <1>3. CASE ~Retries(CodesOf(c))
    BY <1>2, <1>3 DEF Wrap, OrderedOf
  <1>4. CASE Retries(CodesOf(c)) /\ Source(c) = "none"
    BY <1>2, <1>4 DEF Wrap, OrderedOf
  <1>5. CASE Retries(CodesOf(c)) /\ Source(c) # "none"
    <2>1. /\ stage' = [stage EXCEPT ![c] = "wrapped"]
          /\ used' = [used EXCEPT ![c].rpc = RpcOf(c), ![c].maxRpc = Current(c).maxRpc]
          /\ IF Source(c) = "own"
             THEN own' = [own EXCEPT ![c].rpc = RpcOf(c)] /\ UNCHANGED shared
             ELSE shared' = [shared EXCEPT ![m].rpc = RpcOf(c)] /\ UNCHANGED own
      BY <1>5 DEF Wrap, RpcOf
    <2>2. Current(c) \in Backoff
      BY <1>5, SharedFacts
    <2>3. RpcOf(c) \in Nat \cup {Unset} /\ Current(c).maxRpc \in Nat \cup {Unset}
      BY <2>2 DEF RpcOf, TypeOK, Backoff
    <2>4. used' \in [Calls -> Backoff]
      <3>1. used[c] \in Backoff
        BY DEF TypeOK
      <3>2. [used[c] EXCEPT !.rpc = RpcOf(c), !.maxRpc = Current(c).maxRpc] \in Backoff
        BY <2>3, <3>1 DEF Backoff
      <3>3. used' = [used EXCEPT ![c] = [used[c] EXCEPT !.rpc = RpcOf(c), !.maxRpc = Current(c).maxRpc]]
        BY <2>1 DEF TypeOK
      <3> QED BY <3>2, <3>3 DEF TypeOK
    <2>5. [Current(c) EXCEPT !.rpc = RpcOf(c)] \in Backoff
      BY <2>2, <2>3 DEF Backoff
    <2>6. shared' \in [Methods -> Backoff \cup {Null}] /\ own' \in [Calls -> Backoff \cup {Null}]
          /\ Kept'
      <3>1. CASE Source(c) = "own"
        <4>1. own' = [own EXCEPT ![c] = [Current(c) EXCEPT !.rpc = RpcOf(c)]]
              /\ UNCHANGED shared
          BY <2>1, <3>1 DEF Current
        <4>2. Brought(c) # Null
          BY <3>1, SourceExists, NullAssumption
        <4> QED BY <2>5, <4>1, <4>2, NullAssumption DEF TypeOK, Kept
      <3>2. CASE Source(c) = "shared"
        <4>1. shared' = [shared EXCEPT ![m] = [Current(c) EXCEPT !.rpc = RpcOf(c)]]
              /\ UNCHANGED own
          BY <2>1, <3>2 DEF Current
        <4>2. DefaultBackoff(m) # Null
          BY <3>2, SourceExists, NullAssumption
        <4> QED BY <1>1, <2>5, <4>1, <4>2, NullAssumption DEF TypeOK, Kept
      <3> QED BY <1>5, <3>1, <3>2, SourceExists
    <2>7. TypeOK'
      BY <1>1, <2>1, <2>4, <2>6 DEF TypeOK, Stages
    <2>8. Ordered'
      BY <1>5, <2>1 DEF Ordered, OrderedOf, TypeOK
    <2> QED BY <2>6, <2>7, <2>8
  <1> QED BY <1>3, <1>4, <1>5

LEMMA InvokeTypeInv ==
    ASSUME TypeInv, NEW c \in Calls, Invoke(c) PROVE TypeInv'
  <1> USE DEF TypeInv
  <1>1. /\ stage[c] \in {"wrapped", "single"}
        /\ stage' = [stage EXCEPT ![c] = "invoked"]
        /\ UNCHANGED <<transport, shared, own, timeout, undisturbed>>
    BY DEF Invoke
  <1>2. used' \in [Calls -> Backoff]
    <2>1. CASE stage[c] = "wrapped"
      <3>1. Current(c) \in Backoff
        BY <2>1, SharedFacts DEF Ordered, OrderedOf
      <3>2. Current(c).total \in Nat \cup {Unset} /\ Current(c).maxRetries \in Nat \cup {Unset}
        BY <3>1 DEF Backoff
      <3>3. used' = [used EXCEPT ![c].total = Current(c).total,
                                 ![c].maxRetries = Current(c).maxRetries]
        BY <2>1 DEF Invoke
      <3> QED BY <3>2, <3>3 DEF TypeOK, Backoff
    <2>2. CASE stage[c] = "single"
      <3>1. used' = [used EXCEPT ![c].rpc = timeout[c]] /\ timeout[c] \in Nat
        BY <2>2 DEF Invoke, TypeOK
      <3> QED BY <3>1 DEF TypeOK, Backoff
    <2> QED BY <1>1, <2>1, <2>2
  <1>3. TypeOK'
    BY <1>1, <1>2 DEF TypeOK, Stages
  <1>4. Kept'
    BY <1>1 DEF Kept
  <1>5. Ordered'
    BY <1>1 DEF Ordered, OrderedOf, TypeOK
  <1> QED BY <1>3, <1>4, <1>5

LEMMA RetryTypeInv ==
    ASSUME TypeInv, NEW c \in Calls, Retry(c) PROVE TypeInv'
  <1> USE DEF TypeInv
  <1>1. /\ stage[c] = "invoked" /\ Retries(CodesOf(c))
        /\ stage' = [stage EXCEPT ![c] = "retried"]
        /\ UNCHANGED <<transport, shared, own, timeout, used, undisturbed>>
    BY DEF Retry
  <1>2. TypeOK'
    BY <1>1 DEF TypeOK, Stages
  <1>3. Kept'
    BY <1>1 DEF Kept
  <1>4. Ordered'
    BY <1>1 DEF Ordered, OrderedOf, TypeOK
  <1> QED BY <1>2, <1>3, <1>4

(* No object of settings disappears or appears, and every one that a call   *)
(* reads has the timeouts it reads (gax.ts:196-289, createApiCall.ts:84-112).*)
THEOREM TypeInvariant == Spec => []TypeInv
  <1>1. ASSUME TypeInv, [Next]_vars PROVE TypeInv'
    <2>1. CASE UNCHANGED vars
      BY <1>1, <2>1 DEF vars, TypeInv, TypeOK, Kept, Ordered
    <2>2. CASE Next
      BY <1>1, <2>2, MergeTypeInv, WrapTypeInv, InvokeTypeInv, RetryTypeInv DEF Next
    <2> QED BY <1>1, <2>1, <2>2
  <1> QED BY <1>1, InitTypeInv, PTL DEF Spec

THEOREM TypeCorrect == Spec => []TypeOK
  BY TypeInvariant, PTL DEF TypeInv

-----------------------------------------------------------------------------
(* The strongest level that is configured wins.  Merging pairwise, as the   *)
(* code does, is the choice of the first level that has the field.          *)

LEMMA FirstIs ==
    ASSUME NEW levels, NEW field, NEW k \in DOMAIN levels, DOMAIN levels \subseteq Nat,
           levels[k][field] # Null,
           \A j \in DOMAIN levels : j < k => levels[j][field] = Null
    PROVE  First(levels, field) = levels[k][field]
  <1> DEFINE given == {i \in DOMAIN levels : levels[i][field] # Null}
             least == CHOOSE i \in given : \A j \in given : i =< j
  <1>1. k \in given /\ \A j \in given : k =< j
    OBVIOUS
  <1>2. least \in given /\ \A j \in given : least =< j
    <2>1. \E i \in given : \A j \in given : i =< j
      BY <1>1
    <2> QED BY <2>1
  <1>3. least = k
    BY <1>1, <1>2
  <1>4. First(levels, field) = levels[least][field]
    BY <1>1 DEF First
  <1> QED BY <1>3, <1>4

LEMMA FirstOfNone ==
    ASSUME NEW levels, NEW field, \A j \in DOMAIN levels : levels[j][field] = Null
    PROVE  First(levels, field) = Null
  BY DEF First

LEMMA FirstOfLevels ==
    ASSUME NEW s, NEW f
    PROVE  /\ DOMAIN s = {} => First(s, f) = Null
           /\ DOMAIN s = 1 .. 1 => First(s, f) = s[1][f]
           /\ DOMAIN s = 1 .. 2 => First(s, f) = Either(s[1][f], s[2][f])
           /\ DOMAIN s = 1 .. 3 => First(s, f) = Either(s[1][f], Either(s[2][f], s[3][f]))
  <1>1. ASSUME DOMAIN s = {} PROVE First(s, f) = Null
    BY <1>1, FirstOfNone
  <1>2. ASSUME DOMAIN s = 1 .. 1 PROVE First(s, f) = s[1][f]
    <2>1. CASE s[1][f] # Null
      BY <1>2, <2>1, FirstIs
    <2>2. CASE s[1][f] = Null
      BY <1>2, <2>2, FirstOfNone
    <2> QED BY <2>1, <2>2
  <1>3. ASSUME DOMAIN s = 1 .. 2 PROVE First(s, f) = Either(s[1][f], s[2][f])
    <2>1. CASE s[1][f] # Null
      BY <1>3, <2>1, FirstIs DEF Either
    <2>2. CASE s[1][f] = Null /\ s[2][f] # Null
      BY <1>3, <2>2, FirstIs DEF Either
    <2>3. CASE s[1][f] = Null /\ s[2][f] = Null
      BY <1>3, <2>3, FirstOfNone DEF Either
    <2> QED BY <2>1, <2>2, <2>3
  <1>4. ASSUME DOMAIN s = 1 .. 3
        PROVE  First(s, f) = Either(s[1][f], Either(s[2][f], s[3][f]))
    <2>1. CASE s[1][f] # Null
      BY <1>4, <2>1, FirstIs DEF Either
    <2>2. CASE s[1][f] = Null /\ s[2][f] # Null
      BY <1>4, <2>2, FirstIs DEF Either
    <2>3. CASE s[1][f] = Null /\ s[2][f] = Null /\ s[3][f] # Null
      BY <1>4, <2>3, FirstIs DEF Either
    <2>4. CASE s[1][f] = Null /\ s[2][f] = Null /\ s[3][f] = Null
      BY <1>4, <2>4, FirstOfNone DEF Either
    <2> QED BY <2>1, <2>2, <2>3, <2>4
  <1> QED BY <1>1, <1>2, <1>3, <1>4

LEMMA FirstOfDefaults ==
    ASSUME NEW f
    PROVE  /\ First(<<>>, f) = Null
           /\ \A b : First(<<b>>, f) = b[f]
           /\ \A b, d : First(<<b, d>>, f) = Either(b[f], d[f])
  <1>1. First(<<>>, f) = Null
    BY FirstOfLevels, DOMAIN <<>> = {}
  <1>2. ASSUME NEW b PROVE First(<<b>>, f) = b[f]
    BY FirstOfLevels, DOMAIN <<b>> = 1 .. 1
  <1>3. ASSUME NEW b, NEW d PROVE First(<<b, d>>, f) = Either(b[f], d[f])
    BY FirstOfLevels, DOMAIN <<b, d>> = 1 .. 2
  <1> QED BY <1>1, <1>2, <1>3

(* A level before them is the strongest.                                    *)
LEMMA FirstOfMoreThanNone ==
    ASSUME NEW f, NEW a PROVE First(<<a>> \o <<>>, f) = a[f]
  BY FirstOfLevels, <<a>> \o <<>> = <<a>>, DOMAIN <<a>> = 1 .. 1

LEMMA FirstOfMoreThanOne ==
    ASSUME NEW f, NEW a, NEW b PROVE First(<<a>> \o <<b>>, f) = Either(a[f], b[f])
  <1> DEFINE s == <<a>> \o <<b>>
  <1>1. DOMAIN s = 1 .. 2 /\ s[1] = a /\ s[2] = b
    OBVIOUS
  <1> HIDE DEF s
  <1> QED BY <1>1, FirstOfLevels DEF s

LEMMA FirstOfMoreThanTwo ==
    ASSUME NEW f, NEW a, NEW b, NEW d
    PROVE  First(<<a>> \o <<b, d>>, f) = Either(a[f], Either(b[f], d[f]))
  <1> DEFINE s == <<a>> \o <<b, d>>
  <1>1. DOMAIN s = 1 .. 3 /\ s[1] = a /\ s[2] = b /\ s[3] = d
    OBVIOUS
  <1> HIDE DEF s
  <1> QED BY <1>1, FirstOfLevels DEF s

BackoffOf(c) == IF MergedRetry(c) = Null THEN Null ELSE MergedRetry(c).backoff

LEMMA DefaultsAreStrongest ==
    ASSUME NEW m \in Methods
    PROVE  /\ DefaultCodes(m) = First(DefaultLevels(m), "codes")
           /\ DefaultBackoff(m) = First(DefaultLevels(m), "backoff")
           /\ DefaultRetry(m) = Null <=> DefaultLevels(m) = <<>>
  <1> DEFINE base == ConstructRetry(ClientConfig.methods[m], ClientConfig.retry_codes,
                                    ClientConfig.retry_params)
             over == ConstructRetry(ConfigOverrides.methods[m], ConfigOverrides.retry_codes,
                                    ConfigOverrides.retry_params)
  <1>1. base \in RetryOptions /\ base # Null
    BY ConstructRetryType, ConfigAssumption, NullAssumption
  <1>2. /\ Overridden(m) /\ ConfigOverrides.methods[m] = Null => over = Null
        /\ Overridden(m) /\ ConfigOverrides.methods[m] # Null =>
              over \in RetryOptions /\ over # Null
    BY ConstructRetryType, ConfigAssumption, NullAssumption DEF Overridden
  <1>3. DefaultRetry(m) = IF Overridden(m) THEN MergeRetryOptions(base, over) ELSE base
    BY DEF DefaultRetry, Defaults, ConstructSettings
  <1>4. DefaultLevels(m) = IF ~Overridden(m) THEN <<base>>
                           ELSE IF ConfigOverrides.methods[m] = Null THEN <<>>
                           ELSE <<over, base>>
    BY DEF DefaultLevels
  <1>5. /\ DefaultCodes(m) = IF DefaultRetry(m) = Null THEN Null ELSE DefaultRetry(m).codes
        /\ DefaultBackoff(m) = IF DefaultRetry(m) = Null THEN Null ELSE DefaultRetry(m).backoff
    BY DEF DefaultCodes, DefaultBackoff
  <1> HIDE DEF base, over
  <1>6. CASE ~Overridden(m)
    <2>1. DefaultRetry(m) = base /\ DefaultLevels(m) = <<base>>
      BY <1>3, <1>4, <1>6
    <2>2. First(<<base>>, "codes") = base.codes /\ First(<<base>>, "backoff") = base.backoff
      BY FirstOfDefaults, Zenon
    <2>3. DefaultCodes(m) = base.codes /\ DefaultBackoff(m) = base.backoff
      BY <1>1, <1>5, <2>1
    <2>4. <<base>> # <<>>
      OBVIOUS
    <2> QED BY <1>1, <2>1, <2>2, <2>3, <2>4, Zenon
  <1>7. CASE Overridden(m) /\ ConfigOverrides.methods[m] = Null
    <2>1. DefaultRetry(m) = Null /\ DefaultLevels(m) = <<>>
      BY <1>2, <1>3, <1>4, <1>7 DEF MergeRetryOptions
    <2> QED BY <1>5, <2>1, FirstOfDefaults
  <1>8. CASE Overridden(m) /\ ConfigOverrides.methods[m] # Null
    <2>1. DefaultLevels(m) = <<over, base>>
      BY <1>4, <1>8
    <2>2. DefaultRetry(m) = [codes |-> Either(over.codes, base.codes),
                             backoff |-> Either(over.backoff, base.backoff)]
      BY <1>2, <1>3, <1>8 DEF MergeRetryOptions
    <2>3. DefaultRetry(m) # Null
      BY <1>1, <1>2, <1>3, <1>8, <2>2, NullAssumption DEF RetryOptions, Either
    <2>4. /\ First(<<over, base>>, "codes") = Either(over.codes, base.codes)
          /\ First(<<over, base>>, "backoff") = Either(over.backoff, base.backoff)
      BY FirstOfDefaults, Zenon
    <2>5. /\ DefaultCodes(m) = Either(over.codes, base.codes)
          /\ DefaultBackoff(m) = Either(over.backoff, base.backoff)
      BY <1>5, <2>2, <2>3
    <2>6. <<over, base>> # <<>>
      OBVIOUS
    <2> QED BY <2>1, <2>3, <2>4, <2>5, <2>6, Zenon
  <1> QED BY <1>6, <1>7, <1>8

LEMMA FirstOfStronger ==
    ASSUME NEW m \in Methods, NEW a, NEW f
    PROVE  First(<<a>> \o DefaultLevels(m), f) = Either(a[f], First(DefaultLevels(m), f))
  <1> DEFINE level(config) == ConstructRetry(config.methods[m], config.retry_codes,
                                             config.retry_params)
             base == level(ClientConfig)
             over == level(ConfigOverrides)
  <1>1. DefaultLevels(m) = IF ~Overridden(m) THEN <<base>>
                           ELSE IF ConfigOverrides.methods[m] = Null THEN <<>>
                           ELSE <<over, base>>
    BY DEF DefaultLevels
  <1> HIDE DEF base, over
  <1>3. CASE ~Overridden(m)
    <2>1. DefaultLevels(m) = <<base>>
      BY <1>1, <1>3
    <2>2. First(<<a>> \o <<base>>, f) = Either(a[f], base[f]) /\ First(<<base>>, f) = base[f]
      BY FirstOfDefaults, FirstOfMoreThanNone, FirstOfMoreThanOne, Zenon
    <2> QED BY <2>1, <2>2
  <1>4. CASE Overridden(m) /\ ConfigOverrides.methods[m] = Null
    <2>1. DefaultLevels(m) = <<>>
      BY <1>1, <1>4
    <2>2. First(<<a>> \o <<>>, f) = a[f] /\ First(<<>>, f) = Null
      BY FirstOfDefaults, FirstOfMoreThanNone, FirstOfMoreThanOne, Zenon
    <2> QED BY <2>1, <2>2 DEF Either
  <1>5. CASE Overridden(m) /\ ConfigOverrides.methods[m] # Null
    <2>1. DefaultLevels(m) = <<over, base>>
      BY <1>1, <1>5
    <2>2. First(<<a>> \o <<over, base>>, f) = Either(a[f], Either(over[f], base[f]))
      BY FirstOfMoreThanTwo
    <2>3. First(<<over, base>>, f) = Either(over[f], base[f])
      BY FirstOfDefaults, Zenon
    <2> QED BY <2>1, <2>2, <2>3
  <1> QED BY <1>3, <1>4, <1>5

LEMMA MergedIsStrongest ==
    ASSUME NEW c \in Calls
    PROVE  /\ CodesOf(c) = First(Levels(c), "codes")
           /\ BackoffOf(c) = First(Levels(c), "backoff")
           /\ Source(c) = "none" <=> BackoffOf(c) = Null
  <1> DEFINE o == OptionsOf[c]
             m == MethodOf[c]
             default == DefaultRetry(m)
  <1>1. m \in Methods
    BY OptionsType
  <1>2. /\ DefaultCodes(m) = First(DefaultLevels(m), "codes")
        /\ DefaultBackoff(m) = First(DefaultLevels(m), "backoff")
    BY <1>1, DefaultsAreStrongest
  <1>3. Source(c) = "none" <=> BackoffOf(c) = Null
    BY DEF Source, BackoffOf
  <1>4. CASE ~o.given \/ ~o.retryGiven
    <2>1. MergedRetry(c) = default /\ Levels(c) = DefaultLevels(m)
      BY <1>4 DEF MergedRetry, Levels
    <2>2. CodesOf(c) = DefaultCodes(m) /\ BackoffOf(c) = DefaultBackoff(m)
      BY <2>1 DEF CodesOf, BackoffOf, DefaultCodes, DefaultBackoff
    <2> QED BY <1>2, <1>3, <2>1, <2>2
  <1>5. CASE o.given /\ o.retryGiven /\ o.retry = Null
    <2>1. MergedRetry(c) = Null /\ Levels(c) = <<>>
      BY <1>5 DEF MergedRetry, Levels, MergeRetryOptions
    <2>2. CodesOf(c) = Null /\ BackoffOf(c) = Null
      BY <2>1 DEF CodesOf, BackoffOf
    <2> QED BY <1>3, <2>1, <2>2, FirstOfDefaults
  <1>6. CASE o.given /\ o.retryGiven /\ o.retry # Null
    <2>1. Levels(c) = <<o.retry>> \o DefaultLevels(m)
      BY <1>6 DEF Levels
    <2>2. /\ Either(default, NoRetry).codes = DefaultCodes(m)
          /\ Either(default, NoRetry).backoff = DefaultBackoff(m)
      BY DEF Either, NoRetry, DefaultCodes, DefaultBackoff
    <2>3. MergedRetry(c) = [codes |-> Either(o.retry.codes, DefaultCodes(m)),
                            backoff |-> Either(o.retry.backoff, DefaultBackoff(m))]
      BY <1>6, <2>2 DEF MergedRetry, MergeRetryOptions
    <2>4. MergedRetry(c) # Null
      <3>1. /\ o.retry.codes \in (SUBSET Codes) \cup {Null}
            /\ o.retry.backoff \in Backoff \cup {Null}
        BY <1>6, OptionsType DEF RetryOptions
      <3>2. /\ Either(o.retry.codes, DefaultCodes(m)) \in (SUBSET Codes) \cup {Null}
            /\ Either(o.retry.backoff, DefaultBackoff(m)) \in Backoff \cup {Null}
        BY <1>1, <3>1, DefaultsType DEF Either
      <3>3. MergedRetry(c) \in RetryOptions
        BY <2>3, <3>2 DEF RetryOptions
      <3> QED BY <3>3, NullAssumption
    <2>5. /\ CodesOf(c) = Either(o.retry.codes, DefaultCodes(m))
          /\ BackoffOf(c) = Either(o.retry.backoff, DefaultBackoff(m))
      BY <2>3, <2>4 DEF CodesOf, BackoffOf
    <2>6. /\ First(Levels(c), "codes") = Either(o.retry.codes, First(DefaultLevels(m), "codes"))
          /\ First(Levels(c), "backoff")
                = Either(o.retry.backoff, First(DefaultLevels(m), "backoff"))
      BY <1>1, <2>1, FirstOfStronger
    <2> QED BY <1>2, <1>3, <2>5, <2>6
  <1> QED BY <1>4, <1>5, <1>6, OptionsType

(* Codes and backoff settings of a call each come from the strongest level  *)
(* that has them, and merge() throws only for a configuration or options    *)
(* that lack one of the two (gax.ts:212-235, 262-265, 518-536, 633-703).    *)
THEOREM StrongestWins == Spec => []StrongestSettingsWin
  <1>1. ASSUME TypeInv PROVE StrongestSettingsWin
    <2> SUFFICES ASSUME NEW c \in Calls
                 PROVE  LET codes   == First(Levels(c), "codes")
                            backoff == First(Levels(c), "backoff")
                            default == DefaultLevels(MethodOf[c])
                        IN  /\ stage[c] = "single" => ~Retries(codes)
                            /\ stage[c] = "failed" => Retries(codes) /\ backoff = Null
                            /\ stage[c] \in {"wrapped", "retried"} =>
                                  Retries(codes) /\ backoff # Null
                            /\ stage[c] = "thrown" =>
                                  /\ OptionsOf[c].given
                                  /\ \/ OptionsOf[c].maxRetries # Unset /\ backoff = Null
                                     \/ /\ Retries(First(default, "codes"))
                                        /\ First(default, "backoff") = Null
                                     \/ default # <<>> /\ First(default, "codes") = Null
      BY DEF StrongestSettingsWin
    <2>1. OrderedOf(c, stage[c])
      BY <1>1 DEF TypeInv, Ordered
    <2>2. MethodOf[c] \in Methods
      BY OptionsType
    <2>3. stage[c] = "thrown" => OptionsOf[c].given /\ Misconfigured(c)
      BY <2>1 DEF OrderedOf
    <2> QED BY <2>1, <2>2, <2>3, MergedIsStrongest, DefaultsAreStrongest DEF OrderedOf, Misconfigured
  <1> QED BY <1>1, TypeInvariant, PTL

-----------------------------------------------------------------------------
(* Headers.  Those of the client that are no lists never change, whatever   *)
(* attempts are built from them, and over gRPC the lists do not either.     *)

Clean(h) == transport = "fallback" => ~BaseHeaders[h].list

HeadersKept ==
    /\ DOMAIN headers = Headers /\ DOMAIN sent = Calls
    /\ \A h \in Headers : Clean(h) => headers[h] = BaseHeaders[h].values

HeadersInv == HeadersKept /\ HeadersStayWithTheirCall

LEMMA EarlyStepsHeaders ==
    ASSUME TypeInv, HeadersInv, NEW c \in Calls, Merge(c) \/ Wrap(c)
    PROVE  HeadersInv'
  <1>1. UNCHANGED <<transport, headers, sent>>
    BY DEF Merge, Wrap
  <1>2. \E s \in {"merged", "thrown", "single", "failed", "wrapped"} :
           stage' = [stage EXCEPT ![c] = s]
    <2>1. CASE Merge(c)
      <3>1. \/ stage' = [stage EXCEPT ![c] = "merged"]
            \/ stage' = [stage EXCEPT ![c] = "thrown"]
        BY <2>1, Zenon DEF Merge
      <3> QED BY <3>1
    <2>2. CASE Wrap(c)
      <3>1. \/ stage' = [stage EXCEPT ![c] = "single"]
            \/ stage' = [stage EXCEPT ![c] = "failed"]
            \/ stage' = [stage EXCEPT ![c] = "wrapped"]
        BY <2>2, Zenon DEF Wrap
      <3> QED BY <3>1
    <2> QED BY <2>1, <2>2
  <1>3. \A d \in Calls : stage'[d] \in {"invoked", "retried"} =>
                            stage[d] \in {"invoked", "retried"}
    BY <1>2 DEF TypeInv, TypeOK
  <1>4. HeadersKept'
    BY <1>1 DEF HeadersInv, HeadersKept, Clean
  <1>5. HeadersStayWithTheirCall'
    BY <1>1, <1>3 DEF HeadersInv, HeadersStayWithTheirCall, HeadersOf
  <1> QED BY <1>4, <1>5 DEF HeadersInv

LEMMA AttemptHeaders ==
    ASSUME TypeInv, HeadersInv, NEW c \in Calls, Invoke(c) \/ Retry(c)
    PROVE  HeadersInv'
  <1>1. /\ UNCHANGED transport /\ headers' = KeptHeaders(c)
        /\ sent' = [sent EXCEPT ![c] = BuildMetadata(c)]
    BY DEF Invoke, Retry
  <1>2. \E s \in {"invoked", "retried"} : stage' = [stage EXCEPT ![c] = s]
    BY DEF Invoke, Retry
  <1>3. ASSUME NEW h \in Headers, Clean(h) PROVE headers'[h] = BaseHeaders[h].values
    BY <1>1, <1>3 DEF HeadersInv, HeadersKept, KeptHeaders, Clean
  <1>4. HeadersKept'
    BY <1>1, <1>3 DEF HeadersInv, HeadersKept, KeptHeaders, Clean
  <1>5. ASSUME NEW d \in Calls, NEW h \in Headers,
               stage'[d] \in {"invoked", "retried"}, Clean(h)
        PROVE  sent'[d][h] = IF h \notin DOMAIN HeadersOf(d) THEN BaseHeaders[h].values
                             ELSE IF HeadersOf(d)[h].list
                                  THEN BaseHeaders[h].values \o HeadersOf(d)[h].values
                             ELSE HeadersOf(d)[h].values
    <2>1. CASE d = c
      <3>1. sent'[d] = BuildMetadata(c) /\ headers[h] = BaseHeaders[h].values
        BY <1>1, <1>5, <2>1 DEF HeadersInv, HeadersKept
      <3> QED BY <2>1, <3>1 DEF BuildMetadata
    <2>2. CASE d # c
      <3>1. sent'[d] = sent[d] /\ stage[d] \in {"invoked", "retried"}
        BY <1>1, <1>2, <1>5, <2>2 DEF HeadersInv, HeadersKept, TypeInv, TypeOK
      <3> QED BY <1>5, <3>1 DEF HeadersInv, HeadersStayWithTheirCall, Clean
    <2> QED BY <2>1, <2>2
  <1>6. HeadersStayWithTheirCall'
    BY <1>1, <1>5 DEF HeadersStayWithTheirCall, Clean, HeadersOf
  <1> QED BY <1>4, <1>6 DEF HeadersInv

(* Every attempt carries the client's headers and those of its own call,    *)
(* never those of another call or an earlier attempt, except for client     *)
(* headers that are lists over the fallback (grpc.ts:311-347,               *)
(* fallback.ts:174-236).                                                    *)
THEOREM AttemptsCarryTheirHeaders == Spec => []HeadersStayWithTheirCall
  <1>1. Init => HeadersInv
    BY DEF Init, HeadersInv, HeadersKept, HeadersStayWithTheirCall
  <1>2. ASSUME TypeInv, HeadersInv, [Next]_vars PROVE HeadersInv'
    <2>1. CASE UNCHANGED vars
      BY <1>2, <2>1 DEF vars, HeadersInv, HeadersKept, HeadersStayWithTheirCall, Clean, HeadersOf
    <2>2. CASE Next
      BY <1>2, <2>2, EarlyStepsHeaders, AttemptHeaders DEF Next
    <2> QED BY <1>2, <2>1, <2>2
  <1>3. HeadersInv => HeadersStayWithTheirCall
    BY DEF HeadersInv
  <1> QED BY <1>1, <1>2, <1>3, TypeInvariant, PTL DEF Spec

-----------------------------------------------------------------------------
(* What the objects hold.  A call's own object is written by its merge() and *)
(* its wrapping only.  The method's object has the timeouts of the last call *)
(* merged, and a maxRetries that some call put there.                       *)

(* A maxRetries that is the method's, or that a merged call of it asked for. *)
Comes(s, m, n) ==
    \/ n = DefaultBackoff(m).maxRetries
    \/ \E d \in Calls :
          /\ MethodOf[d] = m /\ s[d] # "new" /\ OptionsOf[d].given
          /\ OptionsOf[d].maxRetries # Unset /\ OptionsOf[d].maxRetries = n

TimeoutKept ==
    \A c \in Calls : stage[c] = "merged" /\ OptionsOf[c].given => timeout[c] = CallTimeout(c)

OwnKeptOf(c) ==
    /\ stage[c] = "new" => own[c] = Brought(c)
    /\ stage[c] = "merged" => own[c] = WithMaxRetries(c, Brought(c))
    /\ stage[c] \in {"wrapped", "invoked", "retried"} /\ Retries(CodesOf(c)) =>
          /\ own[c] = Requested(c)
          /\ used[c].rpc = Requested(c).rpc /\ used[c].maxRpc = Requested(c).maxRpc
    /\ stage[c] \in {"invoked", "retried"} /\ Retries(CodesOf(c)) => used[c] = Requested(c)

OwnKept == \A c \in Calls : Source(c) = "own" => OwnKeptOf(c)

Origin == \A m \in Methods : shared[m] # Null => Comes(stage, m, shared[m].maxRetries)

(* A call with options whose method is retried by default, so that merge()  *)
(* wrote its timeouts to the method's object.                               *)
Writer(c) == Source(c) = "shared" /\ OptionsOf[c].given /\ Retries(DefaultCodes(MethodOf[c]))

SharedKeptOf(c) ==
    LET b == shared[MethodOf[c]]
        r == Requested(c)
        n == OptionsOf[c].maxRetries
    IN  /\ stage[c] \in {"merged", "wrapped"} =>
              /\ b.rpc = r.rpc /\ b.maxRpc = r.maxRpc /\ b.total = r.total
              /\ n # Unset => b.maxRetries = n
        /\ stage[c] \in {"wrapped", "invoked", "retried"} /\ Retries(CodesOf(c)) =>
              used[c].rpc = r.rpc /\ used[c].maxRpc = r.maxRpc
        /\ stage[c] \in {"invoked", "retried"} /\ Retries(CodesOf(c)) =>
              /\ used[c].total = r.total
              /\ n # Unset => used[c].maxRetries = n
              /\ Comes(stage, MethodOf[c], used[c].maxRetries)

SharedKept == \A c \in Calls : Writer(c) /\ undisturbed[c] => SharedKeptOf(c)

SettingsInv == TimeoutKept /\ OwnKept /\ Origin /\ SharedKept

LEMMA SameBackoff ==
    ASSUME NEW a \in Backoff, NEW b \in Backoff,
           a.rpc = b.rpc, a.maxRpc = b.maxRpc, a.total = b.total, a.maxRetries = b.maxRetries
    PROVE  a = b
  BY DEF Backoff

(* The fields of what is requested.                                         *)
LEMMA RequestedFields ==
    ASSUME NEW c \in Calls, OptionsOf[c].given,
           NEW b \in Backoff,
           b = IF Source(c) = "own" THEN OptionsOf[c].retry.backoff
               ELSE IF Retries(DefaultCodes(MethodOf[c]))
                    THEN Timed(c, DefaultBackoff(MethodOf[c]))
               ELSE DefaultBackoff(MethodOf[c])
    PROVE  LET n == OptionsOf[c].maxRetries
           IN  /\ Requested(c) \in Backoff
               /\ Requested(c).rpc = IF b.rpc \in {Unset, 0} THEN CallTimeout(c) ELSE b.rpc
               /\ Requested(c).maxRpc = b.maxRpc
               /\ Requested(c).total = IF n = Unset THEN b.total ELSE Unset
               /\ Requested(c).maxRetries = IF n = Unset THEN b.maxRetries ELSE n
  <1> DEFINE t == IF b.rpc \in {Unset, 0} THEN CallTimeout(c) ELSE b.rpc
             filled == [b EXCEPT !.rpc = t]
  <1>1. Requested(c) = WithMaxRetries(c, filled)
    BY DEF Requested
  <1>2. t \in Nat \cup {Unset}
    BY OptionsType DEF Backoff
  <1>3. /\ filled \in Backoff
        /\ filled.rpc = t /\ filled.maxRpc = b.maxRpc /\ filled.total = b.total /\ filled.maxRetries = b.maxRetries
    <2> HIDE DEF t
    <2> QED BY <1>2 DEF Backoff
  <1> HIDE DEF filled
  <1>4. /\ WithMaxRetries(c, filled) \in Backoff
        /\ WithMaxRetries(c, filled).rpc = filled.rpc
        /\ WithMaxRetries(c, filled).maxRpc = filled.maxRpc
        /\ WithMaxRetries(c, filled).total = IF OptionsOf[c].maxRetries = Unset
                                             THEN filled.total ELSE Unset
        /\ WithMaxRetries(c, filled).maxRetries = IF OptionsOf[c].maxRetries = Unset
                                                  THEN filled.maxRetries
                                                  ELSE OptionsOf[c].maxRetries
    BY <1>3, WritesKeepType
  <1> QED BY <1>1, <1>3, <1>4

LEMMA RequestedOwn ==
    ASSUME NEW c \in Calls, Source(c) = "own"
    PROVE  LET n == OptionsOf[c].maxRetries
               b == Brought(c)
           IN  /\ Requested(c) \in Backoff
               /\ Requested(c).rpc = IF b.rpc \in {Unset, 0} THEN CallTimeout(c) ELSE b.rpc
               /\ Requested(c).maxRpc = b.maxRpc
               /\ Requested(c).total = IF n = Unset THEN b.total ELSE Unset
               /\ Requested(c).maxRetries = IF n = Unset THEN b.maxRetries ELSE n
  BY SourceExists, RequestedFields

LEMMA RequestedShared ==
    ASSUME NEW c \in Calls, Writer(c)
    PROVE  LET n == OptionsOf[c].maxRetries
           IN  /\ Requested(c) \in Backoff
               /\ Requested(c).rpc = CallTimeout(c) /\ CallTimeout(c) \notin {Unset, 0}
               /\ Requested(c).maxRpc = CallTimeout(c)
               /\ Requested(c).total = IF n = Unset THEN CallTimeout(c) ELSE Unset
               /\ Requested(c).maxRetries = IF n = Unset
                                            THEN DefaultBackoff(MethodOf[c]).maxRetries ELSE n
  <1> DEFINE default == DefaultBackoff(MethodOf[c])
             b == Timed(c, default)
  <1>1. default \in Backoff /\ OptionsOf[c].given
    BY SourceExists DEF Writer
  <1>2. /\ b \in Backoff /\ b.rpc = CallTimeout(c) /\ b.maxRpc = CallTimeout(c)
        /\ b.total = CallTimeout(c)
        /\ b.maxRetries = default.maxRetries
    <2>1. /\ b \in Backoff
          /\ b = [rpc |-> CallTimeout(c), maxRpc |-> CallTimeout(c), total |-> CallTimeout(c),
                  maxRetries |-> default.maxRetries]
      BY <1>1, WritesKeepType
    <2> QED BY <2>1
  <1>3. CallTimeout(c) \notin {Unset, 0}
    BY OptionsType DEF Unset
  <1>4. b = IF Source(c) = "own" THEN OptionsOf[c].retry.backoff
            ELSE IF Retries(DefaultCodes(MethodOf[c])) THEN b ELSE default
    BY DEF Writer
  <1> QED BY <1>1, <1>2, <1>3, <1>4, RequestedFields

(* A call that was merged stays so.                                         *)
LEMMA ComesStays ==
    ASSUME TypeOK, NEW c \in Calls, NEW s \in Stages \ {"new"},
           stage' = [stage EXCEPT ![c] = s]
    PROVE  \A m, n : Comes(stage, m, n) => Comes(stage', m, n)
  BY DEF Comes, TypeOK

LEMMA InitSettings == Init => SettingsInv
  <1> SUFFICES ASSUME Init PROVE SettingsInv
    OBVIOUS
  <1>1. TimeoutKept
    BY DEF Init, TimeoutKept
  <1>2. OwnKept
    BY DEF Init, OwnKept, OwnKeptOf, Brought
  <1>3. Origin
    BY DEF Init, Origin, Comes
  <1>4. SharedKept
    BY DEF Init, SharedKept, SharedKeptOf
  <1> QED BY <1>1, <1>2, <1>3, <1>4 DEF SettingsInv

LEMMA MergeSettings ==
    ASSUME TypeInv, SettingsInv, NEW c \in Calls, Merge(c)
    PROVE  SettingsInv'
  <1> DEFINE m == MethodOf[c]
             n == OptionsOf[c].maxRetries
             b == IF WritesTimeout(c) THEN Timed(c, shared[m]) ELSE shared[m]
             x == IF Source(c) = "shared" THEN WithMaxRetries(c, b) ELSE b
             y == IF Source(c) = "own" THEN WithMaxRetries(c, own[c]) ELSE own[c]
  <1> USE DEF TypeInv
  <1>1. /\ m \in Methods /\ stage[c] = "new" /\ UNCHANGED used
        /\ \A d \in Calls : undisturbed'[d] =>
              /\ undisturbed[d]
              /\ d # c /\ MethodOf[d] = m => stage[d] \notin {"merged", "wrapped"}
    BY OptionsType DEF Merge
  <1>2. PICK s \in {"merged", "thrown"} : stage' = [stage EXCEPT ![c] = s]
    BY Zenon DEF Merge
  <1>3. \A k, j : Comes(stage, k, j) => Comes(stage', k, j)
    BY <1>2, ComesStays DEF Stages
  <1>4. stage'[c] = s /\ \A d \in Calls \ {c} : stage'[d] = stage[d]
    BY <1>2 DEF TypeOK
  <1>5. ASSUME OptionsOf[c].given, s = "merged"
        PROVE  /\ timeout' = [timeout EXCEPT ![c] = CallTimeout(c)]
               /\ shared' = [shared EXCEPT ![m] = x]
               /\ own' = [own EXCEPT ![c] = y]
               /\ ~Throws(c)
    <2>1. stage'[c] = "merged"
      BY <1>4, <1>5
    <2>2. ~(stage' = [stage EXCEPT ![c] = "thrown"])
      BY <2>1 DEF TypeOK
    <2> QED BY <1>5, <2>2, Zenon DEF Merge
  <1>6. ASSUME s = "thrown"
        PROVE  shared' = [shared EXCEPT ![m] = b] /\ UNCHANGED <<own, timeout>>
    <2>1. stage'[c] = "thrown"
      BY <1>4, <1>6
    <2>2. ~(stage' = [stage EXCEPT ![c] = "merged"])
      BY <2>1 DEF TypeOK
    <2> QED BY <2>2, Zenon DEF Merge
  <1>7. ASSUME ~OptionsOf[c].given PROVE UNCHANGED <<shared, own, timeout>>
    BY <1>7 DEF Merge
  <1>8. \/ ~OptionsOf[c].given
        \/ s = "thrown"
        \/ OptionsOf[c].given /\ s = "merged"
    BY <1>2
  \* The object of the method before maxRetries is written, and after.
  <1>9. ASSUME shared[m] # Null
        PROVE  /\ shared[m] \in Backoff /\ b \in Backoff
               /\ b.maxRetries = shared[m].maxRetries
               /\ WritesTimeout(c) => /\ b.rpc = CallTimeout(c) /\ b.maxRpc = CallTimeout(c)
                                      /\ b.total = CallTimeout(c)
    <2>1. shared[m] \in Backoff
      BY <1>1, <1>9 DEF TypeOK
    <2>2. /\ Timed(c, shared[m]) \in Backoff
          /\ Timed(c, shared[m]) = [rpc |-> CallTimeout(c), maxRpc |-> CallTimeout(c), total |-> CallTimeout(c),
                                    maxRetries |-> shared[m].maxRetries]
      BY <2>1, WritesKeepType
    <2>3. /\ Timed(c, shared[m]).rpc = CallTimeout(c)
          /\ Timed(c, shared[m]).maxRpc = CallTimeout(c)
          /\ Timed(c, shared[m]).total = CallTimeout(c)
          /\ Timed(c, shared[m]).maxRetries = shared[m].maxRetries
      BY <2>2
    <2> QED BY <2>1, <2>2, <2>3
  <1>10. b # Null => shared[m] # Null
    BY DEF WritesTimeout
  <1> HIDE DEF b
  <1>11. ASSUME b # Null
         PROVE  /\ WithMaxRetries(c, b) \in Backoff
                /\ WithMaxRetries(c, b).rpc = b.rpc /\ WithMaxRetries(c, b).maxRpc = b.maxRpc
                /\ WithMaxRetries(c, b).total = IF n = Unset THEN b.total ELSE Unset
                /\ WithMaxRetries(c, b).maxRetries = IF n = Unset THEN b.maxRetries ELSE n
    BY <1>9, <1>10, <1>11, WritesKeepType
  <1>12. TimeoutKept'
    <2> SUFFICES ASSUME NEW d \in Calls, stage'[d] = "merged", OptionsOf[d].given
                 PROVE  timeout'[d] = CallTimeout(d)
      BY DEF TimeoutKept
    <2>1. CASE d = c
      <3>1. timeout' = [timeout EXCEPT ![c] = CallTimeout(c)]
        BY <1>4, <1>5, <2>1
      <3> QED BY <2>1, <3>1 DEF TypeOK
    <2>2. CASE d # c
      <3>1. timeout'[d] = timeout[d]
        BY <1>5, <1>6, <1>7, <1>8, <2>2 DEF TypeOK
      <3> QED BY <1>4, <2>2, <3>1 DEF SettingsInv, TimeoutKept
    <2> QED BY <2>1, <2>2
  <1>13. OwnKept'
    <2> SUFFICES ASSUME NEW d \in Calls, Source(d) = "own" PROVE OwnKeptOf(d)'
      BY DEF OwnKept
    <2>0. OwnKeptOf(d)
      BY DEF SettingsInv, OwnKept
    <2>1. CASE d = c
      <3>1. OptionsOf[c].given
        BY <2>1, SourceExists
      <3>2. ASSUME s = "merged" PROVE own'[c] = WithMaxRetries(c, Brought(c))
        BY <1>1, <1>5, <2>0, <2>1, <3>1, <3>2 DEF OwnKeptOf, TypeOK
      <3> QED BY <1>4, <2>1, <3>2 DEF OwnKeptOf
    <2>2. CASE d # c
      <3>1. own'[d] = own[d]
        BY <1>5, <1>6, <1>7, <1>8, <2>2 DEF TypeOK
      <3> QED BY <1>1, <1>4, <2>0, <2>2, <3>1 DEF OwnKeptOf
    <2> QED BY <2>1, <2>2
  <1>14. \A k \in Methods \ {m} : shared'[k] = shared[k]
    BY <1>5, <1>6, <1>7, <1>8 DEF TypeOK
  <1>15. Origin'
    <2> SUFFICES ASSUME NEW k \in Methods, shared'[k] # Null
                 PROVE  Comes(stage', k, shared'[k].maxRetries)
      BY DEF Origin
    <2>0. shared[k] # Null => Comes(stage', k, shared[k].maxRetries)
      BY <1>3 DEF SettingsInv, Origin
    <2>1. CASE k # m
      BY <1>14, <2>0, <2>1
    <2>2. CASE k = m /\ ~OptionsOf[c].given
      BY <1>7, <2>0, <2>2
    <2>3. CASE k = m /\ s = "thrown"
      <3>1. shared'[m] = b
        BY <1>1, <1>6, <2>3 DEF TypeOK
      <3> QED BY <1>9, <1>10, <2>0, <2>3, <3>1
    <2>4. CASE k = m /\ OptionsOf[c].given /\ s = "merged"
      <3>1. shared'[m] = x
        BY <1>1, <1>5, <2>4 DEF TypeOK
      <3>2. CASE Source(c) = "shared" /\ n # Unset
        <4>1. Source(c) = "shared" => b # Null
          BY SharedFacts, NullAssumption DEF b
        <4>2. shared'[m].maxRetries = n
          BY <1>11, <3>1, <3>2, <4>1
        <4> QED BY <1>4, <2>4, <3>2, <4>2 DEF Comes
      <3>3. CASE ~(Source(c) = "shared" /\ n # Unset)
        <4>1. shared'[m] = b
          BY <3>1, <3>3 DEF WithMaxRetries
        <4> QED BY <1>9, <1>10, <2>0, <2>4, <4>1
      <3> QED BY <3>2, <3>3
    <2> QED BY <1>8, <2>1, <2>2, <2>3, <2>4
  <1>16. SharedKept'
    <2> SUFFICES ASSUME NEW d \in Calls, Writer(d), undisturbed'[d] PROVE SharedKeptOf(d)'
      BY DEF SharedKept
    <2>1. CASE d = c
      <3>1. CASE s = "thrown"
        BY <1>4, <2>1, <3>1 DEF SharedKeptOf
      <3>2. CASE s = "merged"
        <4>1. OptionsOf[c].given /\ Source(c) = "shared" /\ Retries(DefaultCodes(m))
          BY <2>1 DEF Writer
        <4>2. shared'[m] = x /\ ~Throws(c)
          BY <1>1, <1>5, <3>2, <4>1 DEF TypeOK
        <4>3. WritesTimeout(c)
          BY <4>1, <4>2 DEF Throws, WritesTimeout
        <4>4. b # Null /\ shared[m] # Null
          BY <4>1, <4>3, SharedFacts, NullAssumption DEF b, WritesTimeout
        <4>5. b.rpc = CallTimeout(c) /\ b.maxRpc = CallTimeout(c) /\ b.total = CallTimeout(c)
          BY <1>9, <4>3, <4>4
        <4>6. /\ shared'[m].rpc = CallTimeout(c) /\ shared'[m].maxRpc = CallTimeout(c)
              /\ shared'[m].total = IF n = Unset THEN CallTimeout(c) ELSE Unset
              /\ n # Unset => shared'[m].maxRetries = n
          BY <1>11, <4>1, <4>2, <4>4, <4>5
        <4>7. /\ Requested(c).rpc = CallTimeout(c) /\ Requested(c).maxRpc = CallTimeout(c)
              /\ Requested(c).total = IF n = Unset THEN CallTimeout(c) ELSE Unset
          BY <2>1, RequestedShared
        <4> QED BY <1>4, <2>1, <3>2, <4>6, <4>7 DEF SharedKeptOf
      <3> QED BY <1>2, <3>1, <3>2
    <2>2. CASE d # c
      <3>1. SharedKeptOf(d) /\ stage'[d] = stage[d] /\ used'[d] = used[d]
        BY <1>1, <1>4, <2>2 DEF SettingsInv, SharedKept
      <3>2. stage[d] \in {"merged", "wrapped"} => shared'[MethodOf[d]] = shared[MethodOf[d]]
        BY <1>1, <1>14, <2>2, OptionsType
      <3>3. \A j : Comes(stage, MethodOf[d], j) => Comes(stage', MethodOf[d], j)
        BY <1>3
      <3> QED BY <3>1, <3>2, <3>3 DEF SharedKeptOf
    <2> QED BY <2>1, <2>2
  <1> QED BY <1>12, <1>13, <1>15, <1>16 DEF SettingsInv

(* The rpc timeout is missing from the method's object of an undisturbed    *)
(* writer never, so that wrapping another call of the method leaves it.     *)
LEMMA WrapSettings ==
    ASSUME TypeInv, SettingsInv, NEW c \in Calls, Wrap(c)
    PROVE  SettingsInv'
  <1> DEFINE m == MethodOf[c]
             looped == [Current(c) EXCEPT !.rpc = RpcOf(c)]
  <1> USE DEF TypeInv
  <1>1. /\ m \in Methods /\ stage[c] = "merged" /\ UNCHANGED <<timeout, undisturbed>>
    BY OptionsType DEF Wrap
  <1>2. ASSUME NEW s \in {"single", "failed"}, stage' = [stage EXCEPT ![c] = s],
               s = "single" => ~Retries(CodesOf(c)), s = "failed" => Source(c) = "none",
               UNCHANGED <<shared, own, used>>
        PROVE  SettingsInv'
    <2>1. \A k, j : Comes(stage, k, j) => Comes(stage', k, j)
      BY <1>2, ComesStays DEF Stages
    <2>2. stage'[c] = s /\ \A d \in Calls \ {c} : stage'[d] = stage[d]
      BY <1>2 DEF TypeOK
    <2>3. TimeoutKept'
      BY <1>1, <2>2 DEF SettingsInv, TimeoutKept
    <2>4. OwnKept'
      BY <1>2, <2>2 DEF SettingsInv, OwnKept, OwnKeptOf
    <2>5. Origin'
      BY <1>2, <2>1 DEF SettingsInv, Origin
    <2>6. SharedKept'
      <3> SUFFICES ASSUME NEW d \in Calls, Writer(d), undisturbed'[d] PROVE SharedKeptOf(d)'
        BY DEF SharedKept
      <3>1. SharedKeptOf(d)
        BY <1>1 DEF SettingsInv, SharedKept
      <3>2. CASE d = c
        BY <1>2, <2>2, <3>2 DEF SharedKeptOf
      <3>3. CASE d # c
        BY <1>2, <2>1, <2>2, <3>1, <3>3 DEF SharedKeptOf
      <3> QED BY <3>2, <3>3
    <2> QED BY <2>3, <2>4, <2>5, <2>6 DEF SettingsInv
  <1>3. CASE ~Retries(CodesOf(c))
    BY <1>2, <1>3 DEF Wrap
  <1>4. CASE Retries(CodesOf(c)) /\ Source(c) = "none"
    BY <1>2, <1>4 DEF Wrap
  <1>5. CASE Retries(CodesOf(c)) /\ Source(c) # "none"
    <2>1. /\ stage' = [stage EXCEPT ![c] = "wrapped"]
          /\ used' = [used EXCEPT ![c].rpc = RpcOf(c), ![c].maxRpc = Current(c).maxRpc]
          /\ IF Source(c) = "own"
             THEN own' = [own EXCEPT ![c].rpc = RpcOf(c)] /\ UNCHANGED shared
             ELSE shared' = [shared EXCEPT ![m].rpc = RpcOf(c)] /\ UNCHANGED own
      BY <1>5 DEF Wrap, RpcOf
    <2>2. Current(c) \in Backoff
      BY <1>5, SharedFacts
    <2>3. RpcOf(c) \in Nat \cup {Unset} /\ Current(c).maxRpc \in Nat \cup {Unset}
      BY <2>2 DEF RpcOf, TypeOK, Backoff
    <2>4. /\ looped \in Backoff /\ looped.rpc = RpcOf(c) /\ looped.maxRpc = Current(c).maxRpc
          /\ looped.total = Current(c).total /\ looped.maxRetries = Current(c).maxRetries
      BY <2>2, <2>3 DEF Backoff
    <2> HIDE DEF looped
    <2>5. \A k, j : Comes(stage, k, j) => Comes(stage', k, j)
      BY <2>1, ComesStays DEF Stages
    <2>6. stage'[c] = "wrapped" /\ \A d \in Calls \ {c} : stage'[d] = stage[d]
      BY <2>1 DEF TypeOK
    <2>7. /\ used'[c].rpc = RpcOf(c) /\ used'[c].maxRpc = Current(c).maxRpc
          /\ \A d \in Calls \ {c} : used'[d] = used[d]
      BY <2>1, <2>3 DEF TypeOK, Backoff
    <2>8. TimeoutKept'
      BY <1>1, <2>6 DEF SettingsInv, TimeoutKept
    <2>9. Source(c) = "own" => own' = [own EXCEPT ![c] = looped] /\ UNCHANGED shared
      BY <2>1 DEF Current, looped
    <2>10. Source(c) = "shared" => shared' = [shared EXCEPT ![m] = looped] /\ UNCHANGED own
      BY <2>1 DEF Current, looped
    <2>11. OwnKept'
      <3> SUFFICES ASSUME NEW d \in Calls, Source(d) = "own" PROVE OwnKeptOf(d)'
        BY DEF OwnKept
      <3>1. OwnKeptOf(d)
        BY DEF SettingsInv, OwnKept
      <3>2. CASE d = c
        <4> DEFINE w == WithMaxRetries(c, Brought(c))
        <4>1. own[c] = w /\ timeout[c] = CallTimeout(c) /\ own'[c] = looped
          BY <1>1, <2>9, <3>1, <3>2, SourceExists
             DEF OwnKeptOf, SettingsInv, TimeoutKept, TypeOK
        <4>2. Current(c) = w
          BY <3>2, <4>1 DEF Current
        <4>3. /\ w.rpc = Brought(c).rpc /\ w.maxRpc = Brought(c).maxRpc
              /\ w.total = IF OptionsOf[c].maxRetries = Unset THEN Brought(c).total ELSE Unset
              /\ w.maxRetries = IF OptionsOf[c].maxRetries = Unset
                                THEN Brought(c).maxRetries ELSE OptionsOf[c].maxRetries
          BY <3>2, SourceExists, WritesKeepType
        <4> HIDE DEF w
        <4>4. looped = Requested(c)
          BY <2>4, <3>2, <4>1, <4>2, <4>3, RequestedOwn, SameBackoff DEF RpcOf
        <4>5. used'[c].rpc = Requested(c).rpc /\ used'[c].maxRpc = Requested(c).maxRpc
          BY <2>4, <2>7, <4>4
        <4> QED BY <2>6, <3>2, <4>1, <4>4, <4>5 DEF OwnKeptOf
      <3>3. CASE d # c
        <4>1. own'[d] = own[d]
          BY <1>5, <2>9, <2>10, <3>3, SourceExists DEF TypeOK
        <4> QED BY <2>6, <2>7, <3>1, <3>3, <4>1 DEF OwnKeptOf
      <3> QED BY <3>2, <3>3
    <2>12. \A k \in Methods : \/ shared'[k] = shared[k]
                              \/ k = m /\ Source(c) = "shared" /\ shared'[m] = looped
      <3>1. CASE Source(c) = "own"
        BY <2>9, <3>1
      <3>2. CASE Source(c) = "shared"
        BY <1>1, <2>10, <3>2 DEF TypeOK
      <3> QED BY <1>5, <3>1, <3>2, SourceExists
    <2>13. Source(c) = "shared" => Current(c) = shared[m] /\ shared[m] # Null
      BY <2>2, NullAssumption DEF Current
    <2>14. Origin'
      <3> SUFFICES ASSUME NEW k \in Methods, shared'[k] # Null
                   PROVE  Comes(stage', k, shared'[k].maxRetries)
        BY DEF Origin
      <3>1. shared[k] # Null => Comes(stage', k, shared[k].maxRetries)
        BY <2>5 DEF SettingsInv, Origin
      <3> QED BY <2>4, <2>12, <2>13, <3>1
    <2>15. SharedKept'
      <3> SUFFICES ASSUME NEW d \in Calls, Writer(d), undisturbed'[d] PROVE SharedKeptOf(d)'
        BY DEF SharedKept
      <3> DEFINE k == MethodOf[d]
      <3>1. SharedKeptOf(d) /\ k \in Methods
        BY <1>1, OptionsType DEF SettingsInv, SharedKept
      <3>2. /\ Requested(d).rpc = CallTimeout(d) /\ CallTimeout(d) \notin {Unset, 0}
            /\ Requested(d).maxRpc = CallTimeout(d)
        BY RequestedShared
      <3>3. ASSUME stage[d] \in {"merged", "wrapped"}
            PROVE  /\ shared'[k].rpc = shared[k].rpc /\ shared'[k].maxRpc = shared[k].maxRpc
                   /\ shared'[k].total = shared[k].total
                   /\ shared'[k].maxRetries = shared[k].maxRetries
        <4>1. CASE shared'[k] = shared[k]
          BY <4>1
        <4>2. CASE k = m /\ Source(c) = "shared" /\ shared'[m] = looped
          <5>1. shared[k].rpc \notin {Unset, 0}
            BY <3>1, <3>2, <3>3 DEF SharedKeptOf
          <5>2. RpcOf(c) = shared[m].rpc
            BY <2>13, <4>2, <5>1 DEF RpcOf
          <5> QED BY <2>4, <2>13, <4>2, <5>2
        <4> QED BY <2>12, <3>1, <4>1, <4>2
      <3>4. CASE d = c
        <4>1. Source(c) = "shared" /\ stage[c] = "merged"
          BY <1>1, <3>4 DEF Writer
        <4>2. shared[m].rpc = CallTimeout(c) /\ shared[m].maxRpc = CallTimeout(c)
          BY <3>1, <3>2, <3>4, <4>1 DEF SharedKeptOf
        <4>3. RpcOf(c) = CallTimeout(c) /\ Current(c).maxRpc = CallTimeout(c)
          BY <2>13, <3>2, <3>4, <4>1, <4>2 DEF RpcOf
        <4> QED BY <2>6, <2>7, <3>1, <3>2, <3>3, <3>4, <4>1, <4>3 DEF SharedKeptOf
      <3>5. CASE d # c
        <4>1. stage'[d] = stage[d] /\ used'[d] = used[d]
          BY <2>6, <2>7, <3>5
        <4>2. \A j : Comes(stage, k, j) => Comes(stage', k, j)
          BY <2>5
        <4> QED BY <3>1, <3>3, <4>1, <4>2 DEF SharedKeptOf
      <3> QED BY <3>4, <3>5
    <2> QED BY <2>8, <2>11, <2>14, <2>15 DEF SettingsInv
  <1> QED BY <1>3, <1>4, <1>5

LEMMA InvokeSettings ==
    ASSUME TypeInv, SettingsInv, NEW c \in Calls, Invoke(c)
    PROVE  SettingsInv'
  <1> DEFINE m == MethodOf[c]
  <1> USE DEF TypeInv
  <1>1. /\ stage[c] \in {"wrapped", "single"} /\ m \in Methods
        /\ stage' = [stage EXCEPT ![c] = "invoked"]
        /\ UNCHANGED <<shared, own, timeout, undisturbed>>
    BY OptionsType DEF Invoke
  <1>2. \A k, j : Comes(stage, k, j) => Comes(stage', k, j)
    BY <1>1, ComesStays DEF Stages
  <1>3. stage'[c] = "invoked" /\ \A d \in Calls \ {c} : stage'[d] = stage[d]
    BY <1>1 DEF TypeOK
  <1>4. \A d \in Calls \ {c} : used'[d] = used[d]
    BY DEF Invoke, TypeOK
  <1>5. ASSUME Retries(CodesOf(c))
        PROVE  /\ stage[c] = "wrapped" /\ Current(c) \in Backoff
               /\ used'[c].rpc = used[c].rpc /\ used'[c].maxRpc = used[c].maxRpc
               /\ used'[c].total = Current(c).total
               /\ used'[c].maxRetries = Current(c).maxRetries
               /\ used'[c] \in Backoff
    <2>1. stage[c] = "wrapped" /\ Source(c) # "none"
      BY <1>1, <1>5 DEF Ordered, OrderedOf
    <2>2. Current(c) \in Backoff
      BY <2>1, SharedFacts
    <2>3. Current(c).total \in Nat \cup {Unset} /\ Current(c).maxRetries \in Nat \cup {Unset}
      BY <2>2 DEF Backoff
    <2>4. used' = [used EXCEPT ![c].total = Current(c).total,
                               ![c].maxRetries = Current(c).maxRetries]
      BY <2>1 DEF Invoke
    <2>5. used[c] \in Backoff
      BY DEF TypeOK
    <2>6. used'[c] = [used[c] EXCEPT !.total = Current(c).total,
                                     !.maxRetries = Current(c).maxRetries]
      BY <2>4 DEF TypeOK
    <2> QED BY <2>1, <2>2, <2>3, <2>5, <2>6 DEF Backoff
  <1>6. TimeoutKept'
    BY <1>1, <1>3 DEF SettingsInv, TimeoutKept
  <1>7. OwnKept'
    <2> SUFFICES ASSUME NEW d \in Calls, Source(d) = "own" PROVE OwnKeptOf(d)'
      BY DEF OwnKept
    <2>1. OwnKeptOf(d)
      BY DEF SettingsInv, OwnKept
    <2>2. CASE d = c /\ Retries(CodesOf(c))
      <3>1. /\ own[c] = Requested(c)
            /\ used[c].rpc = Requested(c).rpc /\ used[c].maxRpc = Requested(c).maxRpc
        BY <1>5, <2>1, <2>2 DEF OwnKeptOf
      <3>2. Current(c) = Requested(c) /\ Requested(c) \in Backoff
        BY <2>2, <3>1, RequestedOwn DEF Current
      <3>3. used'[c] = Requested(c)
        BY <1>5, <2>2, <3>1, <3>2, SameBackoff
      <3> QED BY <1>1, <1>3, <2>2, <3>1, <3>3 DEF OwnKeptOf
    <2>3. CASE d = c /\ ~Retries(CodesOf(c))
      BY <1>3, <2>3 DEF OwnKeptOf
    <2>4. CASE d # c
      BY <1>1, <1>3, <1>4, <2>1, <2>4 DEF OwnKeptOf
    <2> QED BY <2>2, <2>3, <2>4
  <1>8. Origin'
    BY <1>1, <1>2 DEF SettingsInv, Origin
  <1>9. SharedKept'
    <2> SUFFICES ASSUME NEW d \in Calls, Writer(d), undisturbed'[d] PROVE SharedKeptOf(d)'
      BY DEF SharedKept
    <2>1. SharedKeptOf(d)
      BY <1>1 DEF SettingsInv, SharedKept
    <2>2. CASE d = c /\ Retries(CodesOf(c))
      <3>1. Current(c) = shared[m] /\ shared[m] # Null
        BY <1>5, <2>2, NullAssumption DEF Writer, Current
      <3>2. Comes(stage', m, shared[m].maxRetries)
        BY <1>1, <1>2, <3>1 DEF SettingsInv, Origin
      <3> QED BY <1>3, <1>5, <2>1, <2>2, <3>1, <3>2 DEF SharedKeptOf
    <2>3. CASE d = c /\ ~Retries(CodesOf(c))
      BY <1>3, <2>3 DEF SharedKeptOf
    <2>4. CASE d # c
      BY <1>1, <1>2, <1>3, <1>4, <2>1, <2>4 DEF SharedKeptOf
    <2> QED BY <2>2, <2>3, <2>4
  <1> QED BY <1>6, <1>7, <1>8, <1>9 DEF SettingsInv

LEMMA RetrySettings ==
    ASSUME TypeInv, SettingsInv, NEW c \in Calls, Retry(c)
    PROVE  SettingsInv'
  <1> USE DEF TypeInv
  <1>1. /\ stage[c] = "invoked"
        /\ stage' = [stage EXCEPT ![c] = "retried"]
        /\ UNCHANGED <<shared, own, timeout, used, undisturbed>>
    BY DEF Retry
  <1>2. \A k, j : Comes(stage, k, j) => Comes(stage', k, j)
    BY <1>1, ComesStays DEF Stages
  <1>3. stage'[c] = "retried" /\ \A d \in Calls \ {c} : stage'[d] = stage[d]
    BY <1>1 DEF TypeOK
  <1>4. TimeoutKept'
    BY <1>1, <1>3 DEF SettingsInv, TimeoutKept
  <1>5. OwnKept'
    BY <1>1, <1>3 DEF SettingsInv, OwnKept, OwnKeptOf
  <1>6. Origin'
    BY <1>1, <1>2 DEF SettingsInv, Origin
  <1>7. SharedKept'
    BY <1>1, <1>2, <1>3 DEF SettingsInv, SharedKept, SharedKeptOf
  <1> QED BY <1>4, <1>5, <1>6, <1>7 DEF SettingsInv

(* A call that brings its own backoffSettings works with exactly what it    *)
(* asked for; a call of a method that is retried by default has its own     *)
(* timeouts unless another call of the method came in between, and a        *)
(* maxRetries that is not its own was asked for by an earlier call of the   *)
(* method (gax.ts:212-238, 262-265, createApiCall.ts:83-112).               *)
THEOREM UndisturbedCalls == Spec => []UndisturbedCallHasItsSettings
  <1>1. ASSUME TypeInv, SettingsInv, [Next]_vars PROVE SettingsInv'
    <2>1. CASE UNCHANGED vars
      BY <1>1, <2>1 DEF vars, SettingsInv, TimeoutKept, OwnKept, OwnKeptOf, Origin, SharedKept,
                        SharedKeptOf
    <2>2. CASE Next
      BY <1>1, <2>2, MergeSettings, WrapSettings, InvokeSettings, RetrySettings DEF Next
    <2> QED BY <1>1, <2>1, <2>2
  <1>2. ASSUME TypeInv, SettingsInv PROVE UndisturbedCallHasItsSettings
    <2> SUFFICES ASSUME NEW c \in Calls, Loops(c)
                 PROVE  /\ Source(c) = "own" => used[c] = Requested(c)
                        /\ OptionsOf[c].given /\ undisturbed[c]
                              /\ Retries(DefaultCodes(MethodOf[c])) =>
                              /\ used[c].rpc = Requested(c).rpc
                              /\ used[c].maxRpc = Requested(c).maxRpc
                              /\ used[c].total = Requested(c).total
                              /\ used[c].maxRetries # Requested(c).maxRetries =>
                                    \E d \in Calls \ {c} :
                                        /\ MethodOf[d] = MethodOf[c]
                                        /\ stage[d] # "new" /\ OptionsOf[d].given
                                        /\ OptionsOf[d].maxRetries = used[c].maxRetries
      BY DEF UndisturbedCallHasItsSettings
    <2>1. stage[c] \in {"invoked", "retried"} /\ Retries(CodesOf(c)) /\ Source(c) # "none"
      BY <1>2 DEF Loops, TypeInv, Ordered, OrderedOf
    <2>2. Source(c) = "own" => used[c] = Requested(c)
      BY <1>2, <2>1 DEF SettingsInv, OwnKept, OwnKeptOf
    <2>3. ASSUME Writer(c), undisturbed[c]
          PROVE  /\ used[c].rpc = Requested(c).rpc /\ used[c].maxRpc = Requested(c).maxRpc
                 /\ used[c].total = Requested(c).total
                 /\ used[c].maxRetries # Requested(c).maxRetries =>
                       \E d \in Calls \ {c} :
                           /\ MethodOf[d] = MethodOf[c]
                           /\ stage[d] # "new" /\ OptionsOf[d].given
                           /\ OptionsOf[d].maxRetries = used[c].maxRetries
      <3>1. SharedKeptOf(c)
        BY <1>2, <2>3 DEF SettingsInv, SharedKept
      <3>2. /\ used[c].rpc = Requested(c).rpc /\ used[c].maxRpc = Requested(c).maxRpc
            /\ used[c].total = Requested(c).total
        BY <2>1, <3>1 DEF SharedKeptOf
      <3>3. ASSUME used[c].maxRetries # Requested(c).maxRetries
            PROVE  \E d \in Calls \ {c} :
                      /\ MethodOf[d] = MethodOf[c]
                      /\ stage[d] # "new" /\ OptionsOf[d].given
                      /\ OptionsOf[d].maxRetries = used[c].maxRetries
        <4>1. OptionsOf[c].maxRetries = Unset
          BY <2>1, <2>3, <3>1, <3>3, RequestedShared DEF SharedKeptOf
        <4>2. used[c].maxRetries # DefaultBackoff(MethodOf[c]).maxRetries
          BY <2>3, <3>3, <4>1, RequestedShared
        <4>3. Comes(stage, MethodOf[c], used[c].maxRetries)
          BY <2>1, <3>1 DEF SharedKeptOf
        <4> QED BY <4>1, <4>2, <4>3 DEF Comes
      <3> QED BY <3>2, <3>3
    <2>4. CASE Source(c) = "own"
      BY <2>2, <2>4
    <2>5. CASE Source(c) = "shared"
      BY <2>3, <2>5 DEF Writer
    <2> QED BY <2>1, <2>4, <2>5, SourceExists
  <1> QED BY <1>1, <1>2, InitSettings, TypeInvariant, PTL DEF Spec

=============================================================================
