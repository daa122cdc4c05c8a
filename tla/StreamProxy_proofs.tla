-------------------------- MODULE StreamProxy_proofs --------------------------
(***************************************************************************)
(* Theorems about streaming calls.  Those over gRPC, for any messages and   *)
(* any options of retry-request; and those over REST, for any objects whose text   *)
(* nests as JSON does and any way to cut the body into chunks.              *)
(***************************************************************************)
EXTENDS StreamProxy, Encoding_proofs

-----------------------------------------------------------------------------
(* Counting the events of a user.                                           *)

EventNames == {"metadata", "response", "status", "end", "error"}

LEMMA CountIsNat ==
    ASSUME NEW S, NEW s \in Seq(S), NEW x
    PROVE  /\ IsFiniteSet({i \in DOMAIN s : s[i] = x})
           /\ Count(s, x) \in Nat
<1>1. DOMAIN s = 1 .. Len(s) /\ Len(s) \in Nat
  OBVIOUS
<1>2. IsFiniteSet(1 .. Len(s))
  BY <1>1, FS_Interval
<1>3. IsFiniteSet({i \in DOMAIN s : s[i] = x})
  BY <1>1, <1>2, FS_Subset
<1> QED
  BY <1>3, FS_CardinalityType DEF Count

LEMMA CountOfNone ==
    ASSUME NEW x PROVE Count(<<>>, x) = 0
<1>1. {i \in DOMAIN <<>> : <<>>[i] = x} = {}
  OBVIOUS
<1> QED
  BY <1>1, FS_EmptySet DEF Count

LEMMA CountAppend ==
    ASSUME NEW S, NEW s \in Seq(S), NEW e \in S, NEW x
    PROVE  Count(Append(s, e), x) = Count(s, x) + (IF e = x THEN 1 ELSE 0)
<1> DEFINE A == {i \in DOMAIN s : s[i] = x}
           B == {i \in DOMAIN Append(s, e) : Append(s, e)[i] = x}
           n == Len(s) + 1
<1>1. IsFiniteSet(A) /\ Cardinality(A) \in Nat
  BY CountIsNat DEF Count
<1>2. Len(s) \in Nat /\ n \notin A
  OBVIOUS
<1>3. CASE e = x
  <2>1. B = A \cup {n}
    BY <1>3
  <2>2. Cardinality(A \cup {n}) = Cardinality(A) + 1
    BY <1>1, <1>2, FS_AddElement
  <2> QED
    BY <1>3, <2>1, <2>2 DEF Count
<1>4. CASE e # x
  <2>1. B = A
    BY <1>4
  <2>2. Count(s, x) \in Nat /\ Count(Append(s, e), x) = Count(s, x)
    BY <1>1, <2>1 DEF Count
  <2> QED
    BY <1>4, <2>2
<1> QED
  BY <1>3, <1>4

LEMMA AppendedMembers ==
    ASSUME NEW S, NEW s \in Seq(S), NEW e \in S
    PROVE  /\ Append(s, e) \in Seq(S)
           /\ ToSet(Append(s, e)) = ToSet(s) \cup {e}
<1>1. Append(s, e) \in Seq(S) /\ Len(Append(s, e)) = Len(s) + 1 /\ Len(s) \in Nat
  OBVIOUS
<1>2. \A i \in DOMAIN s : i \in DOMAIN Append(s, e) /\ Append(s, e)[i] = s[i]
  OBVIOUS
<1>3. Len(s) + 1 \in DOMAIN Append(s, e) /\ Append(s, e)[Len(s) + 1] = e
  OBVIOUS
<1>4. \A i \in DOMAIN Append(s, e) : Append(s, e)[i] \in ToSet(s) \cup {e}
  BY DEF ToSet
<1>5. ToSet(Append(s, e)) \subseteq ToSet(s) \cup {e}
  BY <1>4 DEF ToSet
<1>6. ToSet(s) \subseteq ToSet(Append(s, e))
  BY <1>2 DEF ToSet
<1>7. e \in ToSet(Append(s, e))
  BY <1>3 DEF ToSet
<1> QED
  BY <1>1, <1>5, <1>6, <1>7

LEMMA ConcatIsAppend ==
    ASSUME NEW S, NEW s \in Seq(S), NEW a \in S, NEW b \in S
    PROVE  /\ s \o <<a>> = Append(s, a)
           /\ s \o <<a, b>> = Append(Append(s, a), b)
OBVIOUS

-----------------------------------------------------------------------------
(* The first messages of the server.                                        *)

Seen(n) == SubSeq(Messages, 1, n)

LEMMA SeenGrows ==
    ASSUME NEW n \in 0 .. Len(Messages)
    PROVE  /\ Seen(n) \in Seq(ToSet(Messages))
           /\ IsPrefix(Seen(n), Messages)
           /\ n < Len(Messages) => Append(Seen(n), Messages[n + 1]) = Seen(n + 1)
<1>1. Messages \in Seq(ToSet(Messages)) /\ Len(Messages) \in Nat
  BY MessagesAssumption
<1>2. Seen(n) \in Seq(ToSet(Messages)) /\ Len(Seen(n)) = n
  BY <1>1 DEF Seen
<1>3. SubSeq(Seen(n), 1, n) = Seen(n)
  BY <1>1, <1>2 DEF Seen
<1>4. IsPrefix(Seen(n), Messages)
  BY <1>1, <1>2, <1>3 DEF IsPrefix, Seen
<1>5. n < Len(Messages) => Append(Seen(n), Messages[n + 1]) = Seen(n + 1)
  BY <1>1 DEF Seen
<1> QED
  BY <1>2, <1>4, <1>5

LEMMA SeenEnds ==
    Seen(0) = <<>> /\ Seen(Len(Messages)) = Messages
BY MessagesAssumption DEF Seen

-----------------------------------------------------------------------------
(* The events so far, as a count: of an event that is appended, of the      *)
(* events of a 'status'.                                                    *)

LEMMA EarlyAppend ==
    ASSUME NEW S, NEW s \in Seq(S), NEW e \in S
    PROVE  LET early == Cardinality(EarlyStatuses(s)) IN
           /\ early \in Nat
           /\ Cardinality(EarlyStatuses(Append(s, e))) =
                 early + (IF e = "status" /\ "metadata" \notin ToSet(s) THEN 1 ELSE 0)
<1> DEFINE A == EarlyStatuses(s)
           t == Append(s, e)
           B == EarlyStatuses(t)
           n == Len(s) + 1
<1>1. /\ Len(s) \in Nat /\ DOMAIN s = 1 .. Len(s) /\ DOMAIN t = 1 .. n
      /\ \A i \in 1 .. Len(s) : t[i] = s[i]
      /\ t[n] = e
  OBVIOUS
<1>2. IsFiniteSet(A) /\ Cardinality(A) \in Nat /\ n \notin A
  <2>1. A \subseteq 1 .. Len(s)
    BY <1>1 DEF EarlyStatuses
  <2>2. IsFiniteSet(1 .. Len(s)) /\ n \notin 1 .. Len(s)
    BY <1>1, FS_Interval
  <2> HIDE DEF A
  <2>3. IsFiniteSet(A)
    BY <2>1, <2>2, FS_Subset
  <2> QED
    BY <2>1, <2>2, <2>3, FS_CardinalityType
<1>3. \A i \in 1 .. Len(s) : i \in A <=> i \in B
  BY <1>1 DEF EarlyStatuses
<1>4. A \subseteq 1 .. Len(s) /\ B \subseteq 1 .. n
  BY <1>1 DEF EarlyStatuses
<1>5. n \in B <=> e = "status" /\ "metadata" \notin ToSet(s)
  <2>1. n \in B <=> e = "status" /\ \A j \in 1 .. n : t[j] # "metadata"
    BY <1>1 DEF EarlyStatuses
  <2>2. "metadata" \notin ToSet(s) <=> \A j \in 1 .. Len(s) : s[j] # "metadata"
    BY <1>1 DEF ToSet
  <2>3. e = "status" => e # "metadata"
    OBVIOUS
  <2> QED
    BY <1>1, <2>1, <2>2, <2>3
<1>6. Cardinality(B) = Cardinality(A)
                       + (IF e = "status" /\ "metadata" \notin ToSet(s) THEN 1 ELSE 0)
  <2> HIDE DEF A, B, t
  <2>1. CASE n \in B
    <3>1. B = A \cup {n}
      <4>1. 1 .. n = (1 .. Len(s)) \cup {n}
        BY <1>1
      <4> QED
        BY <1>3, <1>4, <2>1, <4>1
    <3>2. Cardinality(A \cup {n}) = Cardinality(A) + 1
      BY <1>2, FS_AddElement
    <3> QED
      BY <1>5, <2>1, <3>1, <3>2
  <2>2. CASE n \notin B
    <3>1. B = A
      <4>1. 1 .. n = (1 .. Len(s)) \cup {n}
        BY <1>1
      <4> QED
        BY <1>3, <1>4, <2>2, <4>1
    <3> QED
      BY <1>2, <1>5, <2>2, <3>1
  <2> QED
    BY <2>1, <2>2
<1> QED
  BY <1>2, <1>6

(* What the invariant says of events is about these numbers.                *)
Statuses(s)  == Count(s, "status")
Responses(s) == Count(s, "response")
Metadatas(s) == Count(s, "metadata")
Early(s)     == Cardinality(EarlyStatuses(s))

Tallied(s) == {Statuses(s), Responses(s), Metadatas(s), Early(s)} \subseteq Nat

SameTally(s, t) ==
    /\ Statuses(s) = Statuses(t) /\ Responses(s) = Responses(t)
    /\ Metadatas(s) = Metadatas(t) /\ Early(s) = Early(t)

LEMMA NothingTallied ==
    /\ Statuses(<<>>) = 0 /\ Responses(<<>>) = 0 /\ Metadatas(<<>>) = 0 /\ Early(<<>>) = 0
    /\ ToSet(<<>>) = {}
<1>1. EarlyStatuses(<<>>) = {} /\ ToSet(<<>>) = {}
  BY DEF EarlyStatuses, ToSet
<1> QED
  BY <1>1, CountOfNone, FS_EmptySet DEF Statuses, Responses, Metadatas, Early

LEMMA OneEventMore ==
    ASSUME NEW s \in Seq(EventNames), NEW e \in EventNames
    PROVE  LET t == Append(s, e) IN
           /\ t \in Seq(EventNames)
           /\ ToSet(t) = ToSet(s) \cup {e}
           /\ Tallied(s)
           /\ Statuses(t) = Statuses(s) + (IF e = "status" THEN 1 ELSE 0)
           /\ Responses(t) = Responses(s) + (IF e = "response" THEN 1 ELSE 0)
           /\ Metadatas(t) = Metadatas(s) + (IF e = "metadata" THEN 1 ELSE 0)
           /\ Early(t) = Early(s) + (IF e = "status" /\ "metadata" \notin ToSet(s) THEN 1 ELSE 0)
<1> DEFINE t == Append(s, e)
<1>1. t \in Seq(EventNames) /\ ToSet(t) = ToSet(s) \cup {e}
  BY AppendedMembers
<1>2. Statuses(s) \in Nat /\ Responses(s) \in Nat /\ Metadatas(s) \in Nat
  BY CountIsNat DEF Statuses, Responses, Metadatas
<1>3. Statuses(t) = Statuses(s) + (IF e = "status" THEN 1 ELSE 0)
  BY CountAppend DEF Statuses
<1>4. Responses(t) = Responses(s) + (IF e = "response" THEN 1 ELSE 0)
  BY CountAppend DEF Responses
<1>5. Metadatas(t) = Metadatas(s) + (IF e = "metadata" THEN 1 ELSE 0)
  BY CountAppend DEF Metadatas
<1>6. /\ Early(s) \in Nat
      /\ Early(t) = Early(s) + (IF e = "status" /\ "metadata" \notin ToSet(s) THEN 1 ELSE 0)
  BY EarlyAppend DEF Early
<1> QED
  BY <1>1, <1>2, <1>3, <1>4, <1>5, <1>6 DEF Tallied

(* Two events that are appended when an attempt has its response.           *)
LEMMA ResponseTallied ==
    ASSUME NEW s \in Seq(EventNames)
    PROVE  LET t == s \o <<"metadata", "response">> IN
           /\ t \in Seq(EventNames)
           /\ ToSet(t) = ToSet(s) \cup {"metadata", "response"}
           /\ Statuses(t) = Statuses(s) /\ Early(t) = Early(s)
           /\ Responses(t) = Responses(s) + 1 /\ Metadatas(t) = Metadatas(s) + 1
<1> DEFINE one == Append(s, "metadata")
           two == Append(one, "response")
<1>1. "metadata" \in EventNames /\ "response" \in EventNames
  BY DEF EventNames
<1>2. /\ one \in Seq(EventNames) /\ ToSet(one) = ToSet(s) \cup {"metadata"}
      /\ Tallied(s)
      /\ Statuses(one) = Statuses(s) + 0 /\ Responses(one) = Responses(s) + 0
      /\ Metadatas(one) = Metadatas(s) + 1 /\ Early(one) = Early(s) + 0
  BY <1>1, OneEventMore
<1>3. s \o <<"metadata", "response">> = two
  BY <1>1, ConcatIsAppend
<1> HIDE DEF one
<1>4. /\ two \in Seq(EventNames) /\ ToSet(two) = ToSet(one) \cup {"response"}
      /\ Statuses(two) = Statuses(one) + 0 /\ Responses(two) = Responses(one) + 1
      /\ Metadatas(two) = Metadatas(one) + 0 /\ Early(two) = Early(one) + 0
  BY <1>1, <1>2, OneEventMore
<1> HIDE DEF two
<1>5. Statuses(s) \in Nat /\ Responses(s) \in Nat /\ Metadatas(s) \in Nat /\ Early(s) \in Nat
  BY <1>2 DEF Tallied
<1>6. /\ Statuses(two) = Statuses(s) /\ Early(two) = Early(s)
      /\ Responses(two) = Responses(s) + 1 /\ Metadatas(two) = Metadatas(s) + 1
  BY <1>2, <1>4, <1>5
<1>7. ToSet(two) = ToSet(s) \cup {"metadata", "response"}
  BY <1>2, <1>4
<1> QED
  BY <1>3, <1>4, <1>6, <1>7

(* The events of a 'status' of an attempt: a status, and a response if no   *)
(* attempt has had 'metadata'.                                              *)
LEMMA StatusTallied ==
    ASSUME NEW s \in Seq(EventNames), responseHasSent \in BOOLEAN,
           responseHasSent <=> "metadata" \in ToSet(s)
    PROVE  LET t == s \o StatusEvents
               n == IF responseHasSent THEN 0 ELSE 1 IN
           /\ t \in Seq(EventNames)
           /\ ToSet(t) = ToSet(s) \cup (IF responseHasSent THEN {"status"}
                                        ELSE {"status", "response"})
           /\ Tallied(s)
           /\ Statuses(t) = Statuses(s) + 1 /\ Metadatas(t) = Metadatas(s)
           /\ Responses(t) = Responses(s) + n /\ Early(t) = Early(s) + n
<1> DEFINE one == Append(s, "status")
           two == Append(one, "response")
           n == IF responseHasSent THEN 0 ELSE 1
<1>1. "status" \in EventNames /\ "response" \in EventNames
  BY DEF EventNames
<1>2. /\ one \in Seq(EventNames) /\ ToSet(one) = ToSet(s) \cup {"status"}
      /\ Tallied(s)
      /\ Statuses(one) = Statuses(s) + 1 /\ Responses(one) = Responses(s) + 0
      /\ Metadatas(one) = Metadatas(s) + 0
      /\ Early(one) = Early(s) + (IF "metadata" \notin ToSet(s) THEN 1 ELSE 0)
  BY <1>1, OneEventMore
<1>3. s \o <<"status">> = one /\ s \o <<"status", "response">> = two
  BY <1>1, ConcatIsAppend
<1> HIDE DEF one
<1>4. /\ two \in Seq(EventNames) /\ ToSet(two) = ToSet(one) \cup {"response"}
      /\ Statuses(two) = Statuses(one) + 0 /\ Responses(two) = Responses(one) + 1
      /\ Metadatas(two) = Metadatas(one) + 0 /\ Early(two) = Early(one) + 0
  BY <1>1, <1>2, OneEventMore
<1> HIDE DEF two
<1>5. CASE responseHasSent
  <2>1. s \o StatusEvents = one
    BY <1>3, <1>5 DEF StatusEvents
  <2> QED
    BY <1>2, <1>5, <2>1 DEF Tallied
<1>6. CASE ~responseHasSent
  <2>1. s \o StatusEvents = two
    BY <1>3, <1>6 DEF StatusEvents
  <2> QED
    BY <1>2, <1>4, <1>6, <2>1 DEF Tallied
<1> QED
  BY <1>5, <1>6

-----------------------------------------------------------------------------
(* The inductive invariant of a gRPC stream.                                *)

Steps == {"none", "open", "reset", "closed"}

GrpcTypes ==
    /\ kind \in {"server", "client", "bidi"}
    /\ kind = "server" => retryRequestOptions \in RetryOptions
    /\ stage \in {"created", "running", "retrying", "late", "crashed", "over"}
    /\ stream \in [step : Steps, cancelled : BOOLEAN, received : 0 .. Len(Messages)]
    /\ isCancelCalled \in BOOLEAN /\ responseHasSent \in BOOLEAN
    /\ handled \in BOOLEAN /\ cancelled \in BOOLEAN
    /\ attempts \in Nat
    /\ events \in Seq(EventNames)

MayRetryResponse == kind = "server" /\ TRUE \in retryRequestOptions.shouldRetryFn

(* No API stream has been asked for, though the stub may be ready.          *)
NotAsked ==
    /\ stream = NoStream /\ attempts = 0 /\ events = <<>>
    /\ isCancelCalled = cancelled /\ ~responseHasSent /\ ~handled

(* What each stage says of the API stream.  One that runs has had its own   *)
(* response as soon as there has been any, unless responses are retried.    *)
GrpcStages ==
    /\ stage = "created" => NotAsked
    /\ stage = "retrying" => kind = "server" /\ (stream.step = "none" => NotAsked)
    /\ stream.step # "none" => attempts > 0
    /\ stream.step = "open" => stage = "running" /\ (handled => responseHasSent)
    /\ stage = "running" => stream.step = "open" \/ (IsSwallowed /\ kind = "server")
    /\ stream.step = "reset" => stage \in {"retrying", "late"} /\ responseHasSent
    /\ ~MayRetryResponse =>
          /\ stream.step # "reset"
          /\ stage = "retrying" => ~responseHasSent
          /\ stream.step = "open" /\ responseHasSent => handled
    /\ attempts = 1 /\ cancelled /\ stream.step = "open" => stream.cancelled

Unfinished == stream.step \in {"open", "reset"}

(* The events so far: for every attempt that has ended a status, and the    *)
(* responses of RespondsOncePerAttempt.                                     *)
GrpcEvents ==
    /\ Statuses(events) = attempts - (IF Unfinished THEN 1 ELSE 0)
    /\ Responses(events) = Metadatas(events) + Early(events)
    /\ ~MayRetryResponse =>
          Responses(events) = Statuses(events)
                              + (IF Unfinished /\ responseHasSent THEN 1 ELSE 0)
    /\ responseHasSent <=> "metadata" \in ToSet(events)
    /\ responseHasSent => "response" \in ToSet(events)
    /\ "end" \in ToSet(events) => stage = "over"

(* Where the messages of the current attempt are: with the user, or held    *)
(* back as long as there has been no response.                              *)
GrpcMessages ==
    /\ stage \in {"created", "retrying"} => held = <<>> /\ data = <<>>
    /\ stage = "running" =>
          /\ Connected => held = <<>> /\ data = Seen(stream.received)
          /\ ~Connected => data = <<>> /\ held = Seen(stream.received)
          /\ kind = "client" => stream.received = 0
    /\ stage \notin {"created", "running", "retrying"} => IsPrefix(data, Messages)
    /\ "end" \in ToSet(events) =>
          /\ kind \in {"server", "bidi"} => data = Messages
          /\ {"response", "status"} \subseteq ToSet(events)

GrpcInv == GrpcTypes /\ GrpcStages /\ GrpcEvents /\ GrpcMessages

Inductive == kind \in Kinds /\ (kind # "rest" => GrpcInv)

LEMMA InitInductive == Init => Inductive
<1> SUFFICES ASSUME Init PROVE Inductive
  OBVIOUS
<1>1. kind \in Kinds /\ (kind # "rest" => kind \in {"server", "client", "bidi"})
  BY KindsAssumption DEF Init
<1>2. NoStream \in [step : Steps, cancelled : BOOLEAN, received : 0 .. Len(Messages)]
      /\ NoStream.step = "none"
  BY MessagesAssumption DEF NoStream, Steps
<1>3. /\ stage = "created" /\ stream = NoStream /\ events = <<>> /\ attempts = 0
      /\ isCancelCalled = FALSE /\ responseHasSent = FALSE /\ handled = FALSE
      /\ cancelled = FALSE /\ held = <<>> /\ data = <<>>
      /\ kind = "server" => retryRequestOptions \in RetryOptions
  BY DEF Init
<1>4. ASSUME kind # "rest" PROVE GrpcTypes
  <2>1. events \in Seq(EventNames)
    BY <1>3
  <2> QED
    BY <1>1, <1>2, <1>3, <1>4, <2>1 DEF GrpcTypes
<1>5. GrpcStages
  BY <1>2, <1>3 DEF GrpcStages, NotAsked
<1>6. GrpcEvents
  BY <1>2, <1>3, NothingTallied DEF GrpcEvents, Unfinished
<1>7. GrpcMessages
  BY <1>3, NothingTallied DEF GrpcMessages
<1> QED
  BY <1>1, <1>4, <1>5, <1>6, <1>7 DEF Inductive, GrpcInv

-----------------------------------------------------------------------------
(* One step of a gRPC stream.                                               *)

(* An API stream is opened, by setStream or by a timer.                     *)
LEMMA OpenKeeps ==
    ASSUME GrpcInv, NEW c \in BOOLEAN, Open(c), stage \in {"created", "retrying"},
           stream.step # "reset", handled' = FALSE,
           NotAsked => c = cancelled,
           UNCHANGED <<call, isCancelCalled, responseHasSent, held, events, data, cancelled>>
    PROVE  GrpcInv'
<1>1. /\ stream' = [step |-> "open", cancelled |-> c, received |-> 0]
      /\ attempts' = attempts + 1 /\ stage' = "running"
      /\ UNCHANGED <<kind, retryRequestOptions>> /\ ~handled'
  BY DEF Open, call
<1>2. Len(Messages) \in Nat
  BY MessagesAssumption
<1>3. GrpcTypes'
  <2>1. stream' \in [step : Steps, cancelled : BOOLEAN, received : 0 .. Len(Messages)]
    BY <1>1, <1>2 DEF Steps
  <2>2. isCancelCalled' \in BOOLEAN /\ responseHasSent' \in BOOLEAN /\ cancelled' \in BOOLEAN
        /\ attempts' \in Nat /\ events' \in Seq(EventNames)
    BY <1>1 DEF GrpcInv, GrpcTypes
  <2> QED
    BY <1>1, <2>1, <2>2 DEF GrpcInv, GrpcTypes
<1>4. /\ attempts \in Nat /\ (NotAsked => attempts = 0) /\ (attempts = 0 => NotAsked)
      /\ stream.step \notin {"open", "reset"}
      /\ NotAsked => ~responseHasSent
      /\ ~MayRetryResponse => ~responseHasSent
      /\ held = <<>> /\ data = <<>> /\ "end" \notin ToSet(events)
  BY DEF GrpcInv, GrpcTypes, GrpcStages, NotAsked, GrpcMessages, GrpcEvents
<1>5. stream'.step = "open" /\ stream'.cancelled = c /\ stream'.received = 0
      /\ MayRetryResponse' = MayRetryResponse
  BY <1>1 DEF MayRetryResponse
<1>6. GrpcStages'
  <2>1. attempts + 1 > 0 /\ (attempts + 1 = 1 => NotAsked)
    BY <1>4
  <2>2. attempts' = 1 /\ cancelled' => stream'.cancelled
    BY <1>1, <1>5, <2>1
  <2> QED
    BY <1>1, <1>4, <1>5, <2>1, <2>2 DEF GrpcStages
<1>7. GrpcEvents'
  <2>1. /\ Statuses(events) = attempts - 0
        /\ Responses(events) = Metadatas(events) + Early(events)
        /\ ~MayRetryResponse => Responses(events) = Statuses(events) + 0
        /\ responseHasSent <=> "metadata" \in ToSet(events)
        /\ responseHasSent => "response" \in ToSet(events)
    BY <1>4 DEF GrpcInv, GrpcEvents, Unfinished
  <2>2. Unfinished' /\ Statuses(events) = (attempts + 1) - 1
    BY <1>4, <1>5, <2>1 DEF Unfinished
  <2> QED
    BY <1>1, <1>4, <1>5, <2>1, <2>2 DEF GrpcEvents
<1>8. GrpcMessages'
  BY <1>1, <1>4, <1>5, SeenEnds DEF GrpcMessages
<1> QED
  BY <1>3, <1>6, <1>7, <1>8 DEF GrpcInv

(* Without an API stream the stream ends with an error, or stops for ever.  *)
LEMMA EarlyErrorKeeps ==
    ASSUME GrpcInv, stage = "created", EndWith("error"),
           UNCHANGED <<call, isCancelCalled, stream, responseHasSent, handled, held,
                       attempts, data, cancelled>>
    PROVE  GrpcInv'
<1>1. /\ stage' = "over" /\ events' = Append(events, "error")
      /\ UNCHANGED <<kind, retryRequestOptions>>
  BY DEF EndWith, call
<1>2. /\ NotAsked /\ stream.step = "none" /\ stream'.step = "none"
      /\ events \in Seq(EventNames) /\ "error" \in EventNames
      /\ MayRetryResponse' = MayRetryResponse
  BY <1>1 DEF GrpcInv, GrpcTypes, GrpcStages, EventNames, NotAsked, NoStream, MayRetryResponse
<1>3. /\ events' \in Seq(EventNames)
      /\ ToSet(events') = {"error"}
      /\ Statuses(events') = 0 /\ Responses(events') = 0 /\ Metadatas(events') = 0
      /\ Early(events') = 0
  <2> DEFINE t == Append(events, "error")
  <2>1. /\ ToSet(events) = {} /\ Statuses(events) = 0 /\ Responses(events) = 0
        /\ Metadatas(events) = 0 /\ Early(events) = 0
    BY <1>2, NothingTallied DEF NotAsked
  <2>2. /\ t \in Seq(EventNames) /\ ToSet(t) = ToSet(events) \cup {"error"}
        /\ Statuses(t) = Statuses(events) + 0 /\ Responses(t) = Responses(events) + 0
        /\ Metadatas(t) = Metadatas(events) + 0 /\ Early(t) = Early(events) + 0
    BY <1>2, OneEventMore
  <2> QED
    BY <1>1, <2>1, <2>2
<1>4. GrpcTypes'
  BY <1>1, <1>3 DEF GrpcInv, GrpcTypes
<1>5. GrpcStages'
  BY <1>1, <1>2 DEF GrpcStages
<1>6. GrpcEvents'
  <2>1. ~Unfinished' /\ attempts' = 0 /\ ~responseHasSent'
    BY <1>2 DEF NotAsked, Unfinished
  <2> QED
    BY <1>1, <1>3, <2>1 DEF GrpcEvents
<1>7. GrpcMessages'
  <2>1. data = <<>> /\ 0 \in 0 .. Len(Messages)
    BY MessagesAssumption DEF GrpcInv, GrpcMessages
  <2>2. IsPrefix(<<>>, Messages)
    BY <2>1, SeenEnds, SeenGrows
  <2> QED
    BY <1>1, <1>3, <2>1, <2>2 DEF GrpcMessages
<1> QED
  BY <1>4, <1>5, <1>6, <1>7 DEF GrpcInv

(* A request that is made later, or never, by a timer.                      *)
LEMMA NoRequestKeeps ==
    ASSUME GrpcInv, stream.step = "none", NotAsked, kind = "server",
           stage \in {"created", "retrying"}, stage' \in {"retrying", "crashed"},
           UNCHANGED <<call, isCancelCalled, stream, responseHasSent, handled, held,
                       attempts, events, data, cancelled>>
    PROVE  GrpcInv'
<1>1. UNCHANGED <<kind, retryRequestOptions>>
  BY DEF call
<1>2. GrpcTypes'
  BY <1>1 DEF GrpcInv, GrpcTypes
<1>3. GrpcStages'
  BY <1>1 DEF GrpcInv, GrpcStages, NotAsked, MayRetryResponse
<1>4. GrpcEvents'
  BY <1>1 DEF GrpcInv, GrpcEvents, MayRetryResponse, Unfinished
<1>5. GrpcMessages'
  <2>1. data = <<>> /\ held = <<>> /\ "end" \notin ToSet(events)
    BY DEF GrpcInv, GrpcMessages, GrpcEvents
  <2>2. IsPrefix(<<>>, Messages)
    BY SeenEnds, SeenGrows, MessagesAssumption
  <2> QED
    BY <2>1, <2>2 DEF GrpcMessages
<1> QED
  BY <1>2, <1>3, <1>4, <1>5 DEF GrpcInv

LEMMA SetStreamKeeps ==
    ASSUME GrpcInv, kind # "rest", SetStream PROVE GrpcInv'
<1>1. /\ stage = "created" /\ handled = FALSE
      /\ NotAsked /\ stream.step = "none" /\ isCancelCalled \in BOOLEAN /\ handled \in BOOLEAN
      /\ UNCHANGED <<call, isCancelCalled, responseHasSent, handled, held, data, cancelled>>
  BY DEF SetStream, GrpcInv, GrpcTypes, GrpcStages, NotAsked, NoStream
<1>2. CASE kind \in {"client", "bidi"} /\ Open(isCancelCalled) /\ UNCHANGED events
  BY <1>1, <1>2, OpenKeeps DEF NotAsked
<1>3. CASE ~isCancelCalled /\ Open(FALSE) /\ UNCHANGED events
  BY <1>1, <1>3, OpenKeeps DEF NotAsked
<1>4. CASE EndWith("error") /\ UNCHANGED <<stream, attempts>>
  BY <1>1, <1>4, EarlyErrorKeeps
<1>5. CASE kind = "server" /\ stage' = "retrying" /\ UNCHANGED <<stream, attempts, events>>
  BY <1>1, <1>5, NoRequestKeeps
<1> QED
  BY <1>2, <1>3, <1>4, <1>5 DEF SetStream

LEMMA FailKeeps ==
    ASSUME GrpcInv, Fail PROVE GrpcInv'
BY EarlyErrorKeeps DEF Fail

LEMMA RetryKeeps ==
    ASSUME GrpcInv, Retry PROVE GrpcInv'
<1>1. /\ stage = "retrying" /\ stream.step # "reset" /\ kind = "server"
      /\ isCancelCalled \in BOOLEAN
      /\ UNCHANGED <<call, isCancelCalled, responseHasSent, held, events, data, cancelled>>
  BY DEF Retry, GrpcInv, GrpcTypes, GrpcStages
<1>2. CASE ~isCancelCalled /\ Open(FALSE) /\ handled' = FALSE
  BY <1>1, <1>2, OpenKeeps DEF NotAsked
<1>3. CASE isCancelCalled /\ stage' = "crashed" /\ UNCHANGED <<stream, attempts, handled>>
  <2>1. CASE stream.step = "none"
    <3>1. NotAsked
      BY <1>1, <2>1 DEF GrpcInv, GrpcStages
    <3> QED
      BY <1>1, <1>3, <2>1, <3>1, NoRequestKeeps
  <2>2. CASE stream.step # "none"
    <3>1. UNCHANGED <<kind, retryRequestOptions>>
      BY <1>1 DEF call
    <3>2. GrpcTypes'
      BY <1>1, <1>3, <3>1 DEF GrpcInv, GrpcTypes
    <3>3. GrpcStages'
      BY <1>1, <1>3, <2>2, <3>1 DEF GrpcInv, GrpcStages, MayRetryResponse
    <3>4. GrpcEvents'
      BY <1>1, <1>3, <3>1 DEF GrpcInv, GrpcEvents, MayRetryResponse, Unfinished
    <3>5. GrpcMessages'
      <4>1. data = <<>> /\ "end" \notin ToSet(events)
        BY <1>1 DEF GrpcInv, GrpcMessages, GrpcEvents
      <4>2. IsPrefix(<<>>, Messages)
        BY SeenEnds, SeenGrows, MessagesAssumption
      <4> QED
        BY <1>1, <1>3, <4>1, <4>2 DEF GrpcMessages
    <3> QED
      BY <3>2, <3>3, <3>4, <3>5 DEF GrpcInv
  <2> QED
    BY <2>1, <2>2
<1> QED
  BY <1>1, <1>2, <1>3 DEF Retry

(* cancel(): remembered before there is an API stream, given to it after.   *)
LEMMA CancelKeeps ==
    ASSUME GrpcInv, kind # "rest", Cancel PROVE GrpcInv'
<1>1. /\ stage # "over" /\ cancelled' = TRUE
      /\ UNCHANGED <<kind, retryRequestOptions, stage, responseHasSent, handled, held, attempts,
                     events, data>>
  BY DEF Cancel, EndWith, call
<1>2. CASE stream = NoStream /\ isCancelCalled' = TRUE /\ UNCHANGED stream
  <2>1. stream.step = "none"
    BY <1>2 DEF NoStream
  <2>2. GrpcTypes'
    BY <1>1, <1>2 DEF GrpcInv, GrpcTypes
  <2>3. GrpcStages'
    BY <1>1, <1>2, <2>1 DEF GrpcInv, GrpcStages, NotAsked, MayRetryResponse, IsSwallowed
  <2>4. GrpcEvents'
    BY <1>1, <1>2 DEF GrpcInv, GrpcEvents, MayRetryResponse, Unfinished
  <2>5. GrpcMessages'
    BY <1>1, <1>2 DEF GrpcInv, GrpcMessages, Connected
  <2> QED
    BY <2>2, <2>3, <2>4, <2>5 DEF GrpcInv
<1>3. CASE /\ stream # NoStream /\ UNCHANGED isCancelCalled
           /\ stream' = [stream EXCEPT !.cancelled = TRUE]
  <2>1. /\ stream' \in [step : Steps, cancelled : BOOLEAN, received : 0 .. Len(Messages)]
        /\ stream'.step = stream.step /\ stream'.received = stream.received
        /\ stream'.cancelled
    BY <1>3 DEF GrpcInv, GrpcTypes
  <2>2. stage # "created" /\ (stage = "retrying" => stream.step # "none")
    BY <1>3 DEF GrpcInv, GrpcStages, NotAsked
  <2>3. GrpcTypes'
    BY <1>1, <1>3, <2>1 DEF GrpcInv, GrpcTypes
  <2>4. GrpcStages'
    BY <1>1, <2>1, <2>2 DEF GrpcInv, GrpcStages, MayRetryResponse, IsSwallowed
  <2>5. GrpcEvents'
    BY <1>1, <2>1 DEF GrpcInv, GrpcEvents, MayRetryResponse, Unfinished
  <2>6. GrpcMessages'
    BY <1>1, <2>1 DEF GrpcInv, GrpcMessages, Connected
  <2> QED
    BY <2>3, <2>4, <2>5, <2>6 DEF GrpcInv
<1> QED
  BY <1>2, <1>3 DEF Cancel

(* What is known of an attempt that has not ended, and of one that runs.    *)
LEMMA UnfinishedAttempt ==
    ASSUME GrpcInv, Unfinished
    PROVE  /\ attempts \in Nat /\ attempts > 0
           /\ responseHasSent \in BOOLEAN
           /\ events \in Seq(EventNames) /\ "end" \notin ToSet(events)
           /\ Statuses(events) = attempts - 1
           /\ Responses(events) = Metadatas(events) + Early(events)
           /\ ~MayRetryResponse =>
                 Responses(events) = Statuses(events) + (IF responseHasSent THEN 1 ELSE 0)
           /\ responseHasSent <=> "metadata" \in ToSet(events)
           /\ responseHasSent => "response" \in ToSet(events)
           /\ EventNames = {"metadata", "response", "status", "end", "error"}
BY DEF GrpcInv, GrpcTypes, GrpcStages, GrpcEvents, Unfinished, EventNames

LEMMA RunningAttempt ==
    ASSUME GrpcInv, Grpc
    PROVE  /\ Unfinished /\ stage = "running" /\ stream.step = "open"
           /\ stream.received \in 0 .. Len(Messages)
           /\ handled \in BOOLEAN /\ (handled => responseHasSent)
           /\ ~MayRetryResponse /\ responseHasSent => handled
           /\ Connected => held = <<>> /\ data = Seen(stream.received)
           /\ ~Connected => data = <<>> /\ held = Seen(stream.received)
           /\ kind = "client" => stream.received = 0
BY DEF GrpcInv, GrpcTypes, GrpcStages, GrpcMessages, Grpc, Unfinished

(* The listeners of 'metadata': the attempt has its response before any     *)
(* message.                                                                 *)
LEMMA MetadataKeeps ==
    ASSUME GrpcInv, Metadata PROVE GrpcInv'
<1>1. /\ Grpc /\ stream.received = 0 /\ ~handled
      /\ events' = events \o <<"metadata", "response">>
      /\ responseHasSent' = TRUE /\ handled' = TRUE
      /\ UNCHANGED <<kind, retryRequestOptions, isCancelCalled, held, attempts, data, cancelled>>
      /\ MayRetryResponse' = MayRetryResponse
  BY DEF Metadata, call, MayRetryResponse
<1>2. /\ Unfinished /\ stage = "running" /\ stream.step = "open"
      /\ ~MayRetryResponse => ~responseHasSent
      /\ data = <<>> /\ held = <<>>
      /\ attempts \in Nat /\ attempts > 0 /\ events \in Seq(EventNames)
      /\ "end" \notin ToSet(events)
  BY <1>1, RunningAttempt, UnfinishedAttempt, SeenEnds
<1>3. /\ events' \in Seq(EventNames)
      /\ ToSet(events') = ToSet(events) \cup {"metadata", "response"}
      /\ Statuses(events') = Statuses(events) /\ Early(events') = Early(events)
      /\ Responses(events') = Responses(events) + 1
      /\ Metadatas(events') = Metadatas(events) + 1
  BY <1>1, <1>2, ResponseTallied
<1>4. Tallied(events)
  BY <1>2, OneEventMore DEF EventNames
<1>5. /\ stream' \in [step : Steps, cancelled : BOOLEAN, received : 0 .. Len(Messages)]
      /\ stream'.received = 0
      /\ \/ stage' = "running" /\ stream' = stream
         \/ /\ stage' \in {"retrying", "late"} /\ stream'.step = "reset"
            /\ MayRetryResponse
  BY <1>1, <1>2 DEF Metadata, GrpcInv, GrpcTypes, RetriesResponse, RetryAfterDelay, Steps,
                    MayRetryResponse
<1>6. GrpcTypes'
  BY <1>1, <1>3, <1>5 DEF GrpcInv, GrpcTypes
<1>7. GrpcStages'
  BY <1>1, <1>2, <1>5 DEF GrpcInv, GrpcStages, MayRetryResponse
<1>8. GrpcEvents'
  <2>1. /\ Unfinished' /\ Statuses(events) = attempts - 1
        /\ Responses(events) = Metadatas(events) + Early(events)
        /\ ~MayRetryResponse => Responses(events) = Statuses(events)
    BY <1>1, <1>2, <1>4, <1>5, UnfinishedAttempt DEF Unfinished, Tallied
  <2>2. /\ Responses(events') = Metadatas(events') + Early(events')
        /\ ~MayRetryResponse => Responses(events') = Statuses(events') + 1
    BY <1>3, <1>4, <2>1 DEF Tallied
  <2> QED
    BY <1>1, <1>2, <1>3, <2>1, <2>2 DEF GrpcEvents
<1>9. GrpcMessages'
  <2>1. IsPrefix(<<>>, Messages) /\ "end" \notin ToSet(events')
    BY <1>2, <1>3, SeenEnds, SeenGrows, MessagesAssumption
  <2> QED
    BY <1>1, <1>2, <1>5, <2>1, SeenEnds DEF GrpcMessages, Connected
<1> QED
  BY <1>6, <1>7, <1>8, <1>9 DEF GrpcInv

LEMMA MessageKeeps ==
    ASSUME GrpcInv, Message PROVE GrpcInv'
<1> DEFINE n == stream.received + 1
<1>1. /\ stream.step = "open" /\ stage = "running" /\ kind # "client"
      /\ stream.received \in 0 .. Len(Messages) /\ stream.received < Len(Messages)
      /\ UNCHANGED <<kind, retryRequestOptions, stage, isCancelCalled, responseHasSent, handled,
                     attempts, events, cancelled>>
      /\ stream' = [stream EXCEPT !.received = n]
  BY DEF Message, Grpc, GrpcInv, GrpcTypes, GrpcStages, call
<1>2. n \in 0 .. Len(Messages)
  BY <1>1, MessagesAssumption
<1>3. /\ stream' \in [step : Steps, cancelled : BOOLEAN, received : 0 .. Len(Messages)]
      /\ stream'.step = "open" /\ stream'.received = n
      /\ stream'.cancelled = stream.cancelled
  BY <1>1, <1>2 DEF GrpcInv, GrpcTypes
<1>4. GrpcTypes'
  BY <1>1, <1>3 DEF GrpcInv, GrpcTypes
<1>5. GrpcStages'
  BY <1>1, <1>3 DEF GrpcInv, GrpcStages, MayRetryResponse
<1>6. GrpcEvents'
  BY <1>1, <1>3 DEF GrpcInv, GrpcEvents, MayRetryResponse, Unfinished
<1>7. GrpcMessages'
  <2>1. "end" \notin ToSet(events)
    BY <1>1 DEF GrpcInv, GrpcEvents
  <2>2. Append(Seen(stream.received), Messages[n]) = Seen(n)
    BY <1>1, SeenGrows
  <2>3. /\ data' = IF Connected THEN Append(data, Messages[n]) ELSE data
        /\ held' = IF Connected THEN held ELSE Append(held, Messages[n])
    BY DEF Message
  <2>4. Connected' = Connected
    BY <1>1 DEF Connected
  <2>5. Connected => held' = <<>> /\ data' = Seen(n)
    BY <1>1, <2>2, <2>3 DEF GrpcInv, GrpcMessages
  <2>6. ~Connected => data' = <<>> /\ held' = Seen(n)
    BY <1>1, <2>2, <2>3 DEF GrpcInv, GrpcMessages
  <2> QED
    BY <1>1, <1>3, <2>1, <2>4, <2>5, <2>6 DEF GrpcMessages
<1> QED
  BY <1>4, <1>5, <1>6, <1>7 DEF GrpcInv

(* An attempt that has ended: the events of its 'status' are counted, also  *)
(* when others come before and after them.                                  *)
LEMMA EndedAttemptIsCounted ==
    ASSUME GrpcInv, Unfinished, stream'.step = "closed",
           stream.step = "reset" => responseHasSent,
           UNCHANGED <<kind, retryRequestOptions, attempts, responseHasSent>>,
           NEW s \in Seq(EventNames), SameTally(s, events),
           ToSet(events) \subseteq ToSet(s), ToSet(s) \subseteq ToSet(events) \cup {"error"},
           SameTally(events', s \o StatusEvents),
           ToSet(s \o StatusEvents) \subseteq ToSet(events'),
           ToSet(events') \subseteq ToSet(s \o StatusEvents) \cup {"end"},
           "end" \in ToSet(events') => stage' = "over"
    PROVE  GrpcEvents' /\ {"response", "status"} \subseteq ToSet(events')
<1> DEFINE t == s \o StatusEvents
           n == IF responseHasSent THEN 0 ELSE 1
<1>1. /\ responseHasSent \in BOOLEAN /\ attempts \in Nat
      /\ Statuses(events) = attempts - 1
      /\ Responses(events) = Metadatas(events) + Early(events)
      /\ ~MayRetryResponse =>
            Responses(events) = Statuses(events) + (IF responseHasSent THEN 1 ELSE 0)
      /\ responseHasSent <=> "metadata" \in ToSet(events)
      /\ responseHasSent => "response" \in ToSet(events)
  BY UnfinishedAttempt
<1>2. responseHasSent <=> "metadata" \in ToSet(s)
  BY <1>1
<1>3. /\ ToSet(t) = ToSet(s) \cup (IF responseHasSent THEN {"status"}
                                   ELSE {"status", "response"})
      /\ Tallied(s)
      /\ Statuses(t) = Statuses(s) + 1 /\ Metadatas(t) = Metadatas(s)
      /\ Responses(t) = Responses(s) + n /\ Early(t) = Early(s) + n
  BY <1>1, <1>2, StatusTallied
<1> HIDE DEF t
<1>4. SameTally(events', t) /\ ToSet(t) \subseteq ToSet(events')
      /\ ToSet(events') \subseteq ToSet(t) \cup {"end"}
  BY DEF t
<1>5. /\ Statuses(events') = attempts
      /\ Responses(events') = Metadatas(events') + Early(events')
      /\ ~MayRetryResponse => Responses(events') = attempts
  BY <1>1, <1>3, <1>4 DEF SameTally, Tallied
<1>6. {"response", "status"} \subseteq ToSet(events')
  BY <1>1, <1>3, <1>4
<1>7. responseHasSent' <=> "metadata" \in ToSet(events')
  BY <1>2, <1>3, <1>4
<1>8. ~Unfinished' /\ MayRetryResponse' = MayRetryResponse
  BY DEF Unfinished, MayRetryResponse
<1> QED
  BY <1>1, <1>5, <1>6, <1>7, <1>8 DEF GrpcEvents

(* Nothing comes before or after the events of the 'status'.                *)
LEMMA StatusOnlyKeeps ==
    ASSUME GrpcInv, Unfinished, stream'.step = "closed",
           events' = events \o StatusEvents,
           UNCHANGED <<kind, retryRequestOptions, attempts, responseHasSent>>
    PROVE  GrpcEvents' /\ events' \in Seq(EventNames) /\ "end" \notin ToSet(events')
<1>1. /\ responseHasSent \in BOOLEAN /\ events \in Seq(EventNames)
      /\ "end" \notin ToSet(events)
      /\ responseHasSent <=> "metadata" \in ToSet(events)
      /\ stream.step = "reset" => responseHasSent
  BY UnfinishedAttempt DEF GrpcInv, GrpcStages
<1>2. events' \in Seq(EventNames) /\ "end" \notin ToSet(events')
  <2>1. /\ events' \in Seq(EventNames)
        /\ ToSet(events') = ToSet(events) \cup (IF responseHasSent THEN {"status"}
                                                ELSE {"status", "response"})
    BY <1>1, StatusTallied
  <2> QED
    BY <1>1, <2>1
<1>3. SameTally(events, events) /\ SameTally(events', events \o StatusEvents)
  BY DEF SameTally
<1> QED
  BY <1>1, <1>2, <1>3, EndedAttemptIsCounted

LEMMA CompleteKeeps ==
    ASSUME GrpcInv, Complete PROVE GrpcInv'
<1>1. /\ Grpc /\ (kind # "client" => stream.received = Len(Messages))
      /\ stream' = [stream EXCEPT !.step = "closed"]
      /\ UNCHANGED <<kind, retryRequestOptions, isCancelCalled, responseHasSent, attempts,
                     cancelled>>
      /\ MayRetryResponse' = MayRetryResponse
  BY DEF Complete, call, MayRetryResponse
<1>2. /\ stream' \in [step : Steps, cancelled : BOOLEAN, received : 0 .. Len(Messages)]
      /\ stream'.step = "closed" /\ stream'.received = stream.received
  BY <1>1 DEF GrpcInv, GrpcTypes, Steps
<1>3. /\ Unfinished /\ stage = "running" /\ stream.step = "open"
      /\ responseHasSent \in BOOLEAN /\ events \in Seq(EventNames) /\ attempts > 0
      /\ "end" \notin ToSet(events)
      /\ responseHasSent <=> "metadata" \in ToSet(events)
      /\ {"end", "error"} \subseteq EventNames
      /\ handled \in BOOLEAN
  BY <1>1, RunningAttempt, UnfinishedAttempt DEF EventNames
<1>4. CASE /\ data' = data \o held /\ handled' = TRUE /\ stage' = "over"
           /\ events' = events \o StatusEvents \o <<"end">>
  <2> DEFINE t == events \o StatusEvents
  <2>1. t \in Seq(EventNames)
    BY <1>3, StatusTallied
  <2>2. /\ events' \in Seq(EventNames) /\ ToSet(events') = ToSet(t) \cup {"end"}
        /\ SameTally(events', t)
    <3>1. events' = t \o <<"end">>
      BY <1>4
    <3> HIDE DEF t
    <3> DEFINE u == Append(t, "end")
    <3>2. t \o <<"end">> = u
      BY <1>3, <2>1, ConcatIsAppend
    <3>3. /\ u \in Seq(EventNames) /\ ToSet(u) = ToSet(t) \cup {"end"} /\ Tallied(t)
          /\ Statuses(u) = Statuses(t) + 0 /\ Responses(u) = Responses(t) + 0
          /\ Metadatas(u) = Metadatas(t) + 0 /\ Early(u) = Early(t) + 0
      BY <1>3, <2>1, OneEventMore
    <3> HIDE DEF u
    <3>4. Statuses(t) \in Nat /\ Responses(t) \in Nat /\ Metadatas(t) \in Nat /\ Early(t) \in Nat
      BY <3>3 DEF Tallied
    <3>5. SameTally(u, t)
      BY <3>3, <3>4 DEF SameTally
    <3> QED
      BY <3>1, <3>2, <3>3, <3>5
  <2>3. GrpcTypes'
    BY <1>1, <1>2, <1>4, <2>2 DEF GrpcInv, GrpcTypes
  <2>4. GrpcStages'
    BY <1>1, <1>2, <1>3, <1>4 DEF GrpcStages
  <2>5. GrpcEvents' /\ {"response", "status"} \subseteq ToSet(events')
    <3>1. SameTally(events, events)
      BY DEF SameTally
    <3> QED
      BY <1>1, <1>2, <1>3, <1>4, <2>2, <3>1, EndedAttemptIsCounted
  <2>6. GrpcMessages'
    <3>1. /\ Seen(stream.received) \in Seq(ToSet(Messages))
          /\ IsPrefix(Seen(stream.received), Messages)
          /\ stream.received \in 0 .. Len(Messages)
      BY <1>1, RunningAttempt, SeenGrows
    <3>2. data' = Seen(stream.received)
      <4>1. /\ Connected => held = <<>> /\ data = Seen(stream.received)
            /\ ~Connected => data = <<>> /\ held = Seen(stream.received)
        BY <1>1, RunningAttempt
      <4> QED
        BY <1>4, <3>1, <4>1
    <3>3. kind \in {"server", "bidi"} => data' = Messages
      BY <1>1, <3>2, SeenEnds
    <3> QED
      BY <1>1, <1>4, <2>5, <3>1, <3>2, <3>3 DEF GrpcMessages
  <2> QED
    BY <2>3, <2>4, <2>5, <2>6 DEF GrpcInv
<1>5. CASE /\ ~Connected /\ ~responseHasSent /\ RetriesResponse /\ RetryAfterDelay
           /\ held' = <<>> /\ handled' = TRUE /\ UNCHANGED data
           /\ events' = events \o StatusEvents
  <2>1. GrpcEvents' /\ events' \in Seq(EventNames) /\ "end" \notin ToSet(events')
    BY <1>1, <1>2, <1>3, <1>5, StatusOnlyKeeps
  <2>2. /\ stage' \in {"retrying", "late"} /\ data = <<>> /\ kind = "server"
        /\ IsPrefix(<<>>, Messages)
    BY <1>1, <1>5, RunningAttempt, SeenEnds, SeenGrows, MessagesAssumption
       DEF RetryAfterDelay, Connected
  <2>3. GrpcTypes'
    BY <1>1, <1>2, <1>5, <2>1, <2>2 DEF GrpcInv, GrpcTypes
  <2>4. GrpcStages'
    BY <1>1, <1>2, <1>3, <1>5, <2>2 DEF GrpcStages
  <2>5. GrpcMessages'
    BY <1>5, <2>1, <2>2 DEF GrpcMessages
  <2> QED
    BY <2>1, <2>3, <2>4, <2>5 DEF GrpcInv
<1>6. CASE /\ ~Connected /\ responseHasSent /\ events' = events \o StatusEvents
           /\ UNCHANGED <<data, held, handled, stage>>
  <2>1. GrpcEvents' /\ events' \in Seq(EventNames) /\ "end" \notin ToSet(events')
    BY <1>1, <1>2, <1>3, <1>6, StatusOnlyKeeps
  <2>2. kind = "server" /\ ~handled /\ MayRetryResponse
    BY <1>1, <1>6, RunningAttempt DEF Connected
  <2>3. GrpcTypes'
    BY <1>1, <1>2, <1>6, <2>1 DEF GrpcInv, GrpcTypes
  <2>4. GrpcStages'
    BY <1>1, <1>2, <1>3, <1>6, <2>2 DEF GrpcStages, IsSwallowed
  <2>5. GrpcMessages'
    <3>1. Connected' = Connected /\ data = <<>> /\ held = Seen(stream.received)
      BY <1>1, <1>6, RunningAttempt DEF Connected
    <3> QED
      BY <1>1, <1>2, <1>3, <1>6, <2>1, <2>2, <3>1 DEF GrpcMessages
  <2> QED
    BY <2>1, <2>3, <2>4, <2>5 DEF GrpcInv
<1> QED
  BY <1>4, <1>5, <1>6 DEF Complete

LEMMA ErrorKeeps ==
    ASSUME GrpcInv, Error PROVE GrpcInv'
<1>1. /\ Grpc
      /\ stream' = [stream EXCEPT !.step = "closed"] /\ held' = <<>> /\ handled' = TRUE
      /\ UNCHANGED <<kind, retryRequestOptions, isCancelCalled, responseHasSent, attempts, data,
                     cancelled>>
      /\ MayRetryResponse' = MayRetryResponse
  BY DEF Error, call, MayRetryResponse
<1>2. /\ stream' \in [step : Steps, cancelled : BOOLEAN, received : 0 .. Len(Messages)]
      /\ stream'.step = "closed"
  BY <1>1 DEF GrpcInv, GrpcTypes, Steps
<1>3. /\ Unfinished /\ stream.step = "open"
      /\ responseHasSent \in BOOLEAN /\ events \in Seq(EventNames) /\ attempts > 0
      /\ "end" \notin ToSet(events)
      /\ responseHasSent <=> "metadata" \in ToSet(events)
      /\ "error" \in EventNames
      /\ ~MayRetryResponse /\ responseHasSent => handled
  BY <1>1, RunningAttempt, UnfinishedAttempt DEF EventNames
<1>4. CASE ~Connected /\ RetryAfterDelay /\ events' = events \o StatusEvents
  <2>1. GrpcEvents' /\ events' \in Seq(EventNames) /\ "end" \notin ToSet(events')
    BY <1>1, <1>2, <1>3, <1>4, StatusOnlyKeeps
  <2>2. /\ stage' \in {"retrying", "late"} /\ data = <<>> /\ kind = "server" /\ ~handled
        /\ IsPrefix(<<>>, Messages)
    BY <1>1, <1>4, RunningAttempt, SeenEnds, SeenGrows, MessagesAssumption
       DEF RetryAfterDelay, Connected
  <2>3. GrpcTypes'
    BY <1>1, <1>2, <1>4, <2>1, <2>2 DEF GrpcInv, GrpcTypes
  <2>4. GrpcStages'
    BY <1>1, <1>2, <1>3, <1>4, <2>2 DEF GrpcStages
  <2>5. GrpcMessages'
    BY <1>1, <1>4, <2>1, <2>2 DEF GrpcMessages
  <2> QED
    BY <2>1, <2>3, <2>4, <2>5 DEF GrpcInv
<1>5. CASE stage' = "over" /\ events' = events \o <<"error">> \o StatusEvents
  <2> DEFINE s == Append(events, "error")
  <2>1. /\ s \in Seq(EventNames) /\ ToSet(s) = ToSet(events) \cup {"error"}
        /\ SameTally(s, events)
    <3>1. /\ s \in Seq(EventNames) /\ ToSet(s) = ToSet(events) \cup {"error"} /\ Tallied(events)
          /\ Statuses(s) = Statuses(events) + 0 /\ Responses(s) = Responses(events) + 0
          /\ Metadatas(s) = Metadatas(events) + 0 /\ Early(s) = Early(events) + 0
      BY <1>3, OneEventMore
    <3> HIDE DEF s
    <3>2. /\ Statuses(events) \in Nat /\ Responses(events) \in Nat
          /\ Metadatas(events) \in Nat /\ Early(events) \in Nat
      BY <3>1 DEF Tallied
    <3> QED
      BY <3>1, <3>2 DEF SameTally
  <2>2. events' = s \o StatusEvents
    BY <1>3, <1>5, ConcatIsAppend
  <2> HIDE DEF s
  <2>3. events' \in Seq(EventNames) /\ "end" \notin ToSet(events')
    <3>1. responseHasSent <=> "metadata" \in ToSet(s)
      BY <1>3, <2>1
    <3>2. /\ events' \in Seq(EventNames)
          /\ ToSet(events') = ToSet(s) \cup (IF responseHasSent THEN {"status"}
                                             ELSE {"status", "response"})
      BY <1>3, <2>1, <2>2, <3>1, StatusTallied
    <3> QED
      BY <1>3, <2>1, <3>2
  <2>4. GrpcTypes'
    BY <1>1, <1>2, <1>5, <2>3 DEF GrpcInv, GrpcTypes
  <2>5. GrpcStages'
    BY <1>1, <1>2, <1>3, <1>5 DEF GrpcStages
  <2>6. GrpcEvents'
    <3>1. SameTally(events', s \o StatusEvents) /\ ToSet(events) \subseteq ToSet(s)
          /\ ToSet(s) \subseteq ToSet(events) \cup {"error"}
      BY <2>1, <2>2 DEF SameTally
    <3> QED
      BY <1>1, <1>2, <1>3, <2>1, <2>2, <2>3, <3>1, EndedAttemptIsCounted
  <2>7. GrpcMessages'
    <3>1. stream.received \in 0 .. Len(Messages) /\ 0 \in 0 .. Len(Messages)
      BY <1>1, RunningAttempt, MessagesAssumption
    <3>2. IsPrefix(Seen(stream.received), Messages) /\ IsPrefix(<<>>, Messages)
      BY <3>1, SeenGrows, SeenEnds
    <3>3. IsPrefix(data, Messages)
      BY <1>1, <3>2, RunningAttempt
    <3> QED
      BY <1>1, <1>5, <2>3, <3>3 DEF GrpcMessages
  <2> QED
    BY <2>4, <2>5, <2>6, <2>7 DEF GrpcInv
<1> QED
  BY <1>4, <1>5 DEF Error

LEMMA ResetEndsKeeps ==
    ASSUME GrpcInv, ResetEnds PROVE GrpcInv'
<1>1. /\ stream.step = "reset" /\ stream' = [stream EXCEPT !.step = "closed"]
      /\ events' = events \o StatusEvents
      /\ UNCHANGED <<kind, retryRequestOptions, stage, isCancelCalled, responseHasSent, handled,
                     held, attempts, data, cancelled>>
      /\ MayRetryResponse' = MayRetryResponse
  BY DEF ResetEnds, call, MayRetryResponse
<1>2. /\ stream' \in [step : Steps, cancelled : BOOLEAN, received : 0 .. Len(Messages)]
      /\ stream'.step = "closed" /\ Unfinished
  BY <1>1 DEF GrpcInv, GrpcTypes, Steps, Unfinished
<1>3. GrpcEvents' /\ events' \in Seq(EventNames) /\ "end" \notin ToSet(events')
  BY <1>1, <1>2, StatusOnlyKeeps
<1>4. stage \in {"retrying", "late"} /\ attempts > 0
  BY <1>1 DEF GrpcInv, GrpcStages
<1>5. GrpcTypes'
  BY <1>1, <1>2, <1>3 DEF GrpcInv, GrpcTypes
<1>6. GrpcStages'
  BY <1>1, <1>2, <1>4 DEF GrpcInv, GrpcStages
<1>7. GrpcMessages'
  BY <1>1, <1>3, <1>4 DEF GrpcInv, GrpcMessages
<1> QED
  BY <1>3, <1>5, <1>6, <1>7 DEF GrpcInv

-----------------------------------------------------------------------------
(* Every step keeps the invariant.                                          *)

LEMMA InductiveStep == Inductive /\ [Next]_vars => Inductive'
<1> SUFFICES ASSUME Inductive, [Next]_vars PROVE Inductive'
  OBVIOUS
<1>1. UNCHANGED kind
  BY DEF Next, SetStream, Fail, Cancel, GrpcEvent, Metadata, Message, Complete, Error, ResetEnds,
         Retry, RestEvent, Chunk, BodyFails, FetchFails, BodyEnds, vars, call
<1>2. ASSUME kind # "rest" PROVE GrpcInv'
  <2>1. GrpcInv
    BY <1>2 DEF Inductive
  <2>2. CASE SetStream
    BY <1>2, <2>1, <2>2, SetStreamKeeps
  <2>3. CASE Fail
    BY <2>1, <2>3, FailKeeps
  <2>4. CASE Cancel
    BY <1>2, <2>1, <2>4, CancelKeeps
  <2>5. CASE Metadata
    BY <2>1, <2>5, MetadataKeeps
  <2>6. CASE Message
    BY <2>1, <2>6, MessageKeeps
  <2>7. CASE Complete
    BY <2>1, <2>7, CompleteKeeps
  <2>8. CASE Error
    BY <2>1, <2>8, ErrorKeeps
  <2>9. CASE ResetEnds
    BY <2>1, <2>9, ResetEndsKeeps
  <2>10. CASE Retry
    BY <2>1, <2>10, RetryKeeps
  <2>11. CASE RestEvent
    BY <1>2, <2>11 DEF RestEvent, Chunk, BodyFails, FetchFails, BodyEnds
  <2>12. CASE UNCHANGED vars
    <3>1. UNCHANGED <<kind, retryRequestOptions, stage, isCancelCalled, stream, responseHasSent,
                      handled, held, attempts, events, data, cancelled>>
      BY <2>12 DEF vars, call
    <3>2. GrpcTypes'
      BY <2>1, <3>1 DEF GrpcInv, GrpcTypes
    <3>3. GrpcStages'
      BY <2>1, <3>1 DEF GrpcInv, GrpcStages, NotAsked, MayRetryResponse, IsSwallowed
    <3>4. GrpcEvents'
      BY <2>1, <3>1 DEF GrpcInv, GrpcEvents, MayRetryResponse, Unfinished
    <3>5. GrpcMessages'
      BY <2>1, <3>1 DEF GrpcInv, GrpcMessages, Connected
    <3> QED
      BY <3>2, <3>3, <3>4, <3>5 DEF GrpcInv
  <2> QED
    BY <2>2, <2>3, <2>4, <2>5, <2>6, <2>7, <2>8, <2>9, <2>10, <2>11, <2>12 DEF Next, GrpcEvent
<1> QED
  BY <1>1, <1>2 DEF Inductive

(* The invariant holds of every state of a streaming call.                  *)
LEMMA InductiveAlways == Spec => []Inductive
BY InitInductive, InductiveStep, PTL DEF Spec

-----------------------------------------------------------------------------
(* A cancel of a gRPC stream reaches the first API stream, whether it comes *)
(* before or after the stub is ready (streaming.ts:108-114, 181-186,        *)
(* 217-219).                                                                *)
THEOREM CancelsReachTheStream == Spec => []CancelReachesFirstAttempt
<1>1. Inductive => CancelReachesFirstAttempt
  BY DEF Inductive, GrpcInv, GrpcStages, CancelReachesFirstAttempt
<1> QED
  BY <1>1, InductiveAlways, PTL

(* For any retryRequestOptions: each attempt that has ended has given the   *)
(* user one status, and one response unless there was 'metadata' before and *)
(* it had none, which takes options by which a response may be retried      *)
(* (streaming.ts:127-155, 194-197).                                         *)
THEOREM AttemptsRespondOnce == Spec => []RespondsOncePerAttempt
<1>1. Inductive => RespondsOncePerAttempt
  <2> SUFFICES ASSUME Inductive, kind # "rest" PROVE RespondsOncePerAttempt
    BY DEF RespondsOncePerAttempt
  <2>1. GrpcEvents
    BY DEF Inductive, GrpcInv
  <2>2. (kind = "server" => TRUE \notin retryRequestOptions.shouldRetryFn) => ~MayRetryResponse
    BY DEF MayRetryResponse
  <2> QED
    BY <2>1, <2>2 DEF GrpcEvents, RespondsOncePerAttempt, Statuses, Responses, Metadatas, Early,
                      Unfinished
<1> QED
  BY <1>1, InductiveAlways, PTL

(* The messages of a gRPC server come in order and each once, also when     *)
(* attempts were retried, and a stream that ends has given all of them: none *)
(* stays held back for a response (streaming.ts:120-200).                   *)
THEOREM MessagesComeInOrder == Spec => []GrpcDataInOrder
<1>1. Inductive => GrpcDataInOrder
  <2> SUFFICES ASSUME Inductive, kind # "rest" PROVE GrpcDataInOrder
    BY DEF GrpcDataInOrder
  <2>1. GrpcInv
    BY DEF Inductive
  <2>2. /\ stage \in {"created", "running", "retrying", "late", "crashed", "over"}
        /\ stream.received \in 0 .. Len(Messages) /\ 0 \in 0 .. Len(Messages)
    BY <2>1, MessagesAssumption DEF GrpcInv, GrpcTypes
  <2>3. /\ IsPrefix(<<>>, Messages) /\ IsPrefix(Seen(stream.received), Messages)
        /\ Seen(stream.received) \in Seq(ToSet(Messages))
    BY <2>2, SeenGrows, SeenEnds
  <2>4. IsPrefix(data, Messages)
    BY <2>1, <2>2, <2>3 DEF GrpcInv, GrpcMessages
  <2>5. stream.step = "open" => data \o held = Seen(stream.received)
    <3>1. ASSUME stream.step = "open" PROVE data \o held = Seen(stream.received)
      <4>1. /\ Connected => held = <<>> /\ data = Seen(stream.received)
            /\ ~Connected => data = <<>> /\ held = Seen(stream.received)
        BY <2>1, <3>1 DEF GrpcInv, GrpcStages, GrpcMessages
      <4> QED
        BY <2>3, <4>1
    <3> QED
      BY <3>1
  <2>6. "end" \in ToSet(events) =>
            /\ kind \in {"server", "bidi"} => data = Messages
            /\ {"response", "status"} \subseteq ToSet(events)
    BY <2>1 DEF GrpcInv, GrpcMessages
  <2> QED
    BY <2>4, <2>5, <2>6 DEF GrpcDataInOrder, Seen
<1> QED
  BY <1>1, InductiveAlways, PTL

-----------------------------------------------------------------------------
(* Where the objects are in the body of a REST answer.                      *)

(* The characters of the body: the provers do not know a string as one.     *)
Char == STRING \cup {OpenBracket, CloseBracket, "x"}

(* The objects are texts of such characters.                                *)
LEMMA CharsOfObjects == Objects \in Seq(Seq(Char)) /\ {OpenBracket, CloseBracket, "x"} \subseteq Char
<1>1. \A S, T : S \subseteq T => Seq(Seq(S)) \subseteq Seq(Seq(T))
  <2>1. \A S, T : S \subseteq T => Seq(S) \subseteq Seq(T)
    OBVIOUS
  <2> QED
    BY <2>1
<1> QED
  BY <1>1, ObjectsAssumption DEF Char

(* The characters that the parser tells apart.                              *)
LEMMA CharactersDiffer ==
    /\ OpenBrace # CloseBrace /\ OpenBrace # OpenBracket /\ OpenBrace # CloseBracket
    /\ OpenBrace # Quote /\ OpenBrace # Backslash /\ OpenBrace # "x"
    /\ CloseBrace # OpenBracket /\ CloseBrace # CloseBracket
    /\ CloseBrace # Quote /\ CloseBrace # Backslash /\ CloseBrace # "x"
    /\ OpenBracket # CloseBracket /\ OpenBracket # Quote /\ OpenBracket # Backslash
    /\ CloseBracket # Quote /\ CloseBracket # Backslash /\ CloseBracket # "x"
    /\ Quote # Backslash /\ Quote # "x" /\ Backslash # "x"
BY Zenon DEF OpenBrace, CloseBrace, OpenBracket, CloseBracket, Quote, Backslash

(* How deep a JSON text may be after some of its characters: a backslash    *)
(* skips a character of a string only.                                      *)
Depths ==
    {at \in [depth : Int, isInString : BOOLEAN, isSkipped : BOOLEAN] :
        at.isSkipped => at.isInString}

(* What Nesting is a solution of.                                           *)
Nests(text, f) ==
    /\ f \in [0 .. Len(text) -> Depths] /\ f[0] = Outside
    /\ \A n \in 1 .. Len(text) : f[n] = Deeper(f[n - 1], text[n])

LEMMA DeeperType ==
    ASSUME NEW at \in Depths, NEW c PROVE Deeper(at, c) \in Depths
<1>1. /\ at.depth \in Int /\ at.isInString \in BOOLEAN /\ at.isSkipped \in BOOLEAN
      /\ at.isSkipped => at.isInString
  BY DEF Depths
<1> DEFINE d == IF at.isInString \/ c \notin {OpenBrace, CloseBrace} THEN at.depth
                ELSE IF c = OpenBrace THEN at.depth + 1 ELSE at.depth - 1
           s == IF c = Quote /\ ~at.isSkipped THEN ~at.isInString ELSE at.isInString
           k == at.isInString /\ c = Backslash /\ ~at.isSkipped
<1>2. d \in Int
  <2>1. at.depth \in Int /\ at.depth + 1 \in Int /\ at.depth - 1 \in Int
    BY <1>1
  <2> QED
    BY ONLY <2>1, Zenon
<1>3. s \in BOOLEAN /\ k \in BOOLEAN /\ (k => s)
  BY <1>1, CharactersDiffer
<1>4. Deeper(at, c) = [depth |-> d, isInString |-> s, isSkipped |-> k]
  BY DEF Deeper
<1> HIDE DEF d, s, k
<1> QED
  BY <1>2, <1>3, <1>4 DEF Depths

(* Nesting is such a function.                                              *)
LEMMA NestingUnfolds ==
    ASSUME NEW text \in Seq(Char)
    PROVE  Nests(text, Nesting(text))
<1> DEFINE step == [n \in 0 + 1 .. Len(text) |-> [at \in Depths |-> Deeper(at, text[n])]]
           Is(f) == f = [n \in 0 .. Len(text) |->
                            IF n = 0 THEN Outside ELSE Deeper(f[n - 1], text[n])]
<1>1. Len(text) \in Nat /\ Outside \in Depths /\ 0 \in Nat /\ 0 =< Len(text)
  BY DEF Outside, Depths
<1>2. step \in [0 + 1 .. Len(text) -> [Depths -> Depths]]
  BY DeeperType
<1>3. PICK f : Runs(Depths, Outside, step, f, 0, Len(text))
  <2> HIDE DEF step
  <2> QED
    BY <1>1, <1>2, RecursionBetween
<1>4. f \in [0 .. Len(text) -> Depths] /\ f[0] = Outside
  BY <1>3 DEF Runs
<1>5. ASSUME NEW n \in 1 .. Len(text) PROVE f[n] = Deeper(f[n - 1], text[n])
  <2>1. n \in 0 + 1 .. Len(text) /\ n - 1 \in 0 .. Len(text)
    OBVIOUS
  <2>2. f[n] = step[n][f[n - 1]] /\ f[n - 1] \in Depths
    BY <1>3, <1>4, <2>1 DEF Runs
  <2> QED
    BY <2>1, <2>2
<1> HIDE DEF step
<1>6. Is(f)
  <2>1. \A n \in 0 .. Len(text) : n # 0 => n \in 1 .. Len(text)
    BY <1>1
  <2>2. \A n \in 0 .. Len(text) :
            f[n] = IF n = 0 THEN Outside ELSE Deeper(f[n - 1], text[n])
    BY <1>4, <1>5, <2>1
  <2> QED
    BY <1>4, <2>2
<1> DEFINE g == CHOOSE f1 : Is(f1)
<1>7. Is(g)
  <2> HIDE DEF Is
  <2> QED
    BY <1>6
<1>8. Nesting(text) = g
  BY DEF Nesting
<1> HIDE DEF g
<1>9. \A n \in 0 .. Len(text) : g[n] \in Depths
  <2>1. \A n \in 0 .. Len(text) :
            g[n] = IF n = 0 THEN Outside ELSE Deeper(g[n - 1], text[n])
    BY <1>7
  <2>2. g[0] = Outside
    BY <1>1, <2>1
  <2>3. \A n \in 0 .. Len(text) - 1 : f[n] = g[n] => f[n + 1] = g[n + 1]
    <3> SUFFICES ASSUME NEW n \in 0 .. Len(text) - 1, f[n] = g[n]
                 PROVE  f[n + 1] = g[n + 1]
      OBVIOUS
    <3>1. n + 1 \in 0 .. Len(text) /\ n + 1 \in 1 .. Len(text) /\ n + 1 # 0 /\ n + 1 - 1 = n
      BY <1>1
    <3> QED
      BY <1>5, <2>1, <3>1
  <2>4. \A n \in 0 .. Len(text) : f[n] = g[n]
    BY <1>1, <1>4, <2>2, <2>3, SameSteps
  <2> QED
    BY <1>4, <2>4
<1>10. g \in [0 .. Len(text) -> Depths]
  BY <1>7, <1>9
<1>11. g[0] = Outside /\ \A n \in 1 .. Len(text) : g[n] = Deeper(g[n - 1], text[n])
  BY <1>1, <1>7
<1>12. Nests(text, g)
  BY <1>10, <1>11 DEF Nests
<1> QED
  BY <1>8, <1>12

(* How far the body has been sent when object i is complete.                *)
End(i) == Len(Upto(Objects, i)) + i

(* The ends of the objects, and how deep each is inside.                    *)
LEMMA ObjectsEnd ==
    /\ Len(Objects) \in Nat
    /\ \A i \in 1 .. Len(Objects) :
          /\ Objects[i] \in Seq(Char) /\ Len(Objects[i]) \in Nat /\ Len(Objects[i]) > 0
          /\ IsObject(Objects[i])
          /\ End(i) = End(i - 1) + 1 + Len(Objects[i])
    /\ \A i \in 0 .. Len(Objects) : End(i) \in Nat
    /\ End(0) = 0
<1>1. Objects \in Seq(Seq(Char)) /\ Len(Objects) \in Nat
      /\ DOMAIN Objects = 1 .. Len(Objects)
  BY CharsOfObjects
<1>2. ASSUME NEW i \in 1 .. Len(Objects)
      PROVE  /\ Objects[i] \in Seq(Char) /\ Len(Objects[i]) \in Nat /\ Len(Objects[i]) > 0
             /\ IsObject(Objects[i])
  <2>1. Objects[i] \in Seq(Char) /\ IsObject(Objects[i])
    <3>1. i \in DOMAIN Objects
      BY <1>1
    <3>2. IsObject(Objects[i])
      BY <3>1, ObjectsAssumption, Zenon
    <3> QED
      BY <1>1, <3>2
  <2>2. Objects[i] # <<>>
    BY <2>1 DEF IsObject
  <2> QED
    BY <2>1, <2>2
<1>3. Accumulates(Char, Objects)
  BY <1>1, FlattenUpto
<1>4. \A i \in 0 .. Len(Objects) : Upto(Objects, i) \in Seq(Char)
  BY <1>3 DEF Accumulates
<1>5. \A i \in 0 .. Len(Objects) : Len(Upto(Objects, i)) \in Nat
  BY <1>4
<1>6. ASSUME NEW i \in 1 .. Len(Objects)
      PROVE  End(i) = End(i - 1) + 1 + Len(Objects[i])
  <2>1. OneMore(Objects, i)
    BY <1>3 DEF Accumulates
  <2>2. i - 1 \in 0 .. Len(Objects) /\ i \in 0 .. Len(Objects)
    BY <1>1
  <2> DEFINE a == Upto(Objects, i - 1)
             b == Upto(Objects, i)
             o == Objects[i]
  <2>3. b = a \o o
    BY <2>1 DEF OneMore
  <2>4. a \in Seq(Char) /\ o \in Seq(Char)
    BY <1>2, <1>4, <2>2
  <2> HIDE DEF a, b, o
  <2>5. Len(b) = Len(a) + Len(o) /\ Len(a) \in Nat /\ Len(o) \in Nat
    BY <2>3, <2>4
  <2>6. Len(b) + i = (Len(a) + (i - 1)) + 1 + Len(o)
    BY <1>1, <2>5
  <2> QED
    BY <2>6 DEF End, a, b, o
<1>7. Len(Upto(Objects, 0)) = 0
  BY <1>3 DEF Accumulates
<1>8. End(0) = 0 /\ \A i \in 0 .. Len(Objects) : End(i) \in Nat
  BY <1>1, <1>5, <1>7 DEF End
<1> QED
  BY <1>1, <1>2, <1>6, <1>8

(* The objects end in their order.                                          *)
LEMMA EndsInOrder ==
    \A x \in 0 .. Len(Objects) : \A y \in x .. Len(Objects) : End(x) =< End(y)
<1> DEFINE f == [i \in 0 .. Len(Objects) |-> End(i)]
<1>1. f \in [0 .. Len(Objects) -> Nat]
  BY ObjectsEnd
<1>2. ASSUME NEW i \in 0 .. Len(Objects) - 1 PROVE End(i) =< End(i + 1)
  <2>1. i + 1 \in 1 .. Len(Objects) /\ i + 1 - 1 = i /\ i \in 0 .. Len(Objects)
    BY ObjectsEnd
  <2>2. End(i + 1) = End(i) + 1 + Len(Objects[i + 1]) /\ Len(Objects[i + 1]) \in Nat
        /\ End(i) \in Nat
    BY <2>1, ObjectsEnd
  <2> QED
    BY <2>2
<1>3. \A i \in 0 .. Len(Objects) - 1 : f[i] =< f[i + 1]
  <2>1. \A i \in 0 .. Len(Objects) - 1 : i \in 0 .. Len(Objects) /\ i + 1 \in 0 .. Len(Objects)
    BY ObjectsEnd
  <2> QED
    BY <1>2, <2>1
<1>4. Len(Objects) \in Nat
  BY ObjectsEnd
<1>5. \A x \in 0 .. Len(Objects) : \A y \in x .. Len(Objects) : f[x] =< f[y]
  <2> HIDE DEF f
  <2> QED
    BY <1>1, <1>3, <1>4, NeverFalls
<1>6. \A x \in 0 .. Len(Objects) : \A y \in x .. Len(Objects) : y \in 0 .. Len(Objects)
  BY <1>4
<1> QED
  BY <1>5, <1>6

-----------------------------------------------------------------------------
(* The array with its commas, but without its brackets.                     *)
Commas == [i \in DOMAIN Objects |-> IF i = 1 THEN Objects[1] ELSE <<"x">> \o Objects[i]]

LEMMA Single ==
    ASSUME NEW X, NEW x \in X
    PROVE  <<x>> \in Seq(X) /\ Len(<<x>>) = 1 /\ <<x>>[1] = x
OBVIOUS

LEMMA CommaBefore ==
    ASSUME NEW o \in Seq(Char)
    PROVE  LET c == <<"x">> \o o IN
           /\ c \in Seq(Char) /\ Len(c) = Len(o) + 1 /\ c[1] = "x"
           /\ \A k \in 1 .. Len(o) : c[k + 1] = o[k]
<1> DEFINE x == <<"x">>
           c == x \o o
<1>1. x \in Seq(Char) /\ Len(x) = 1 /\ x[1] = "x"
  BY Single, CharsOfObjects
<1> HIDE DEF x
<1>2. /\ c \in Seq(Char) /\ Len(c) = Len(x) + Len(o)
      /\ \A i \in 1 .. Len(x) + Len(o) : c[i] = IF i =< Len(x) THEN x[i] ELSE o[i - Len(x)]
  BY <1>1, ConcatProperties
<1>4. Len(o) \in Nat
  OBVIOUS
<1> HIDE DEF c
<1>5. Len(c) = Len(o) + 1 /\ c[1] = "x"
  BY <1>1, <1>2, <1>4
<1>3. \A k \in 1 .. Len(o) : c[k + 1] = o[k]
  BY <1>1, <1>2, <1>4
<1> QED
  BY <1>2, <1>3, <1>5 DEF c, x

(* A comma before each object but the first.                                *)
LEMMA CommasType ==
    /\ Commas \in Seq(Seq(Char)) /\ Len(Commas) = Len(Objects)
    /\ Len(Objects) > 0 => Commas[1] = Objects[1]
    /\ \A i \in 2 .. Len(Objects) : Commas[i] = <<"x">> \o Objects[i]
<1>1. Len(Objects) \in Nat /\ \A i \in 1 .. Len(Objects) : Objects[i] \in Seq(Char)
  BY ObjectsEnd
<1>2. DOMAIN Objects = 1 .. Len(Objects)
  BY ObjectsAssumption
<1>3. ASSUME NEW i \in 1 .. Len(Objects)
      PROVE  (IF i = 1 THEN Objects[1] ELSE <<"x">> \o Objects[i]) \in Seq(Char)
  <2>1. Objects[i] \in Seq(Char) /\ <<"x">> \o Objects[i] \in Seq(Char)
    BY <1>1, CommaBefore
  <2> QED
    BY <2>1
<1>4. Commas = [i \in 1 .. Len(Objects) |-> IF i = 1 THEN Objects[1] ELSE <<"x">> \o Objects[i]]
  BY <1>2 DEF Commas
<1>5. Commas \in Seq(Seq(Char)) /\ Len(Commas) = Len(Objects)
  BY <1>1, <1>3, <1>4
<1> QED
  BY <1>1, <1>4, <1>5

(* The commas are one less than the objects.                                *)
LEMMA CommasUpto ==
    \A i \in 1 .. Len(Objects) : Len(Upto(Commas, i)) = End(i) - 1
<1> DEFINE Good == {n \in Nat : n + 1 =< Len(Objects) => Len(Upto(Commas, n + 1)) = End(n + 1) - 1}
<1>1. /\ Len(Objects) \in Nat /\ Len(Commas) = Len(Objects)
      /\ Commas \in Seq(Seq(Char)) /\ Accumulates(Char, Commas)
  BY ObjectsEnd, CommasType, FlattenUpto
<1>2. \A i \in 0 .. Len(Objects) : Upto(Commas, i) \in Seq(Char)
  BY <1>1 DEF Accumulates
<1>3. ASSUME NEW i \in 1 .. Len(Objects)
      PROVE  /\ Len(Upto(Commas, i)) = Len(Upto(Commas, i - 1)) + Len(Commas[i])
             /\ Len(Upto(Commas, i - 1)) \in Nat
  <2> DEFINE a == Upto(Commas, i - 1)
             b == Upto(Commas, i)
             o == Commas[i]
  <2>1. b = a \o o
    BY <1>1 DEF Accumulates, OneMore
  <2>2. a \in Seq(Char) /\ o \in Seq(Char)
    BY <1>1, <1>2
  <2> HIDE DEF a, b, o
  <2>3. Len(b) = Len(a) + Len(o) /\ Len(a) \in Nat
    BY <2>1, <2>2
  <2> QED
    BY <2>3 DEF a, b, o
<1>4. 0 \in Good
  <2> SUFFICES ASSUME 1 =< Len(Objects) PROVE Len(Upto(Commas, 1)) = End(1) - 1
    OBVIOUS
  <2>1. 1 \in 1 .. Len(Objects)
    BY <1>1
  <2>2. Upto(Commas, 0) = <<>>
    BY <1>1 DEF Accumulates
  <2>3. Len(Upto(Commas, 0)) = 0 /\ 1 - 1 = 0
    BY <2>2
  <2>4. Commas[1] = Objects[1]
    BY <1>1, <2>1, CommasType
  <2>6. Len(Upto(Commas, 1)) = Len(Upto(Commas, 1 - 1)) + Len(Commas[1])
    BY <1>3, <2>1, Zenon
  <2>5. End(1) = 0 + 1 + Len(Objects[1]) /\ Len(Objects[1]) \in Nat
    BY <2>1, <2>3, ObjectsEnd
  <2> QED
    BY <2>3, <2>4, <2>5, <2>6
<1>5. ASSUME NEW n \in Nat, n \in Good PROVE n + 1 \in Good
  <2> SUFFICES ASSUME n + 1 + 1 =< Len(Objects)
               PROVE  Len(Upto(Commas, n + 1 + 1)) = End(n + 1 + 1) - 1
    OBVIOUS
  <2> DEFINE m == n + 1
  <2>1. /\ m \in 1 .. Len(Objects) /\ m + 1 \in 2 .. Len(Objects) /\ m + 1 \in 1 .. Len(Objects)
        /\ m + 1 - 1 = m /\ m \in 0 .. Len(Objects)
    BY <1>1
  <2>2. Len(Upto(Commas, m)) = End(m) - 1
    BY <1>1, <1>5
  <2> HIDE DEF m
  <2>3. Commas[m + 1] = <<"x">> \o Objects[m + 1]
    BY <2>1, CommasType
  <2>4. Len(Commas[m + 1]) = Len(Objects[m + 1]) + 1 /\ Len(Objects[m + 1]) \in Nat
    BY <2>1, <2>3, ObjectsEnd, CommaBefore
  <2>5. Len(Upto(Commas, m + 1)) = Len(Upto(Commas, m)) + Len(Commas[m + 1])
    <3> DEFINE n1 == m + 1
    <3>1. n1 \in 1 .. Len(Objects) /\ n1 - 1 = m /\ n1 = m + 1
      BY <2>1
    <3> HIDE DEF n1
    <3>2. Len(Upto(Commas, n1)) = Len(Upto(Commas, n1 - 1)) + Len(Commas[n1])
      BY <1>3, <3>1
    <3>3. Len(Upto(Commas, n1)) = Len(Upto(Commas, m)) + Len(Commas[n1])
      BY <3>1, <3>2, Zenon
    <3> QED
      BY <3>1, <3>3, Zenon
  <2>6. End(m + 1) = End(m) + 1 + Len(Objects[m + 1]) /\ End(m) \in Nat
    BY <2>1, ObjectsEnd
  <2>7. Len(Upto(Commas, m + 1)) = End(m + 1) - 1
    BY <2>2, <2>4, <2>5, <2>6
  <2> QED
    BY <2>7 DEF m
<1> HIDE DEF Good
<1>6. Nat \subseteq Good
  BY <1>4, <1>5, Induction
<1>7. ASSUME NEW i \in 1 .. Len(Objects) PROVE Len(Upto(Commas, i)) = End(i) - 1
  <2>1. i - 1 \in Nat /\ i - 1 + 1 = i /\ i =< Len(Objects)
    BY <1>1
  <2> QED
    BY <1>6, <2>1 DEF Good
<1> QED
  BY <1>7

(* Brackets around a text.                                                  *)
LEMMA InBrackets ==
    ASSUME NEW t \in Seq(Char)
    PROVE  LET b == <<OpenBracket>> \o t \o <<CloseBracket>> IN
           /\ b \in Seq(Char) /\ Len(b) = Len(t) + 2
           /\ b[1] = OpenBracket /\ b[Len(b)] = CloseBracket
           /\ \A k \in 1 .. Len(t) : b[k + 1] = t[k]
<1> DEFINE x == <<OpenBracket>>
           y == <<CloseBracket>>
           a == x \o t
           b == a \o y
<1>1. x \in Seq(Char) /\ Len(x) = 1 /\ x[1] = OpenBracket
  BY Single, CharsOfObjects
<1>2. y \in Seq(Char) /\ Len(y) = 1 /\ y[1] = CloseBracket
  BY Single, CharsOfObjects
<1>3. Len(t) \in Nat
  OBVIOUS
<1> HIDE DEF x, y
<1>4. /\ a \in Seq(Char) /\ Len(a) = Len(x) + Len(t)
      /\ \A i \in 1 .. Len(x) + Len(t) : a[i] = IF i =< Len(x) THEN x[i] ELSE t[i - Len(x)]
  BY <1>1, ConcatProperties
<1> HIDE DEF a
<1>5. /\ b \in Seq(Char) /\ Len(b) = Len(a) + Len(y)
      /\ \A i \in 1 .. Len(a) + Len(y) : b[i] = IF i =< Len(a) THEN a[i] ELSE y[i - Len(a)]
  <2>1. a \in Seq(Char) /\ y \in Seq(Char)
    BY <1>2, <1>4
  <2> QED
    BY ONLY <2>1, ConcatProperties
<1> HIDE DEF b
<1>6. Len(a) = Len(t) + 1 /\ a[1] = OpenBracket /\ \A k \in 1 .. Len(t) : a[k + 1] = t[k]
  BY <1>1, <1>3, <1>4
<1>7. Len(b) = Len(t) + 2 /\ b[Len(t) + 2] = CloseBracket /\ \A i \in 1 .. Len(t) + 1 : b[i] = a[i]
  BY <1>2, <1>3, <1>5, <1>6
<1>8. b[1] = OpenBracket /\ \A k \in 1 .. Len(t) : b[k + 1] = t[k]
  BY <1>3, <1>6, <1>7
<1> QED
  BY <1>5, <1>7, <1>8 DEF a, b, x, y

(* How long the body is.                                                    *)
BodyLength == IF Len(Objects) = 0 THEN 2 ELSE End(Len(Objects)) + 1

(* The character m of the body.                                             *)
Character(m, c) == m \in 1 .. Len(Body) /\ Body[m] = c

(* Where the brackets, the commas and the characters of the objects are.    *)
LEMMA BodyShape ==
    /\ Body \in Seq(Char) /\ Len(Body) = BodyLength
    /\ Character(1, OpenBracket) /\ Character(BodyLength, CloseBracket)
    /\ \A i \in 2 .. Len(Objects) : Character(End(i - 1) + 1, "x")
    /\ \A i \in 1 .. Len(Objects) : \A k \in 1 .. Len(Objects[i]) :
          Character(End(i - 1) + 1 + k, Objects[i][k])
<1> DEFINE t == FlattenSeq(Commas)
<1>1. /\ Len(Objects) \in Nat /\ Len(Commas) = Len(Objects)
      /\ Commas \in Seq(Seq(Char)) /\ Accumulates(Char, Commas)
  BY ObjectsEnd, CommasType, FlattenUpto
<1>2. t \in Seq(Char) /\ t = Upto(Commas, Len(Objects)) /\ Upto(Commas, 0) = <<>>
  BY <1>1, FlattenType DEF Accumulates
<1>3. Body = <<OpenBracket>> \o t \o <<CloseBracket>>
  BY DEF Body, Commas
<1>4. Len(t) = BodyLength - 2
  <2>1. CASE Len(Objects) = 0
    BY <1>2, <2>1 DEF BodyLength
  <2>2. CASE Len(Objects) # 0
    <3>1. Len(Objects) \in 1 .. Len(Objects) /\ Len(Objects) \in 0 .. Len(Objects)
      BY <1>1, <2>2
    <3>2. Len(Upto(Commas, Len(Objects))) = End(Len(Objects)) - 1 /\ End(Len(Objects)) \in Nat
      BY <3>1, CommasUpto, ObjectsEnd
    <3> QED
      BY <1>2, <2>2, <3>2 DEF BodyLength
  <2> QED
    BY <2>1, <2>2
<1> HIDE DEF t
<1>5. /\ Body \in Seq(Char) /\ Len(Body) = Len(t) + 2 /\ Body[1] = OpenBracket
      /\ Body[Len(Body)] = CloseBracket /\ \A k \in 1 .. Len(t) : Body[k + 1] = t[k]
  BY <1>2, <1>3, InBrackets
<1>6. Len(Body) = BodyLength /\ Len(t) \in Nat
  <2>1. BodyLength \in Int
    BY <1>1, ObjectsEnd DEF BodyLength
  <2>2. Len(t) \in Nat
    BY <1>2
  <2> QED
    BY <1>4, <1>5, <2>1, <2>2
<1>7. Character(1, OpenBracket) /\ Character(BodyLength, CloseBracket)
  BY <1>5, <1>6 DEF Character
<1>8. ASSUME NEW n \in 1 .. Len(t), NEW c, t[n] = c PROVE Character(n + 1, c)
  BY <1>5, <1>6, <1>8 DEF Character
<1>9. ASSUME NEW i \in 1 .. Len(Objects), NEW k \in 1 .. Len(Commas[i]), NEW c, Commas[i][k] = c
      PROVE  Character(Len(Upto(Commas, i - 1)) + k + 1, c)
  <2>1. /\ Len(Upto(Commas, i - 1)) + k \in 1 .. Len(t)
        /\ t[Len(Upto(Commas, i - 1)) + k] = c
    BY <1>1, <1>9, FlattenAt DEF t
  <2> QED
    BY <1>8, <2>1
<1>10. ASSUME NEW i \in 2 .. Len(Objects)
       PROVE  /\ Character(End(i - 1) + 1, "x")
              /\ \A k \in 1 .. Len(Objects[i]) :
                    Character(End(i - 1) + 1 + k, Objects[i][k])
  <2>1. i \in 1 .. Len(Objects) /\ i - 1 \in 1 .. Len(Objects) /\ i - 1 \in 0 .. Len(Objects)
    BY <1>1
  <2>2. Len(Upto(Commas, i - 1)) = End(i - 1) - 1 /\ End(i - 1) \in Nat
    BY <2>1, CommasUpto, ObjectsEnd
  <2>3. Objects[i] \in Seq(Char) /\ Commas[i] = <<"x">> \o Objects[i]
    BY <2>1, CommasType, ObjectsEnd
  <2>4. /\ Len(Commas[i]) = Len(Objects[i]) + 1 /\ Commas[i][1] = "x"
        /\ \A k \in 1 .. Len(Objects[i]) : Commas[i][k + 1] = Objects[i][k]
    BY <2>3, CommaBefore
  <2>5. Len(Objects[i]) \in Nat
    BY <2>3
  <2>6. Character(End(i - 1) + 1, "x")
    <3>1. 1 \in 1 .. Len(Commas[i])
      BY <2>4, <2>5
    <3>2. (End(i - 1) - 1) + 1 + 1 = End(i - 1) + 1
      <4>1. \A e \in Nat : (e - 1) + 1 + 1 = e + 1
        OBVIOUS
      <4> QED
        BY <2>2, <4>1
    <3> QED
      BY <1>9, <2>1, <2>2, <2>4, <3>1, <3>2
  <2>7. ASSUME NEW k \in 1 .. Len(Objects[i])
        PROVE  Character(End(i - 1) + 1 + k, Objects[i][k])
    <3>1. /\ k + 1 \in 1 .. Len(Commas[i])
          /\ (End(i - 1) - 1) + (k + 1) + 1 = End(i - 1) + 1 + k
      <4>1. \A e, n \in Nat : (e - 1) + (n + 1) + 1 = e + 1 + n
        OBVIOUS
      <4>2. k \in Nat /\ k + 1 \in 1 .. Len(Commas[i])
        BY <2>4, <2>5
      <4> QED
        BY <2>2, <4>1, <4>2
    <3> QED
      BY <1>9, <2>1, <2>2, <2>4, <3>1
  <2> QED
    BY <2>6, <2>7
<1>11. ASSUME 1 \in 1 .. Len(Objects)
       PROVE  \A k \in 1 .. Len(Objects[1]) : Character(End(1 - 1) + 1 + k, Objects[1][k])
  <2>1. Commas[1] = Objects[1] /\ Len(Upto(Commas, 1 - 1)) = 0 /\ End(1 - 1) = 0
    BY <1>1, <1>2, <1>11, CommasType, ObjectsEnd
  <2>2. ASSUME NEW k \in 1 .. Len(Objects[1])
        PROVE  Character(End(1 - 1) + 1 + k, Objects[1][k])
    <3>1. 0 + k + 1 = 0 + 1 + k
      BY <1>11, ObjectsEnd
    <3> QED
      BY <1>9, <1>11, <2>1, <3>1
  <2> QED
    BY <2>2
<1>12. \A i \in 1 .. Len(Objects) : i = 1 \/ i \in 2 .. Len(Objects)
  BY <1>1
<1> QED
  BY <1>5, <1>6, <1>7, <1>10, <1>11, <1>12

-----------------------------------------------------------------------------
(* One character of a chunk.                                                *)

(* A parser in the loop of _transform.                                      *)
Scanners ==
    [level : Int, isInString : BOOLEAN, isSkipped : BOOLEAN, prevBlock : Seq(Char),
     pushed : Seq(Seq(Char)), done : BOOLEAN, objectStart : Nat \ {0}, failed : BOOLEAN]

(* A character counts that is neither skipped nor in a string.              *)
Bare(p) == ~p.isSkipped /\ ~p.isInString

(* The level after a character.                                             *)
LevelAfter(p, c) ==
    p.level + (IF Bare(p) /\ c = OpenBrace THEN 1 ELSE 0) - (IF Bare(p) /\ c = CloseBrace THEN 1 ELSE 0)

(* A brace that ends an object.                                             *)
Found(p, c) == Bare(p) /\ c = CloseBrace /\ LevelAfter(p, c) = 1

(* The fields of the parser q that p becomes with the character c at index  *)
(* k of a chunk, which ends the object.                                     *)
Scans(p, c, k, object, q) ==
    /\ q.level = LevelAfter(p, c)
    /\ q.isSkipped <=> ~p.isSkipped /\ c = Backslash
    /\ q.isInString <=> IF ~p.isSkipped /\ c = Quote THEN ~p.isInString ELSE p.isInString
    /\ q.objectStart = IF Found(p, c) THEN k + 1
                       ELSE IF Bare(p) /\ c = OpenBrace /\ LevelAfter(p, c) = 2 THEN k
                       ELSE p.objectStart
    /\ q.prevBlock = IF Found(p, c) THEN <<>> ELSE p.prevBlock
    /\ q.pushed = IF Found(p, c) THEN Append(p.pushed, object) ELSE p.pushed
    /\ q.done <=> p.done \/ (Bare(p) /\ c = CloseBracket /\ LevelAfter(p, c) = 1)
    /\ q.failed <=> p.failed

LEMMA LevelType ==
    ASSUME NEW p \in Scanners, NEW c
    PROVE  p.level \in Int /\ LevelAfter(p, c) \in Int
<1>1. p.level \in Int
  BY DEF Scanners
<1>2. \A a, b \in {0, 1} : p.level + a - b \in Int
  BY <1>1
<1> QED
  BY ONLY <1>1, <1>2, Zenon DEF LevelAfter

(* A brace outside of strings moves the level by one, nothing else does.    *)
LEMMA LevelMoves ==
    ASSUME NEW p \in Scanners, NEW c
    PROVE  \/ Bare(p) /\ c = OpenBrace /\ LevelAfter(p, c) = p.level + 1
           \/ Bare(p) /\ c = CloseBrace /\ LevelAfter(p, c) = p.level - 1
           \/ ~(Bare(p) /\ c \in {OpenBrace, CloseBrace}) /\ LevelAfter(p, c) = p.level
<1>1. p.level \in Int
  BY LevelType
<1>2. \A n \in Int : n + 1 - 0 = n + 1 /\ n + 0 - 1 = n - 1 /\ n + 0 - 0 = n
  OBVIOUS
<1>3. CASE Bare(p) /\ c = OpenBrace
  BY <1>1, <1>2, <1>3, CharactersDiffer DEF LevelAfter
<1>4. CASE Bare(p) /\ c = CloseBrace
  BY <1>1, <1>2, <1>4, CharactersDiffer DEF LevelAfter
<1>5. CASE ~(Bare(p) /\ c \in {OpenBrace, CloseBrace})
  BY <1>1, <1>2, <1>5 DEF LevelAfter
<1> QED
  BY <1>3, <1>4, <1>5

(* Scan, field by field.                                                    *)
LEMMA ScanFields ==
    ASSUME NEW p \in Scanners, NEW chunk \in Seq(Char), NEW k \in 1 .. Len(chunk)
    PROVE  /\ Scan(p, chunk, k) \in Scanners
           /\ Scans(p, chunk[k], k, p.prevBlock \o SubSeq(chunk, p.objectStart, k),
                    Scan(p, chunk, k))
<1> DEFINE c == chunk[k]
           object == p.prevBlock \o SubSeq(chunk, p.objectStart, k)
           level == LevelAfter(p, c)
           found == Found(p, c)
           skipped == ~p.isSkipped /\ c = Backslash
           inString == IF ~p.isSkipped /\ c = Quote THEN ~p.isInString ELSE p.isInString
           start == IF found THEN k + 1
                    ELSE IF Bare(p) /\ c = OpenBrace /\ level = 2 THEN k ELSE p.objectStart
           block == IF found THEN <<>> ELSE p.prevBlock
           pushed == IF found THEN Append(p.pushed, object) ELSE p.pushed
           done == p.done \/ (Bare(p) /\ c = CloseBracket /\ level = 1)
           q == [level |-> level, isInString |-> inString, isSkipped |-> skipped,
                 prevBlock |-> block, pushed |-> pushed, done |-> done,
                 objectStart |-> start, failed |-> p.failed]
<1>1. /\ p.isInString \in BOOLEAN /\ p.isSkipped \in BOOLEAN
      /\ p.done \in BOOLEAN /\ p.failed \in BOOLEAN
      /\ p.prevBlock \in Seq(Char) /\ p.pushed \in Seq(Seq(Char))
      /\ p.objectStart \in Nat \ {0}
  BY DEF Scanners
<1>2. level \in Int
  BY LevelType
<1>3. skipped \in BOOLEAN /\ inString \in BOOLEAN /\ done \in BOOLEAN
  BY <1>1
<1>4. start \in Nat \ {0}
  <2>1. k \in Nat \ {0} /\ k + 1 \in Nat \ {0}
    OBVIOUS
  <2> QED
    BY ONLY <1>1, <2>1, Zenon
<1>5. SubSeq(chunk, p.objectStart, k) \in Seq(Char)
  BY <1>1
<1>6. object \in Seq(Char)
  BY <1>1, <1>5
<1>7. block \in Seq(Char) /\ pushed \in Seq(Seq(Char))
  <2>1. <<>> \in Seq(Char)
    OBVIOUS
  <2> HIDE DEF object
  <2>2. Append(p.pushed, object) \in Seq(Seq(Char))
    BY <1>1, <1>6
  <2> QED
    BY ONLY <1>1, <2>1, <2>2, Zenon
<1>8. Scan(p, chunk, k) = q
  <2> HIDE DEF object
  <2>1. Scan(p, chunk, k) =
            [p EXCEPT !.level = level, !.isSkipped = skipped,
                      !.isInString = IF ~p.isSkipped /\ c = Quote THEN ~@ ELSE @,
                      !.objectStart = IF found THEN k + 1
                                      ELSE IF Bare(p) /\ c = OpenBrace /\ level = 2 THEN k ELSE @,
                      !.prevBlock = IF found THEN <<>> ELSE @,
                      !.pushed = IF found THEN Append(@, object) ELSE @,
                      !.done = @ \/ (Bare(p) /\ c = CloseBracket /\ level = 1)]
    BY DEF Scan, Bare, LevelAfter, Found, object
  <2> HIDE DEF found, level, skipped, c
  <2> QED
    BY <2>1 DEF Scanners
<1> HIDE DEF level, inString, skipped, block, pushed, done, start
<1>9. q \in Scanners
  BY <1>1, <1>2, <1>3, <1>4, <1>7 DEF Scanners
<1>10. /\ q.level = level /\ q.isInString = inString /\ q.isSkipped = skipped
       /\ q.prevBlock = block /\ q.pushed = pushed /\ q.done = done
       /\ q.objectStart = start /\ q.failed = p.failed
  OBVIOUS
<1> HIDE DEF q
<1>11. Scans(p, c, k, object, q)
  BY <1>10 DEF Scans, level, inString, skipped, block, pushed, done, start
<1> QED
  BY <1>8, <1>9, <1>11

(* What has been seen of an unfinished object after index k of a chunk.     *)
Block(p, chunk, k) ==
    IF p.level > 1 THEN p.prevBlock \o SubSeq(chunk, p.objectStart, k) ELSE p.prevBlock

(* A character, told without the chunk: b is what the parser p has seen of  *)
(* an unfinished object, b2 what q has.                                     *)
MovesOn(p, b, c, q, b2) ==
    /\ q.level = LevelAfter(p, c)
    /\ q.isSkipped <=> ~p.isSkipped /\ c = Backslash
    /\ q.isInString <=> IF ~p.isSkipped /\ c = Quote THEN ~p.isInString ELSE p.isInString
    /\ b2 = IF Found(p, c) THEN <<>> ELSE IF LevelAfter(p, c) > 1 THEN Append(b, c) ELSE b
    /\ q.pushed = IF Found(p, c) THEN Append(p.pushed, Append(b, c)) ELSE p.pushed
    /\ q.done <=> p.done \/ (Bare(p) /\ c = CloseBracket /\ LevelAfter(p, c) = 1)
    /\ q.failed <=> p.failed

(* A slice of the chunk with one more character.                            *)
LEMMA PieceGrows ==
    ASSUME NEW chunk \in Seq(Char), NEW k \in 1 .. Len(chunk), NEW n \in 1 .. k,
           NEW s \in Seq(Char)
    PROVE  s \o SubSeq(chunk, n, k) = Append(s \o SubSeq(chunk, n, k - 1), chunk[k])
<1> DEFINE a == SubSeq(chunk, n, k)
           b == SubSeq(chunk, n, k - 1)
<1>1. a \in Seq(Char) /\ b \in Seq(Char) /\ chunk[k] \in Char
  OBVIOUS
<1>2. a = Append(b, chunk[k])
  OBVIOUS
<1> HIDE DEF a, b
<1>3. s \o Append(b, chunk[k]) = Append(s \o b, chunk[k])
  BY <1>1
<1> QED
  BY <1>2, <1>3 DEF a, b

(* One turn of the loop is such a move, wherever the chunk was cut.         *)
LEMMA CharacterMoves ==
    ASSUME NEW p \in Scanners, NEW chunk \in Seq(Char), NEW k \in 1 .. Len(chunk),
           p.level >= 1, p.objectStart =< k
    PROVE  /\ MovesOn(p, Block(p, chunk, k - 1), chunk[k],
                      Scan(p, chunk, k), Block(Scan(p, chunk, k), chunk, k))
           /\ Scan(p, chunk, k).objectStart =< k + 1
<1> DEFINE c == chunk[k]
           object == p.prevBlock \o SubSeq(chunk, p.objectStart, k)
           q == Scan(p, chunk, k)
           b == Block(p, chunk, k - 1)
           b2 == Block(q, chunk, k)
<1>1. q \in Scanners /\ Scans(p, c, k, object, q)
  BY ScanFields
<1> HIDE DEF q
<1>2. /\ p.prevBlock \in Seq(Char) /\ p.objectStart \in 1 .. k
      /\ p.isInString \in BOOLEAN /\ p.isSkipped \in BOOLEAN
  BY DEF Scanners
<1>3. c \in Char /\ k \in Nat
  OBVIOUS
<1>4. p.level \in Int /\ LevelAfter(p, c) \in Int
  BY LevelType
<1>5. \/ Bare(p) /\ c = OpenBrace /\ LevelAfter(p, c) = p.level + 1
      \/ Bare(p) /\ c = CloseBrace /\ LevelAfter(p, c) = p.level - 1
      \/ ~(Bare(p) /\ c \in {OpenBrace, CloseBrace}) /\ LevelAfter(p, c) = p.level
  BY LevelMoves
<1>6. p.level > 1 => object = Append(b, c)
  BY <1>2, PieceGrows DEF Block
<1>7. p.level = 1 => b = p.prevBlock
  BY DEF Block
<1>8. q.level > 1 => b2 = q.prevBlock \o SubSeq(chunk, q.objectStart, k)
  BY DEF Block
<1>9. ~(q.level > 1) => b2 = q.prevBlock
  BY DEF Block
<1>10. /\ p.prevBlock \o SubSeq(chunk, k, k) = Append(p.prevBlock, c)
  <2>1. SubSeq(chunk, k, k - 1) = <<>> /\ k \in 1 .. k
    OBVIOUS
  <2>2. p.prevBlock \o SubSeq(chunk, k, k) = Append(p.prevBlock \o SubSeq(chunk, k, k - 1), c)
    BY <1>2, <2>1, PieceGrows
  <2>3. p.prevBlock \o <<>> = p.prevBlock
    BY <1>2
  <2> QED
    BY <2>1, <2>2, <2>3
<1> HIDE DEF b, b2, c
<1>11. ASSUME Found(p, c)
       PROVE  MovesOn(p, b, c, q, b2) /\ q.objectStart =< k + 1
  <2>1. p.level > 1
    BY <1>4, <1>5, <1>11 DEF Found
  <2>2. q.level = 1 /\ q.prevBlock = <<>> /\ q.objectStart = k + 1
        /\ q.pushed = Append(p.pushed, object)
    BY <1>1, <1>11 DEF Scans, Found
  <2> HIDE DEF object
  <2>4. ~(q.level > 1)
    BY <2>2
  <2>3. b2 = <<>> /\ object = Append(b, c)
    BY <1>6, <1>9, <2>1, <2>2, <2>4, Zenon
  <2> QED
    BY <1>1, <1>3, <1>11, <2>2, <2>3 DEF Scans, MovesOn
<1>12. ASSUME ~Found(p, c), LevelAfter(p, c) > 1
       PROVE  MovesOn(p, b, c, q, b2) /\ q.objectStart =< k + 1
  <2>1. q.level = LevelAfter(p, c) /\ q.prevBlock = p.prevBlock /\ q.pushed = p.pushed
    BY <1>1, <1>12 DEF Scans
  <2>2. b2 = p.prevBlock \o SubSeq(chunk, q.objectStart, k)
    BY <1>8, <1>12, <2>1
  <2>3. CASE p.level > 1
    <3>1. ~(Bare(p) /\ c = OpenBrace /\ LevelAfter(p, c) = 2)
      BY <1>4, <1>5, <2>3, CharactersDiffer
    <3>2. q.objectStart = p.objectStart
      BY <1>1, <1>12, <3>1 DEF Scans
    <3>3. b2 = Append(b, c)
      BY <1>6, <2>2, <2>3, <3>2
    <3> HIDE DEF object
    <3>4. q.objectStart =< k + 1
      BY <1>2, <1>3, <3>2
    <3> QED
      BY <1>1, <1>12, <2>1, <3>3, <3>4 DEF Scans, MovesOn
  <2>4. CASE ~(p.level > 1)
    <3>1. p.level = 1 /\ Bare(p) /\ c = OpenBrace /\ LevelAfter(p, c) = 2
      BY <1>4, <1>5, <1>12, <2>4
    <3>2. q.objectStart = k
      BY <1>1, <1>12, <3>1 DEF Scans
    <3>3. b2 = Append(b, c)
      BY <1>7, <1>10, <2>2, <3>1, <3>2
    <3> HIDE DEF object
    <3>4. q.objectStart =< k + 1
      BY <1>3, <3>2
    <3> QED
      BY <1>1, <1>12, <2>1, <3>3, <3>4 DEF Scans, MovesOn
  <2> QED
    BY <2>3, <2>4
<1>13. ASSUME ~Found(p, c), ~(LevelAfter(p, c) > 1)
       PROVE  MovesOn(p, b, c, q, b2) /\ q.objectStart =< k + 1
  <2>1. q.level = LevelAfter(p, c) /\ q.prevBlock = p.prevBlock /\ q.pushed = p.pushed
    BY <1>1, <1>13 DEF Scans
  <2>2. p.level = 1 /\ LevelAfter(p, c) # 2
    BY <1>4, <1>5, <1>13, CharactersDiffer DEF Found
  <2>3. b2 = b
    BY <1>7, <1>9, <1>13, <2>1, <2>2, Zenon
  <2>4. q.objectStart = p.objectStart
    BY <1>1, <1>13, <2>2 DEF Scans
  <2>5. q.objectStart =< k + 1
    BY <1>2, <1>3, <2>4
  <2> HIDE DEF object
  <2> QED
    BY <1>1, <1>13, <2>1, <2>3, <2>5 DEF Scans, MovesOn
<1>14. MovesOn(p, b, c, q, b2) /\ q.objectStart =< k + 1
  BY <1>11, <1>12, <1>13, Zenon
<1> QED
  BY <1>14 DEF b, b2, c, q

-----------------------------------------------------------------------------
(* The parser reads an object.                                              *)

(* The parser p has read j characters of the object, and b is them.         *)
Within(p, b, object, j) ==
    /\ p.level = 1 + Nesting(object)[j].depth
    /\ p.isInString <=> Nesting(object)[j].isInString
    /\ p.isSkipped <=> Nesting(object)[j].isSkipped
    /\ b = SubSeq(object, 1, j)

(* It has read nothing of the next one.                                     *)
Between(p, b) == p.level = 1 /\ ~p.isInString /\ ~p.isSkipped /\ b = <<>>

(* Deeper, field by field.                                                  *)
LEMMA DeeperFields ==
    ASSUME NEW at \in Depths, NEW c
    PROVE  /\ at.depth \in Int /\ Deeper(at, c).depth \in Int
           /\ at.isSkipped => at.isInString
           /\ ~at.isInString /\ c = OpenBrace => Deeper(at, c).depth = at.depth + 1
           /\ ~at.isInString /\ c = CloseBrace => Deeper(at, c).depth = at.depth - 1
           /\ at.isInString \/ c \notin {OpenBrace, CloseBrace}
                 => Deeper(at, c).depth = at.depth
           /\ Deeper(at, c).isInString <=>
                 IF c = Quote /\ ~at.isSkipped THEN ~at.isInString ELSE at.isInString
           /\ Deeper(at, c).isSkipped <=> at.isInString /\ c = Backslash /\ ~at.isSkipped
<1>1. at.depth \in Int /\ Deeper(at, c).depth \in Int /\ (at.isSkipped => at.isInString)
  <2>1. Deeper(at, c) \in Depths
    BY DeeperType
  <2> HIDE DEF Deeper
  <2> QED
    BY <2>1 DEF Depths
<1>2. /\ ~at.isInString /\ c = OpenBrace => Deeper(at, c).depth = at.depth + 1
      /\ ~at.isInString /\ c = CloseBrace => Deeper(at, c).depth = at.depth - 1
      /\ at.isInString \/ c \notin {OpenBrace, CloseBrace} => Deeper(at, c).depth = at.depth
  BY CharactersDiffer, Zenon DEF Deeper
<1>3. /\ Deeper(at, c).isInString <=>
            IF c = Quote /\ ~at.isSkipped THEN ~at.isInString ELSE at.isInString
      /\ Deeper(at, c).isSkipped <=> at.isInString /\ c = Backslash /\ ~at.isSkipped
  BY DEF Deeper
<1> QED
  BY <1>1, <1>2, <1>3, Zenon

(* One character of an object more: the parser is further inside it, or the *)
(* object is over and is pushed.                                            *)
LEMMA ObjectGoesOn ==
    ASSUME NEW p \in Scanners, NEW q, NEW b, NEW b2, NEW o \in Seq(Char), IsObject(o),
           NEW j \in 0 .. Len(o) - 1, Within(p, b, o, j), MovesOn(p, b, o[j + 1], q, b2)
    PROVE  /\ j + 1 < Len(o) => Within(q, b2, o, j + 1) /\ q.pushed = p.pushed
           /\ j + 1 = Len(o) => Between(q, b2) /\ q.pushed = Append(p.pushed, o)
           /\ q.done <=> p.done
           /\ q.failed <=> p.failed
<1> DEFINE c == o[j + 1]
           at == Nesting(o)[j]
           at2 == Nesting(o)[j + 1]
<1>1. /\ Len(o) \in Nat /\ j \in Nat /\ j \in 0 .. Len(o) /\ j + 1 \in 1 .. Len(o)
      /\ j + 1 \in 0 .. Len(o) /\ j + 1 - 1 = j
  OBVIOUS
<1>2. at \in Depths /\ at2 = Deeper(at, c) /\ Nesting(o)[0] = Outside
  <2>1. Nests(o, Nesting(o))
    BY NestingUnfolds
  <2> QED
    BY <1>1, <2>1 DEF Nests
<1>3. /\ o[1] = OpenBrace
      /\ c = Backslash => at.isInString
      /\ j > 0 => at.depth > 0
      /\ j + 1 < Len(o) => at2.depth > 0
      /\ j + 1 = Len(o) => at2.depth = 0
  <2>1. /\ o[1] = OpenBrace
        /\ \A n \in 1 .. Len(o) : o[n] = Backslash => Nesting(o)[n - 1].isInString
        /\ \A n \in 1 .. Len(o) - 1 : Nesting(o)[n].depth > 0
        /\ Nesting(o)[Len(o)].depth = 0
    BY DEF IsObject
  <2> QED
    BY <1>1, <2>1
<1>4. /\ p.level = 1 + at.depth
      /\ p.isInString <=> at.isInString
      /\ p.isSkipped <=> at.isSkipped
      /\ b = SubSeq(o, 1, j)
  BY DEF Within
<1>5. \/ Bare(p) /\ c = OpenBrace /\ LevelAfter(p, c) = p.level + 1
      \/ Bare(p) /\ c = CloseBrace /\ LevelAfter(p, c) = p.level - 1
      \/ ~(Bare(p) /\ c \in {OpenBrace, CloseBrace}) /\ LevelAfter(p, c) = p.level
  BY LevelMoves
<1>6. /\ q.level = LevelAfter(p, c)
      /\ q.isSkipped <=> ~p.isSkipped /\ c = Backslash
      /\ q.isInString <=> IF ~p.isSkipped /\ c = Quote THEN ~p.isInString ELSE p.isInString
      /\ b2 = IF Found(p, c) THEN <<>> ELSE IF LevelAfter(p, c) > 1 THEN Append(b, c) ELSE b
      /\ q.pushed = IF Found(p, c) THEN Append(p.pushed, Append(b, c)) ELSE p.pushed
      /\ q.done <=> p.done \/ (Bare(p) /\ c = CloseBracket /\ LevelAfter(p, c) = 1)
      /\ q.failed <=> p.failed
  BY DEF MovesOn
<1>7. Append(b, c) = SubSeq(o, 1, j + 1)
  BY <1>1, <1>4
<1>8. j + 1 = Len(o) => Append(b, c) = o
  BY <1>1, <1>7
<1>9. /\ at.depth \in Int /\ at2.depth \in Int
      /\ at.isSkipped => at.isInString
      /\ ~at.isInString /\ c = OpenBrace => at2.depth = at.depth + 1
      /\ ~at.isInString /\ c = CloseBrace => at2.depth = at.depth - 1
      /\ at.isInString \/ c \notin {OpenBrace, CloseBrace} => at2.depth = at.depth
      /\ at2.isInString <=> IF c = Quote /\ ~at.isSkipped THEN ~at.isInString ELSE at.isInString
      /\ at2.isSkipped <=> at.isInString /\ c = Backslash /\ ~at.isSkipped
  BY <1>2, DeeperFields
<1>10. (at = Outside /\ c = OpenBrace) \/ j > 0
  BY <1>1, <1>2, <1>3
<1>11. at = Outside => ~at.isInString /\ at.depth = 0
  BY DEF Outside
<1> HIDE DEF c, at, at2
<1>12. Bare(p) <=> ~at.isInString
  BY <1>4, <1>9 DEF Bare
<1>13. LevelAfter(p, c) = 1 + at2.depth
  BY <1>4, <1>5, <1>9, <1>12, CharactersDiffer
<1>14. j + 1 < Len(o) \/ j + 1 = Len(o)
  BY <1>1
<1>15. at2.depth = 0 => Bare(p) /\ c = CloseBrace
  BY <1>3, <1>4, <1>5, <1>9, <1>10, <1>11, <1>12, <1>13, CharactersDiffer
<1>16. Found(p, c) <=> at2.depth = 0
  BY <1>9, <1>13, <1>15 DEF Found
<1>17. at2.depth > 0 => ~Found(p, c) /\ LevelAfter(p, c) > 1 /\ LevelAfter(p, c) # 1
  BY <1>9, <1>13, <1>16
<1>18. at2.depth = 0 => c # CloseBracket /\ c # Quote /\ c # Backslash /\ Found(p, c)
  BY <1>15, <1>16, CharactersDiffer
<1>19. ASSUME j + 1 < Len(o)
       PROVE  Within(q, b2, o, j + 1) /\ q.pushed = p.pushed /\ (q.done <=> p.done)
  <2>1. at2.depth > 0
    BY <1>3, <1>19
  <2>2. q.pushed = p.pushed /\ b2 = Append(b, c) /\ (q.done <=> p.done)
    BY <1>6, <1>17, <2>1, Zenon
  <2>3. q.level = 1 + at2.depth
    BY <1>6, <1>13
  <2>4. (q.isInString <=> at2.isInString) /\ (q.isSkipped <=> at2.isSkipped)
    BY <1>3, <1>4, <1>6, <1>9
  <2> QED
    BY <1>7, <2>2, <2>3, <2>4 DEF Within, at2
<1>20. ASSUME j + 1 = Len(o)
       PROVE  Between(q, b2) /\ q.pushed = Append(p.pushed, o) /\ (q.done <=> p.done)
  <2>1. at2.depth = 0
    BY <1>3, <1>20
  <2>2. q.pushed = Append(p.pushed, Append(b, c)) /\ b2 = <<>>
    BY <1>6, <1>18, <2>1, Zenon
  <2>3. q.pushed = Append(p.pushed, o) /\ (q.done <=> p.done)
    BY <1>6, <1>8, <1>18, <1>20, <2>1, <2>2, Zenon
  <2>4. q.level = 1
    BY <1>6, <1>13, <2>1
  <2>5. ~q.isInString /\ ~q.isSkipped
    BY <1>6, <1>15, <1>18, <2>1 DEF Bare
  <2> QED
    BY <2>2, <2>3, <2>4, <2>5 DEF Between
<1> QED
  BY <1>6, <1>14, <1>19, <1>20

-----------------------------------------------------------------------------
(* The parser reads the body.                                               *)

(* With m characters of the body i objects are complete.                    *)
Completed(m, i) ==
    /\ i \in 0 .. Len(Objects) /\ End(i) =< m
    /\ i < Len(Objects) => m < End(i + 1)

(* Some of the next object has been sent, or the comma before it.           *)
Reading(m, i) == i < Len(Objects) /\ m > End(i)

(* The parser p, with b of an unfinished object, has been given m characters *)
(* of the body, in which i objects are complete: it has pushed these, and is *)
(* where it should be in the next.                                          *)
OnTrack(p, b, m, i) ==
    /\ m \in 1 .. BodyLength /\ Completed(m, i)
    /\ p.pushed = SubSeq(Objects, 1, i)
    /\ p.done <=> m = BodyLength
    /\ ~p.failed
    /\ Reading(m, i) => Within(p, b, Objects[i + 1], m - End(i) - 1)
    /\ ~Reading(m, i) => Between(p, b)

(* Between objects a comma or the last bracket follows.                     *)
LEMMA NothingGoesOn ==
    ASSUME NEW p \in Scanners, NEW q, NEW b, NEW b2, NEW c \in {CloseBracket, "x"},
           Between(p, b), MovesOn(p, b, c, q, b2)
    PROVE  /\ Between(q, b2) /\ q.pushed = p.pushed
           /\ q.done <=> p.done \/ c = CloseBracket
           /\ q.failed <=> p.failed
<1>1. c # OpenBrace /\ c # CloseBrace /\ c # Quote /\ c # Backslash
  BY CharactersDiffer
<1>2. p.level = 1 /\ ~p.isInString /\ ~p.isSkipped /\ b = <<>> /\ Bare(p)
  BY DEF Between, Bare
<1>3. LevelAfter(p, c) = 1 /\ ~Found(p, c)
  BY <1>1, <1>2, LevelMoves DEF Found
<1>4. /\ q.level = LevelAfter(p, c)
      /\ q.isSkipped <=> ~p.isSkipped /\ c = Backslash
      /\ q.isInString <=> IF ~p.isSkipped /\ c = Quote THEN ~p.isInString ELSE p.isInString
      /\ b2 = IF Found(p, c) THEN <<>> ELSE IF LevelAfter(p, c) > 1 THEN Append(b, c) ELSE b
      /\ q.pushed = IF Found(p, c) THEN Append(p.pushed, Append(b, c)) ELSE p.pushed
      /\ q.done <=> p.done \/ (Bare(p) /\ c = CloseBracket /\ LevelAfter(p, c) = 1)
      /\ q.failed <=> p.failed
  BY DEF MovesOn
<1>5. b2 = b
  BY <1>2, <1>3, <1>4
<1>6. q.pushed = p.pushed /\ (q.done <=> p.done \/ c = CloseBracket)
  BY <1>2, <1>3, <1>4, Zenon
<1> QED
  BY <1>1, <1>2, <1>3, <1>4, <1>5, <1>6 DEF Between

(* The last bracket comes after all objects.                                *)
LEMMA BodyIsLonger ==
    /\ BodyLength \in Nat /\ BodyLength > 1
    /\ \A i \in 0 .. Len(Objects) : End(i) < BodyLength
    /\ Len(Objects) > 0 => BodyLength = End(Len(Objects)) + 1
    /\ Len(Objects) = 0 => BodyLength = 2
<1>1. /\ Len(Objects) \in Nat /\ End(Len(Objects)) \in Nat /\ End(0) = 0
      /\ \A i \in 0 .. Len(Objects) : End(i) \in Nat
  BY ObjectsEnd
<1>2. \A i \in 0 .. Len(Objects) : End(i) =< End(Len(Objects))
  BY <1>1, EndsInOrder
<1>3. Len(Objects) > 0 => End(Len(Objects)) > 0
  <2>1. ASSUME Len(Objects) > 0 PROVE End(Len(Objects)) > 0
    <3>1. 1 \in 1 .. Len(Objects) /\ 1 - 1 = 0 /\ 1 \in 0 .. Len(Objects)
      BY <1>1, <2>1
    <3>2. End(1) = 0 + 1 + Len(Objects[1]) /\ Len(Objects[1]) \in Nat
      BY <1>1, <3>1, ObjectsEnd
    <3>3. End(1) =< End(Len(Objects)) /\ End(1) \in Nat
      BY <1>1, <1>2, <3>1
    <3> QED
      BY <1>1, <3>2, <3>3
  <2> QED
    BY <2>1
<1>4. Len(Objects) > 0 => BodyLength = End(Len(Objects)) + 1
  BY <1>1 DEF BodyLength
<1>5. Len(Objects) = 0 => BodyLength = 2
  BY DEF BodyLength
<1>6. Len(Objects) > 0 \/ Len(Objects) = 0
  BY <1>1
<1> HIDE DEF BodyLength
<1>7. BodyLength \in Nat /\ BodyLength > 1
  BY <1>1, <1>3, <1>4, <1>5, <1>6
<1>8. ASSUME NEW i \in 0 .. Len(Objects) PROVE End(i) < BodyLength
  <2>1. CASE Len(Objects) > 0
    BY <1>1, <1>2, <1>4, <2>1
  <2>2. CASE Len(Objects) = 0
    <3>1. i = 0
      BY <2>2
    <3> QED
      BY <1>1, <1>5, <2>2, <3>1
  <2> QED
    BY <1>6, <2>1, <2>2
<1> QED
  BY <1>4, <1>5, <1>7, <1>8

(* The object after the first i ones.                                       *)
LEMMA NextObject ==
    ASSUME NEW i \in 0 .. Len(Objects), i < Len(Objects)
    PROVE  /\ Objects[i + 1] \in Seq(Char) /\ IsObject(Objects[i + 1])
           /\ Len(Objects[i + 1]) \in Nat /\ Len(Objects[i + 1]) > 0
           /\ i \in Nat /\ i + 1 \in 1 .. Len(Objects) /\ i + 1 \in 0 .. Len(Objects)
           /\ End(i) \in Nat /\ End(i + 1) \in Nat
           /\ End(i + 1) = End(i) + 1 + Len(Objects[i + 1])
           /\ Append(SubSeq(Objects, 1, i), Objects[i + 1]) = SubSeq(Objects, 1, i + 1)
<1>1. i \in Nat /\ i + 1 \in 1 .. Len(Objects) /\ i + 1 - 1 = i /\ i + 1 \in 0 .. Len(Objects)
  BY ObjectsEnd
<1>2. /\ Objects[i + 1] \in Seq(Char) /\ IsObject(Objects[i + 1])
      /\ Len(Objects[i + 1]) \in Nat /\ Len(Objects[i + 1]) > 0
      /\ End(i) \in Nat /\ End(i + 1) \in Nat
  BY <1>1, ObjectsEnd
<1>3. End(i + 1) = End(i) + 1 + Len(Objects[i + 1])
  BY <1>1, ObjectsEnd
<1>4. Append(SubSeq(Objects, 1, i), Objects[i + 1]) = SubSeq(Objects, 1, i + 1)
  BY <1>1, CharsOfObjects
<1> QED
  BY <1>1, <1>2, <1>3, <1>4

(* One more character of the body, inside an object,                        *)
LEMMA TrackInside ==
    ASSUME NEW p \in Scanners, NEW q, NEW b, NEW b2, NEW c, NEW m, NEW i,
           OnTrack(p, b, m, i), Reading(m, i), Character(m + 1, c), MovesOn(p, b, c, q, b2)
    PROVE  OnTrack(q, b2, m + 1, i) \/ OnTrack(q, b2, m + 1, i + 1)
<1> DEFINE o == Objects[i + 1]
           e == End(i)
           e2 == End(i + 1)
           j == m - e - 1
<1>1. /\ i \in 0 .. Len(Objects) /\ i < Len(Objects) /\ m \in 1 .. BodyLength
      /\ m > e /\ m < e2 /\ p.pushed = SubSeq(Objects, 1, i)
      /\ ~p.failed /\ (p.done <=> m = BodyLength) /\ Within(p, b, o, j)
  BY DEF OnTrack, Completed, Reading
<1>2. /\ o \in Seq(Char) /\ IsObject(o) /\ Len(o) \in Nat
      /\ i \in Nat /\ i + 1 \in 1 .. Len(Objects) /\ i + 1 \in 0 .. Len(Objects)
      /\ e \in Nat /\ e2 \in Nat /\ e2 = e + 1 + Len(o)
      /\ Append(SubSeq(Objects, 1, i), o) = SubSeq(Objects, 1, i + 1)
  BY <1>1, NextObject
<1>3. BodyLength \in Nat /\ e2 < BodyLength
  BY <1>2, BodyIsLonger
<1>4. Character(e + 1 + (j + 1), o[j + 1])
  <2>1. j + 1 \in 1 .. Len(o)
    BY <1>1, <1>2, <1>3
  <2>2. \A k \in 1 .. Len(Objects[i + 1]) : Character(End(i + 1 - 1) + 1 + k, Objects[i + 1][k])
    BY <1>2, BodyShape
  <2>3. i + 1 - 1 = i
    BY <1>2
  <2> QED
    BY <2>1, <2>2, <2>3
<1> HIDE DEF o, e, e2
<1>5. /\ j \in 0 .. Len(o) - 1 /\ e + 1 + (j + 1) = m + 1 /\ m + 1 \in 1 .. BodyLength
      /\ m + 1 # BodyLength /\ m # BodyLength
  BY <1>1, <1>2, <1>3
<1>6. c = o[j + 1]
  BY <1>4, <1>5 DEF Character
<1> HIDE DEF j
<1>7. /\ j + 1 < Len(o) => Within(q, b2, o, j + 1) /\ q.pushed = p.pushed
      /\ j + 1 = Len(o) => Between(q, b2) /\ q.pushed = Append(p.pushed, o)
      /\ q.done <=> p.done
      /\ q.failed <=> p.failed
  BY <1>1, <1>2, <1>5, <1>6, ObjectGoesOn
<1>8. CASE j + 1 < Len(o)
  <2>1. m + 1 > e /\ m + 1 < e2 /\ e =< m + 1 /\ m + 1 - e - 1 = j + 1
    BY <1>1, <1>2, <1>3, <1>8 DEF j
  <2>2. Completed(m + 1, i) /\ Reading(m + 1, i)
    BY <1>1, <2>1 DEF Completed, Reading, e, e2
  <2> DEFINE m2 == m + 1
  <2>3. m2 - End(i) - 1 = j + 1 /\ Within(q, b2, Objects[i + 1], j + 1)
    <3>3. m \in Int /\ e \in Int
      BY <1>1, <1>2, <1>3
    <3>4. m2 - e - 1 = j + 1
      BY ONLY <3>3 DEF j
    <3>1. m2 - e - 1 = j + 1 /\ Within(q, b2, o, j + 1)
      BY <1>7, <1>8, <3>4, Zenon
    <3>2. e = End(i) /\ o = Objects[i + 1]
      BY DEF e, o
    <3> HIDE DEF m2, j
    <3> QED
      BY ONLY <3>1, <3>2
  <2>4. q.pushed = SubSeq(Objects, 1, i) /\ ~q.failed /\ (q.done <=> m + 1 = BodyLength)
    BY <1>1, <1>5, <1>7, <1>8
  <2>6. /\ m2 \in 1 .. BodyLength /\ Completed(m2, i) /\ Reading(m2, i)
        /\ q.done <=> m2 = BodyLength
    BY <1>5, <2>2, <2>4
  <2> HIDE DEF m2, j
  <2>5. OnTrack(q, b2, m2, i)
    BY <2>3, <2>4, <2>6 DEF OnTrack
  <2> QED
    BY <2>5 DEF m2
<1>9. CASE j + 1 = Len(o)
  <2>1. m + 1 = e2
    BY <1>1, <1>2, <1>3, <1>9 DEF j
  <2>2. i + 1 < Len(Objects) => e2 < End(i + 1 + 1)
    <3>1. ASSUME i + 1 < Len(Objects) PROVE e2 < End(i + 1 + 1)
      <4> DEFINE n == i + 1
      <4>1. n \in 0 .. Len(Objects) /\ n < Len(Objects)
        BY <1>2, <3>1
      <4> HIDE DEF n
      <4>2. End(n + 1) = End(n) + 1 + Len(Objects[n + 1]) /\ End(n) \in Nat
            /\ Len(Objects[n + 1]) \in Nat
        BY <4>1, NextObject
      <4>3. End(n) < End(n + 1)
        BY <4>2
      <4> QED
        BY <4>3 DEF n, e2
    <3> QED
      BY <3>1
  <2>3. ~(e2 > e2) /\ e2 =< e2
    BY <1>2
  <2>4. Completed(m + 1, i + 1)
    BY <1>2, <2>1, <2>2, <2>3 DEF Completed, e2
  <2>5. ~Reading(m + 1, i + 1)
    BY <2>1, <2>3 DEF Reading, e2
  <2>6. q.pushed = SubSeq(Objects, 1, i + 1) /\ ~q.failed /\ (q.done <=> m + 1 = BodyLength)
    BY <1>1, <1>2, <1>5, <1>7, <1>9
  <2>7. Between(q, b2)
    BY <1>7, <1>9
  <2>8. OnTrack(q, b2, m + 1, i + 1)
    BY <1>5, <2>4, <2>5, <2>6, <2>7 DEF OnTrack
  <2> QED
    BY <2>8
<1>10. j + 1 < Len(o) \/ j + 1 = Len(o)
  BY <1>2, <1>5
<1> QED
  BY <1>8, <1>9, <1>10

(* or between two objects, or after the last one:                           *)
LEMMA TrackBetween ==
    ASSUME NEW p \in Scanners, NEW q, NEW b, NEW b2, NEW c, NEW m, NEW i,
           OnTrack(p, b, m, i), ~Reading(m, i), m < BodyLength,
           Character(m + 1, c), MovesOn(p, b, c, q, b2)
    PROVE  OnTrack(q, b2, m + 1, i)
<1> DEFINE e == End(i)
<1>1. /\ i \in 0 .. Len(Objects) /\ m \in 1 .. BodyLength /\ e =< m
      /\ p.pushed = SubSeq(Objects, 1, i) /\ ~p.failed /\ (p.done <=> m = BodyLength)
      /\ Between(p, b)
  BY DEF OnTrack, Completed
<1>2. /\ Len(Objects) \in Nat /\ i \in Nat /\ e \in Nat /\ m \in Nat /\ BodyLength \in Nat
      /\ e < BodyLength
  BY <1>1, ObjectsEnd, BodyIsLonger
<1>3. ~p.done /\ m + 1 \in 1 .. BodyLength /\ e =< m + 1
  BY <1>1, <1>2
<1>4. CASE i < Len(Objects)
  <2> DEFINE o == Objects[i + 1]
             e2 == End(i + 1)
  <2>1. /\ o \in Seq(Char) /\ IsObject(o) /\ Len(o) \in Nat /\ Len(o) > 0
        /\ i + 1 \in 1 .. Len(Objects) /\ i + 1 \in 0 .. Len(Objects)
        /\ e2 \in Nat /\ e2 = e + 1 + Len(o)
    BY <1>1, <1>4, NextObject
  <2>2. m = e
    BY <1>1, <1>2, <1>4 DEF Reading
  <2>3. i # 0
    BY <1>1, <1>2, <2>2, ObjectsEnd
  <2>4. Character(m + 1, "x")
    <3>1. i + 1 \in 2 .. Len(Objects) /\ i + 1 - 1 = i
      BY <1>2, <2>1, <2>3
    <3> DEFINE n == i + 1
    <3>2. n \in 2 .. Len(Objects) /\ n - 1 = i
      BY <1>2, <2>1, <3>1
    <3> HIDE DEF n
    <3>3. Character(End(n - 1) + 1, "x")
      BY <3>2, BodyShape
    <3> QED
      BY <2>2, <3>2, <3>3 DEF e
  <2>5. c = "x"
    BY <2>4 DEF Character
  <2>6. /\ Between(q, b2) /\ q.pushed = p.pushed
        /\ q.done <=> p.done \/ c = CloseBracket
        /\ q.failed <=> p.failed
    BY <1>1, <2>5, NothingGoesOn
  <2>7. e2 < BodyLength
    BY <2>1, BodyIsLonger
  <2> HIDE DEF e, e2, o
  <2>8. m + 1 # BodyLength /\ m + 1 < e2 /\ m + 1 > e /\ m + 1 - e - 1 = 0
    BY <1>2, <2>1, <2>2, <2>7
  <2>9. ~q.done /\ ~q.failed /\ q.pushed = SubSeq(Objects, 1, i)
    BY <1>1, <1>3, <2>5, <2>6, CharactersDiffer
  <2>10. Completed(m + 1, i) /\ Reading(m + 1, i)
    BY <1>1, <1>3, <1>4, <2>8 DEF Completed, Reading, e, e2
  <2>11. Within(q, b2, o, 0)
    <3>1. Nesting(o)[0] = Outside
      BY <2>1, NestingUnfolds DEF Nests
    <3>2. SubSeq(o, 1, 0) = <<>>
      BY <2>1
    <3>3. Outside.depth = 0 /\ ~Outside.isInString /\ ~Outside.isSkipped
      BY DEF Outside
    <3> QED
      BY <2>6, <3>1, <3>2, <3>3 DEF Within, Between
  <2> DEFINE m2 == m + 1
  <2>12. m2 - End(i) - 1 = 0 /\ Within(q, b2, Objects[i + 1], 0)
    <3>3. m \in Int /\ e \in Int /\ m = e
      BY <1>2, <2>2
    <3>1. m2 - e - 1 = 0
      BY ONLY <3>3
    <3>2. e = End(i) /\ o = Objects[i + 1]
      BY DEF e, o
    <3> HIDE DEF m2
    <3> QED
      BY ONLY <2>11, <3>1, <3>2
  <2>13. /\ m2 \in 1 .. BodyLength /\ Completed(m2, i) /\ Reading(m2, i)
         /\ q.done <=> m2 = BodyLength
    BY <1>3, <2>8, <2>9, <2>10
  <2> HIDE DEF m2
  <2>14. OnTrack(q, b2, m2, i)
    BY <2>9, <2>12, <2>13 DEF OnTrack
  <2> QED
    BY <2>14 DEF m2
<1>5. CASE ~(i < Len(Objects))
  <2>1. i = Len(Objects)
    BY <1>1, <1>2, <1>5
  <2>2. m + 1 = BodyLength
    <3>1. CASE Len(Objects) > 0
      BY <1>1, <1>2, <2>1, <3>1, BodyIsLonger
    <3>2. CASE Len(Objects) = 0
      BY <1>1, <1>2, <3>2, BodyIsLonger
    <3> QED
      BY <1>2, <3>1, <3>2
  <2>3. c = CloseBracket
    BY <2>2, BodyShape DEF Character
  <2>4. /\ Between(q, b2) /\ q.pushed = p.pushed
        /\ q.done <=> p.done \/ c = CloseBracket
        /\ q.failed <=> p.failed
    BY <1>1, <2>3, NothingGoesOn
  <2>5. q.done /\ ~q.failed /\ q.pushed = SubSeq(Objects, 1, i)
    BY <1>1, <2>3, <2>4
  <2>6. Completed(m + 1, i) /\ ~Reading(m + 1, i)
    BY <1>1, <1>3, <1>5 DEF Completed, Reading
  <2> QED
    BY <1>3, <2>2, <2>4, <2>5, <2>6 DEF OnTrack
<1> QED
  BY <1>4, <1>5

(* the parser stays on its track.                                           *)
LEMMA TrackGoesOn ==
    ASSUME NEW p \in Scanners, NEW q, NEW b, NEW b2, NEW c, NEW m, NEW i,
           OnTrack(p, b, m, i), m < BodyLength, Character(m + 1, c), MovesOn(p, b, c, q, b2)
    PROVE  OnTrack(q, b2, m + 1, i) \/ OnTrack(q, b2, m + 1, i + 1)
<1>1. CASE Reading(m, i)
  BY <1>1, TrackInside
<1>2. CASE ~Reading(m, i)
  BY <1>2, TrackBetween
<1> QED
  BY <1>1, <1>2

-----------------------------------------------------------------------------
(* The parser reads a chunk.                                                *)

(* What the loop over a chunk is a solution of.                             *)
Scannings(p, chunk, before, f) ==
    /\ f \in [before .. Len(chunk) -> Scanners] /\ f[before] = p
    /\ \A k \in before + 1 .. Len(chunk) : f[k] = Scan(f[k - 1], chunk, k)

(* Scanned is the end of such a loop.                                       *)
LEMMA ScannedUnfolds ==
    ASSUME NEW p \in Scanners, NEW chunk \in Seq(Char), NEW before \in 0 .. Len(chunk)
    PROVE  \E f : Scannings(p, chunk, before, f) /\ Scanned(p, chunk, before) = f[Len(chunk)]
<1> DEFINE n == Len(chunk)
           step == [k \in before + 1 .. n |-> [v \in Scanners |-> Scan(v, chunk, k)]]
           Is(f) == f = [k \in before .. n |->
                            IF k = before THEN p ELSE Scan(f[k - 1], chunk, k)]
<1>1. n \in Nat /\ before \in Nat /\ before =< n
  OBVIOUS
<1>2. \A k \in before + 1 .. n : k \in 1 .. n /\ k # before /\ k \in before .. n
                                 /\ k - 1 \in before .. n
  BY <1>1
<1>3. step \in [before + 1 .. n -> [Scanners -> Scanners]]
  BY <1>2, ScanFields
<1>4. PICK f : Runs(Scanners, p, step, f, before, n)
  <2> HIDE DEF step, n
  <2> QED
    BY <1>1, <1>3, RecursionBetween
<1>5. f \in [before .. n -> Scanners] /\ f[before] = p
  BY <1>4 DEF Runs
<1>6. ASSUME NEW k \in before + 1 .. n PROVE f[k] = Scan(f[k - 1], chunk, k)
  <2>1. f[k] = step[k][f[k - 1]] /\ f[k - 1] \in Scanners
    BY <1>2, <1>4, <1>5 DEF Runs
  <2> QED
    BY <2>1
<1> HIDE DEF step
<1>7. Is(f)
  <2>1. \A k \in before .. n : k # before => k \in before + 1 .. n
    BY <1>1
  <2>2. \A k \in before .. n : f[k] = IF k = before THEN p ELSE Scan(f[k - 1], chunk, k)
    BY <1>5, <1>6, <2>1
  <2> QED
    BY <1>5, <2>2
<1> DEFINE g == CHOOSE f1 : Is(f1)
<1>8. Is(g)
  <2> HIDE DEF Is
  <2> QED
    BY <1>7
<1>9. Scanned(p, chunk, before) = g[n]
  BY DEF Scanned
<1> HIDE DEF g
<1>10. \A k \in before .. n : g[k] = IF k = before THEN p ELSE Scan(g[k - 1], chunk, k)
  BY <1>8
<1>11. before \in before .. n /\ g[before] = p
  BY <1>1, <1>10
<1>12. \A k \in before + 1 .. n : g[k] = Scan(g[k - 1], chunk, k)
  BY <1>2, <1>10
<1> DEFINE Good == {k \in Nat : before + k =< n => g[before + k] = f[before + k]}
<1>13. 0 \in Good
  BY <1>1, <1>5, <1>11
<1>14. ASSUME NEW k \in Nat, k \in Good PROVE k + 1 \in Good
  <2> SUFFICES ASSUME before + (k + 1) =< n
               PROVE  g[before + (k + 1)] = f[before + (k + 1)]
    OBVIOUS
  <2> DEFINE a == before + k
             b == before + (k + 1)
  <2>1. b \in before + 1 .. n /\ b - 1 = a /\ a =< n
    BY <1>1
  <2>2. g[a] = f[a]
    BY <1>14, <2>1
  <2> HIDE DEF a, b
  <2>3. g[b] = Scan(g[b - 1], chunk, b) /\ f[b] = Scan(f[b - 1], chunk, b)
    BY <1>6, <1>12, <2>1
  <2>4. g[b] = f[b]
    BY <2>1, <2>2, <2>3
  <2> QED
    BY <2>4 DEF b
<1> HIDE DEF Good
<1>15. Nat \subseteq Good
  BY <1>13, <1>14, Induction
<1>16. ASSUME NEW k \in before .. n PROVE g[k] = f[k]
  <2>1. k - before \in Nat /\ before + (k - before) = k /\ k =< n
    BY <1>1
  <2> QED
    BY <1>15, <2>1 DEF Good
<1>17. g[n] = f[n]
  BY <1>1, <1>16
<1>18. Scannings(p, chunk, before, f)
  BY <1>5, <1>6 DEF Scannings
<1> QED
  BY <1>9, <1>17, <1>18

(* Once it has been given something, the parser is at level 1 or deeper.    *)
LEMMA TrackLevel ==
    ASSUME NEW p, NEW b, NEW m, NEW i, OnTrack(p, b, m, i)
    PROVE  p.level \in Int /\ p.level >= 1
<1>1. CASE Reading(m, i)
  <2> DEFINE o == Objects[i + 1]
             j == m - End(i) - 1
  <2>1. /\ i \in 0 .. Len(Objects) /\ i < Len(Objects) /\ m \in 1 .. BodyLength
        /\ m > End(i) /\ m < End(i + 1) /\ Within(p, b, o, j)
    BY <1>1 DEF OnTrack, Completed, Reading
  <2>2. /\ o \in Seq(Char) /\ IsObject(o) /\ Len(o) \in Nat
        /\ End(i) \in Nat /\ End(i + 1) = End(i) + 1 + Len(o)
    BY <2>1, NextObject
  <2>3. j \in 0 .. Len(o) /\ (j # 0 => j \in 1 .. Len(o) - 1)
    BY <2>1, <2>2, BodyIsLonger
  <2>4. p.level = 1 + Nesting(o)[j].depth
    BY <2>1 DEF Within
  <2> HIDE DEF o, j
  <2>5. Nesting(o)[j] \in Depths /\ Nesting(o)[0] = Outside
    BY <2>2, <2>3, NestingUnfolds DEF Nests
  <2>6. Nesting(o)[j].depth \in Int /\ Outside.depth = 0
    BY <2>5 DEF Depths, Outside
  <2>7. j # 0 => Nesting(o)[j].depth > 0
    BY <2>2, <2>3 DEF IsObject
  <2>8. Nesting(o)[j].depth >= 0
    BY <2>5, <2>6, <2>7
  <2> QED
    BY <2>4, <2>6, <2>8
<1>2. CASE ~Reading(m, i)
  BY <1>2 DEF OnTrack, Between
<1> QED
  BY <1>1, <1>2

(* What the parser p has got to at index k of a chunk that comes after m    *)
(* characters of the body.                                                  *)
Along(p, chunk, m, k) ==
    /\ p.objectStart =< k + 1
    /\ \E i : OnTrack(p, Block(p, chunk, k), m + k, i)

(* One turn of the loop.                                                    *)
LEMMA OneIndexOn ==
    ASSUME NEW p \in Scanners, NEW chunk \in Seq(Char), NEW k \in 1 .. Len(chunk),
           NEW m \in Nat, Along(p, chunk, m, k - 1), Character(m + k, chunk[k])
    PROVE  Along(Scan(p, chunk, k), chunk, m, k)
<1> DEFINE b == Block(p, chunk, k - 1)
           q == Scan(p, chunk, k)
           b2 == Block(q, chunk, k)
           m1 == m + (k - 1)
           m2 == m + k
<1>1. p.objectStart =< k /\ k \in Nat /\ m1 \in Nat /\ m1 + 1 = m2
  BY DEF Along
<1>2. PICK i : OnTrack(p, b, m1, i)
  BY DEF Along
<1>3. m2 \in 1 .. BodyLength /\ BodyLength \in Nat /\ Character(m2, chunk[k])
  BY BodyShape, BodyIsLonger DEF Character
<1>4. p.level >= 1
  BY <1>2, TrackLevel
<1>5. MovesOn(p, b, chunk[k], q, b2) /\ q.objectStart =< k + 1
  BY <1>1, <1>4, CharacterMoves
<1> HIDE DEF b, q, b2, m1, m2
<1>6. m1 < BodyLength /\ Character(m1 + 1, chunk[k])
  BY <1>1, <1>3
<1>7. OnTrack(q, b2, m1 + 1, i) \/ OnTrack(q, b2, m1 + 1, i + 1)
  BY <1>2, <1>5, <1>6, TrackGoesOn
<1>8. \E i2 : OnTrack(q, b2, m2, i2)
  BY <1>1, <1>7
<1> QED
  BY <1>5, <1>8 DEF Along, q, b2, m2

(* The whole loop.                                                          *)
LEMMA ChunkIsRead ==
    ASSUME NEW p \in Scanners, NEW chunk \in Seq(Char), NEW before \in 0 .. Len(chunk),
           NEW m \in Nat, Along(p, chunk, m, before),
           \A k \in 1 .. Len(chunk) : Character(m + k, chunk[k])
    PROVE  /\ Scanned(p, chunk, before) \in Scanners
           /\ Along(Scanned(p, chunk, before), chunk, m, Len(chunk))
<1> DEFINE n == Len(chunk)
<1>1. n \in Nat /\ before \in Nat /\ before =< n
  OBVIOUS
<1>2. PICK f : Scannings(p, chunk, before, f) /\ Scanned(p, chunk, before) = f[n]
  BY ScannedUnfolds
<1>3. /\ f \in [before .. n -> Scanners] /\ f[before] = p
      /\ \A k \in before + 1 .. n : f[k] = Scan(f[k - 1], chunk, k)
  BY <1>2 DEF Scannings
<1> DEFINE Good == {k \in Nat : before + k =< n => Along(f[before + k], chunk, m, before + k)}
<1>4. 0 \in Good
  <2>1. before + 0 = before
    BY <1>1
  <2> QED
    BY <1>3, <2>1
<1>5. ASSUME NEW k \in Nat, k \in Good PROVE k + 1 \in Good
  <2> SUFFICES ASSUME before + (k + 1) =< n
               PROVE  Along(f[before + (k + 1)], chunk, m, before + (k + 1))
    OBVIOUS
  <2> DEFINE a == before + k
             b == before + (k + 1)
  <2>1. b \in before + 1 .. n /\ b - 1 = a /\ a =< n /\ a \in before .. n /\ b \in 1 .. n
    BY <1>1
  <2>2. Along(f[a], chunk, m, a) /\ f[a] \in Scanners
    BY <1>3, <1>5, <2>1
  <2> HIDE DEF a, b
  <2>3. f[b] = Scan(f[a], chunk, b) /\ Character(m + b, chunk[b])
    BY <1>3, <2>1
  <2>4. Along(f[a], chunk, m, b - 1)
    BY <2>1, <2>2
  <2>5. Along(f[b], chunk, m, b)
    BY <2>1, <2>2, <2>3, <2>4, OneIndexOn
  <2> QED
    BY <2>5 DEF b
<1> HIDE DEF Good
<1>6. Nat \subseteq Good
  BY <1>4, <1>5, Induction
<1>7. n - before \in Nat /\ before + (n - before) = n /\ n =< n /\ n \in before .. n
  BY <1>1
<1>8. Along(f[n], chunk, m, n)
  BY <1>6, <1>7 DEF Good
<1>9. f[n] \in Scanners
  BY <1>3, <1>7
<1> QED
  BY <1>2, <1>8, <1>9

(* A parser between two chunks.                                             *)
Parsers ==
    [level : Int, isInString : BOOLEAN, isSkipped : BOOLEAN, prevBlock : Seq(Char),
     pushed : Seq(Seq(Char)), done : BOOLEAN, failed : BOOLEAN]

(* A parser that has been given m characters of the body.                   *)
Parses(p, m) ==
    /\ p \in Parsers
    /\ m = 0 => p = NewParser
    /\ m > 0 => \E i \in 0 .. Len(Objects) : OnTrack(p, p.prevBlock, m, i)

(* The track is that of the fields, not of the record.                      *)
LEMMA SameTrack ==
    ASSUME NEW p, NEW q, NEW b, NEW m, NEW i, OnTrack(p, b, m, i),
           q.level = p.level, q.isInString = p.isInString, q.isSkipped = p.isSkipped,
           q.pushed = p.pushed, q.done = p.done, q.failed = p.failed
    PROVE  OnTrack(q, b, m, i)
BY DEF OnTrack, Within, Between

(* What _transform starts its loop with.                                    *)
Entered(p, chunk) ==
    [level |-> IF p.level = 0 THEN 1 ELSE p.level,
     isInString |-> p.isInString, isSkipped |-> p.isSkipped,
     prevBlock |-> p.prevBlock, pushed |-> p.pushed,
     done |-> p.done, objectStart |-> 1,
     failed |-> p.failed \/ (p.level = 0 /\ chunk[1] # OpenBracket)]

LEMMA EnteredFields ==
    ASSUME NEW p \in Parsers, NEW chunk
    PROVE  /\ Entered(p, chunk) \in Scanners
           /\ Entered(p, chunk).level = IF p.level = 0 THEN 1 ELSE p.level
           /\ Entered(p, chunk).isInString = p.isInString
           /\ Entered(p, chunk).isSkipped = p.isSkipped
           /\ Entered(p, chunk).prevBlock = p.prevBlock
           /\ Entered(p, chunk).pushed = p.pushed
           /\ Entered(p, chunk).done = p.done
           /\ Entered(p, chunk).objectStart = 1
           /\ Entered(p, chunk).failed <=> p.failed \/ (p.level = 0 /\ chunk[1] # OpenBracket)
<1> DEFINE level == IF p.level = 0 THEN 1 ELSE p.level
           failed == p.failed \/ (p.level = 0 /\ chunk[1] # OpenBracket)
<1>1. /\ p.level \in Int /\ p.isInString \in BOOLEAN /\ p.isSkipped \in BOOLEAN
      /\ p.prevBlock \in Seq(Char) /\ p.pushed \in Seq(Seq(Char))
      /\ p.done \in BOOLEAN /\ p.failed \in BOOLEAN
  BY DEF Parsers
<1>2. level \in Int /\ failed \in BOOLEAN
  BY <1>1
<1>3. Entered(p, chunk) =
          [level |-> level, isInString |-> p.isInString, isSkipped |-> p.isSkipped,
           prevBlock |-> p.prevBlock, pushed |-> p.pushed,
           done |-> p.done, objectStart |-> 1, failed |-> failed]
  BY DEF Entered
<1> HIDE DEF level, failed
<1>4. Entered(p, chunk) \in Scanners
  BY <1>1, <1>2, <1>3 DEF Scanners
<1> DEFINE e == Entered(p, chunk)
<1>5. /\ e.level = level /\ e.isInString = p.isInString /\ e.isSkipped = p.isSkipped
      /\ e.prevBlock = p.prevBlock /\ e.pushed = p.pushed /\ e.done = p.done
      /\ e.objectStart = 1 /\ e.failed = failed
  BY <1>3
<1> HIDE DEF e
<1>6. e.level = (IF p.level = 0 THEN 1 ELSE p.level)
  BY <1>5 DEF level
<1>7. e.failed <=> p.failed \/ (p.level = 0 /\ chunk[1] # OpenBracket)
  BY <1>5 DEF failed
<1> QED
  BY <1>4, <1>5, <1>6, <1>7 DEF e

(* What _transform leaves.                                                  *)
LEMMA TransformFields ==
    ASSUME NEW p \in Parsers, NEW chunk, NEW left \in Scanners,
           left = Scanned(Entered(p, chunk), chunk, IF p.level = 0 THEN 1 ELSE 0),
           Block(left, chunk, Len(chunk)) \in Seq(Char)
    PROVE  LET q == Transform(p, chunk) IN
           /\ q \in Parsers
           /\ q.level = left.level /\ q.isInString = left.isInString
           /\ q.isSkipped = left.isSkipped /\ q.pushed = left.pushed
           /\ q.done = left.done /\ q.failed = left.failed
           /\ q.prevBlock = Block(left, chunk, Len(chunk))
<1> DEFINE q == Transform(p, chunk)
           block == Carried(left, chunk)
<1>1. block = Block(left, chunk, Len(chunk))
  BY DEF Carried, Block
<1>2. q = [f \in DOMAIN p |-> IF f = "prevBlock" THEN block ELSE left[f]]
  BY DEF Transform, Entered
<1>3. DOMAIN p = {"level", "isInString", "isSkipped", "prevBlock", "pushed", "done", "failed"}
  BY DEF Parsers
<1> HIDE DEF q, block
<1>4. /\ DOMAIN q = {"level", "isInString", "isSkipped", "prevBlock", "pushed", "done", "failed"}
      /\ q = [f \in DOMAIN q |-> q[f]]
      /\ q.level = left.level /\ q.isInString = left.isInString
      /\ q.isSkipped = left.isSkipped /\ q.pushed = left.pushed
      /\ q.done = left.done /\ q.failed = left.failed /\ q.prevBlock = block
  BY <1>2, <1>3
<1>5. /\ left.level \in Int /\ left.isInString \in BOOLEAN /\ left.isSkipped \in BOOLEAN
      /\ left.pushed \in Seq(Seq(Char)) /\ left.done \in BOOLEAN /\ left.failed \in BOOLEAN
  BY DEF Scanners
<1>6. q \in Parsers
  BY <1>1, <1>4, <1>5 DEF Parsers
<1> QED
  BY <1>1, <1>4, <1>6 DEF q

(* The first character of all is the bracket.                               *)
LEMMA ParserEnters ==
    ASSUME NEW p, NEW m \in Nat, Parses(p, m), NEW chunk \in Seq(Char), Len(chunk) > 0,
           \A k \in 1 .. Len(chunk) : Character(m + k, chunk[k])
    PROVE  Along(Entered(p, chunk), chunk, m, IF p.level = 0 THEN 1 ELSE 0)
<1> DEFINE e == Entered(p, chunk)
<1>1. /\ e \in Scanners
      /\ e.level = IF p.level = 0 THEN 1 ELSE p.level
      /\ e.isInString = p.isInString /\ e.isSkipped = p.isSkipped
      /\ e.prevBlock = p.prevBlock /\ e.pushed = p.pushed
      /\ e.done = p.done /\ e.objectStart = 1
      /\ e.failed <=> p.failed \/ (p.level = 0 /\ chunk[1] # OpenBracket)
  BY EnteredFields DEF Parses
<1> HIDE DEF e
<1>2. CASE m = 0
  <2>1. /\ p.level = 0 /\ ~p.isInString /\ ~p.isSkipped /\ p.prevBlock = <<>>
        /\ p.pushed = <<>> /\ ~p.done /\ ~p.failed
    BY <1>2 DEF Parses, NewParser
  <2>2. chunk[1] = OpenBracket
    <3>1. Character(0 + 1, chunk[1]) /\ Character(1, OpenBracket)
      BY <1>2, BodyShape
    <3> QED
      BY <3>1 DEF Character
  <2>3. /\ e.level = 1 /\ ~e.isInString /\ ~e.isSkipped /\ e.prevBlock = <<>>
        /\ e.pushed = <<>> /\ ~e.done /\ ~e.failed
    BY <1>1, <2>1, <2>2
  <2>4. Block(e, chunk, 1) = <<>>
    BY <2>3 DEF Block
  <2>5. Len(Objects) \in Nat /\ End(0) = 0 /\ 0 \in 0 .. Len(Objects)
    BY ObjectsEnd
  <2>6. ASSUME 0 < Len(Objects)
        PROVE  1 < End(0 + 1) /\ Within(e, <<>>, Objects[0 + 1], 1 - End(0) - 1)
    <3>1. /\ Objects[0 + 1] \in Seq(Char) /\ End(0 + 1) = End(0) + 1 + Len(Objects[0 + 1])
          /\ Len(Objects[0 + 1]) \in Nat /\ Len(Objects[0 + 1]) > 0
      BY <2>5, <2>6, NextObject
    <3> DEFINE o == Objects[0 + 1]
               e1 == End(0 + 1)
    <3>2. e1 = 0 + 1 + Len(o) /\ Len(o) \in Nat /\ Len(o) > 0 /\ o \in Seq(Char)
      BY <2>5, <3>1
    <3> HIDE DEF o, e1
    <3>3. 1 < e1
      BY <3>2
    <3>4. Nesting(o)[0] = Outside /\ SubSeq(o, 1, 0) = <<>>
      BY <3>2, NestingUnfolds DEF Nests
    <3>5. Outside.depth = 0 /\ ~Outside.isInString /\ ~Outside.isSkipped
      BY DEF Outside
    <3>6. Within(e, <<>>, o, 0)
      BY <2>3, <3>4, <3>5 DEF Within
    <3>7. 1 - End(0) - 1 = 0
      BY <2>5
    <3> QED
      BY <3>3, <3>6, <3>7 DEF o, e1
  <2>7. Completed(1, 0)
    BY <2>5, <2>6 DEF Completed
  <2>8. Reading(1, 0) => Within(e, <<>>, Objects[0 + 1], 1 - End(0) - 1)
    BY <2>6 DEF Reading
  <2>9. Between(e, <<>>)
    BY <2>3 DEF Between
  <2>10. 1 \in 1 .. BodyLength /\ 1 # BodyLength
    BY BodyIsLonger
  <2>11. e.pushed = SubSeq(Objects, 1, 0)
    BY <2>3, CharsOfObjects
  <2>12. OnTrack(e, <<>>, 1, 0)
    BY <2>3, <2>7, <2>8, <2>9, <2>10, <2>11, Zenon DEF OnTrack
  <2>13. OnTrack(e, Block(e, chunk, 1), m + 1, 0)
    <3>1. m + 1 = 1
      BY <1>2
    <3> QED
      BY <2>4, <2>12, <3>1
  <2>14. Along(e, chunk, m, 1)
    BY <1>1, <2>13 DEF Along
  <2> QED
    BY <2>1, <2>14 DEF e
<1>3. CASE m > 0
  <2>1. PICK i : OnTrack(p, p.prevBlock, m, i)
    BY <1>3 DEF Parses
  <2>2. p.level \in Int /\ p.level >= 1 /\ p.level # 0
    BY <2>1, TrackLevel
  <2>3. e.level = p.level /\ (e.failed <=> p.failed)
    BY <1>1, <2>2
  <2>4. Block(e, chunk, 0) = p.prevBlock
    <3>1. SubSeq(chunk, 1, 0) = <<>> /\ p.prevBlock \in Seq(Char)
      BY DEF Parses, Parsers
    <3>2. p.prevBlock \o <<>> = p.prevBlock
      BY <3>1
    <3> QED
      BY <1>1, <3>1, <3>2 DEF Block
  <2>5. e.failed = p.failed
    BY <1>1, <2>3 DEF Scanners, Parses, Parsers
  <2>6. OnTrack(e, p.prevBlock, m, i)
    BY <1>1, <2>1, <2>3, <2>5, SameTrack
  <2>7. OnTrack(e, Block(e, chunk, 0), m + 0, i)
    <3>1. m + 0 = m
      OBVIOUS
    <3> QED
      BY <2>4, <2>6, <3>1
  <2>8. Along(e, chunk, m, 0)
    BY <1>1, <2>7 DEF Along
  <2> QED
    BY <2>2, <2>8 DEF e
<1> QED
  BY <1>2, <1>3

(* A chunk keeps the parser on its track, however long it is.               *)
LEMMA TransformKeeps ==
    ASSUME NEW p, NEW m \in Nat, Parses(p, m), NEW chunk \in Seq(Char), Len(chunk) > 0,
           \A k \in 1 .. Len(chunk) : Character(m + k, chunk[k])
    PROVE  Parses(Transform(p, chunk), m + Len(chunk))
<1> DEFINE e == Entered(p, chunk)
           before == IF p.level = 0 THEN 1 ELSE 0
           left == Scanned(e, chunk, before)
           block == Block(left, chunk, Len(chunk))
           q == Transform(p, chunk)
<1>1. p \in Parsers /\ Len(chunk) \in Nat
  BY DEF Parses
<1>2. before \in 0 .. Len(chunk)
  BY <1>1
<1>3. e \in Scanners
  BY <1>1, EnteredFields
<1>4. Along(e, chunk, m, before)
  BY ParserEnters
<1> HIDE DEF e, before
<1>5. left \in Scanners /\ Along(left, chunk, m, Len(chunk))
  BY <1>2, <1>3, <1>4, ChunkIsRead
<1> HIDE DEF left
<1>6. block \in Seq(Char)
  <2>1. left.prevBlock \in Seq(Char) /\ left.objectStart \in Nat \ {0}
    BY <1>5 DEF Scanners
  <2>2. SubSeq(chunk, left.objectStart, Len(chunk)) \in Seq(Char)
    BY <1>1, <2>1
  <2> QED
    BY <2>1, <2>2 DEF Block
<1>7. PICK i : OnTrack(left, block, m + Len(chunk), i)
  BY <1>5 DEF Along
<1> HIDE DEF block
<1>8. /\ q \in Parsers
      /\ q.level = left.level /\ q.isInString = left.isInString
      /\ q.isSkipped = left.isSkipped /\ q.pushed = left.pushed
      /\ q.done = left.done /\ q.failed = left.failed
      /\ q.prevBlock = block
  BY <1>1, <1>5, <1>6, TransformFields DEF left, before, e, block
<1> HIDE DEF q
<1>9. OnTrack(q, q.prevBlock, m + Len(chunk), i)
  <2>1. OnTrack(q, block, m + Len(chunk), i)
    BY <1>7, <1>8, SameTrack
  <2> QED
    BY <1>8, <2>1
<1>10. m + Len(chunk) > 0
  BY <1>1
<1>11. i \in 0 .. Len(Objects)
  BY <1>9 DEF OnTrack, Completed
<1>12. Parses(q, m + Len(chunk))
  BY <1>8, <1>9, <1>10, <1>11 DEF Parses
<1> QED
  BY <1>12 DEF q

-----------------------------------------------------------------------------
(* The objects of the user.                                                 *)

(* Completed agrees with CompleteBy.                                        *)
LEMMA CompletedCount ==
    ASSUME NEW n \in Nat, NEW i, Completed(n, i)
    PROVE  CompleteBy(n) = SubSeq(Objects, 1, i)
<1> DEFINE S == {x \in DOMAIN Objects : Len(FlattenSeq(SubSeq(Objects, 1, x))) + x =< n}
<1>1. /\ i \in 0 .. Len(Objects) /\ End(i) =< n
      /\ i < Len(Objects) => n < End(i + 1)
  BY DEF Completed
<1>2. /\ Len(Objects) \in Nat /\ DOMAIN Objects = 1 .. Len(Objects)
      /\ \A x \in 0 .. Len(Objects) : End(x) \in Nat
  BY ObjectsEnd, ObjectsAssumption
<1>3. S = {x \in 1 .. Len(Objects) : End(x) =< n}
  BY <1>2 DEF End, Upto
<1> HIDE DEF S
<1>4. ASSUME NEW x \in 1 .. i PROVE x \in S
  <2>1. x \in 1 .. Len(Objects) /\ x \in 0 .. Len(Objects) /\ i \in x .. Len(Objects)
    BY <1>1, <1>2
  <2>2. End(x) =< End(i) /\ End(x) \in Nat /\ End(i) \in Nat
    BY <1>1, <1>2, <2>1, EndsInOrder
  <2> QED
    BY <1>1, <1>3, <2>1, <2>2
<1>5. ASSUME NEW x \in S PROVE x \in 1 .. i
  <2>1. x \in 1 .. Len(Objects) /\ End(x) =< n /\ x \in 0 .. Len(Objects)
    BY <1>2, <1>3
  <2>2. ASSUME i < x PROVE FALSE
    <3>1. i < Len(Objects) /\ i + 1 \in 0 .. Len(Objects) /\ x \in i + 1 .. Len(Objects)
      BY <1>1, <1>2, <2>1, <2>2
    <3>2. End(i + 1) =< End(x) /\ End(i + 1) \in Nat /\ End(x) \in Nat
      BY <1>2, <2>1, <3>1, EndsInOrder
    <3> QED
      BY <1>1, <2>1, <3>1, <3>2
  <2> QED
    BY <1>1, <2>1, <2>2
<1>6. S = 1 .. i
  BY <1>4, <1>5
<1>7. Cardinality(1 .. i) = i
  <2>1. Cardinality(1 .. i) = IF 1 > i THEN 0 ELSE i - 1 + 1
    BY <1>1, FS_Interval
  <2> QED
    BY <1>1, <2>1
<1>8. CompleteBy(n) = SubSeq(Objects, 1, Cardinality(S))
  BY DEF CompleteBy, S
<1> QED
  BY <1>6, <1>7, <1>8

(* With more of the body no fewer objects are complete.                     *)
LEMMA CompletedGrows ==
    ASSUME NEW m \in Nat, NEW n \in Nat, m =< n, NEW i, NEW j, Completed(m, i), Completed(n, j)
    PROVE  i =< j /\ i \in Nat /\ j \in Nat
<1>1. /\ i \in 0 .. Len(Objects) /\ End(i) =< m
      /\ j \in 0 .. Len(Objects) /\ (j < Len(Objects) => n < End(j + 1))
      /\ Len(Objects) \in Nat /\ \A x \in 0 .. Len(Objects) : End(x) \in Nat
  BY ObjectsEnd DEF Completed
<1>2. ASSUME j < i PROVE FALSE
  <2>1. j < Len(Objects) /\ j + 1 \in 0 .. Len(Objects) /\ i \in j + 1 .. Len(Objects)
    BY <1>1, <1>2
  <2>2. End(j + 1) =< End(i) /\ End(j + 1) \in Nat /\ End(i) \in Nat
    BY <1>1, <2>1, EndsInOrder
  <2> QED
    BY <1>1, <2>1, <2>2
<1> QED
  BY <1>1, <1>2

(* Nothing is complete at first, and everything in the end.                 *)
LEMMA CompletedEnds ==
    /\ Completed(0, 0) /\ CompleteBy(0) = <<>>
    /\ Completed(BodyLength, Len(Objects)) /\ CompleteBy(BodyLength) = Objects
<1>1. Len(Objects) \in Nat /\ End(0) = 0 /\ 0 \in 0 .. Len(Objects)
      /\ Len(Objects) \in 0 .. Len(Objects) /\ BodyLength \in Nat
      /\ End(Len(Objects)) \in Nat /\ End(Len(Objects)) < BodyLength
  BY ObjectsEnd, BodyIsLonger
<1>2. 0 < Len(Objects) => 0 < End(0 + 1)
  <2>1. ASSUME 0 < Len(Objects) PROVE 0 < End(0 + 1)
    <3> DEFINE e1 == End(0 + 1)
               o == Objects[0 + 1]
    <3>1. e1 = End(0) + 1 + Len(o) /\ Len(o) \in Nat
      BY <1>1, <2>1, NextObject
    <3> HIDE DEF e1, o
    <3>2. 0 < e1
      BY <1>1, <3>1
    <3> QED
      BY <3>2 DEF e1
  <2> QED
    BY <2>1
<1>3. Completed(0, 0)
  BY <1>1, <1>2 DEF Completed
<1>4. ~(Len(Objects) < Len(Objects)) /\ End(Len(Objects)) =< BodyLength
  BY <1>1
<1>5. Completed(BodyLength, Len(Objects))
  BY <1>1, <1>4 DEF Completed
<1>6. SubSeq(Objects, 1, 0) = <<>> /\ SubSeq(Objects, 1, Len(Objects)) = Objects
  BY CharsOfObjects
<1> QED
  BY <1>1, <1>3, <1>5, <1>6, CompletedCount

(* What a parser has pushed.                                                *)
LEMMA ParsedSoFar ==
    ASSUME NEW p, NEW m \in Nat, Parses(p, m)
    PROVE  /\ p.pushed = CompleteBy(m) /\ ~p.failed /\ (p.done <=> m = BodyLength)
           /\ \E i : Completed(m, i)
<1>1. CASE m = 0
  <2>1. p.pushed = <<>> /\ ~p.failed /\ ~p.done
    BY <1>1 DEF Parses, NewParser
  <2>2. m # BodyLength
    BY <1>1, BodyIsLonger
  <2> QED
    BY <1>1, <2>1, <2>2, CompletedEnds
<1>2. CASE m > 0
  <2>1. PICK i : OnTrack(p, p.prevBlock, m, i)
    BY <1>2 DEF Parses
  <2>2. Completed(m, i) /\ p.pushed = SubSeq(Objects, 1, i) /\ ~p.failed
        /\ (p.done <=> m = BodyLength)
    BY <2>1 DEF OnTrack
  <2> QED
    BY <2>2, CompletedCount
<1> QED
  BY <1>1, <1>2

(* What the user is given with a chunk makes up for what is pushed.         *)
LEMMA RestOfPushed ==
    ASSUME NEW X, NEW s \in Seq(X), NEW i \in 0 .. Len(s), NEW j \in i .. Len(s)
    PROVE  LET a == SubSeq(s, 1, i)
               b == SubSeq(s, 1, j)
           IN  a \o SubSeq(b, Len(a) + 1, Len(b)) = b
<1> DEFINE a == SubSeq(s, 1, i)
           b == SubSeq(s, 1, j)
           c == SubSeq(b, i + 1, j)
<1>1. i \in Nat /\ j \in Nat /\ i =< j /\ Len(s) \in Nat /\ j =< Len(s)
  OBVIOUS
<1>2. a \in Seq(X) /\ Len(a) = i /\ \A n \in 1 .. i : a[n] = s[n]
  BY <1>1
<1>3. b \in Seq(X) /\ Len(b) = j /\ \A n \in 1 .. j : b[n] = s[n]
  BY <1>1
<1> HIDE DEF a, b
<1>4. c \in Seq(X) /\ Len(c) = j - i /\ \A n \in 1 .. j - i : c[n] = b[i + n]
  BY <1>1, <1>3
<1> HIDE DEF c
<1>5. a \o c \in Seq(X) /\ Len(a \o c) = j
  BY <1>1, <1>2, <1>4
<1>6. ASSUME NEW n \in 1 .. j PROVE (a \o c)[n] = b[n]
  <2>1. CASE n =< i
    BY <1>1, <1>2, <1>3, <1>4, <2>1
  <2>2. CASE n > i
    <3>1. n - i \in 1 .. j - i /\ i + (n - i) = n
      BY <1>1, <2>2
    <3>2. (a \o c)[n] = c[n - i]
      BY <1>1, <1>2, <1>4, <2>2
    <3> QED
      BY <1>4, <3>1, <3>2
  <2>3. n =< i \/ n > i
    BY <1>1
  <2> QED
    BY <2>1, <2>2, <2>3, Zenon
<1>7. a \o c = b
  <2> DEFINE d == a \o c
  <2>1. d \in Seq(X) /\ Len(d) = j /\ \A n \in 1 .. j : d[n] = b[n]
    BY <1>5, <1>6
  <2> HIDE DEF d
  <2>2. d = b
    BY <1>1, <1>3, <2>1
  <2> QED
    BY <2>2 DEF d
<1> QED
  BY <1>2, <1>3, <1>7 DEF a, b, c

-----------------------------------------------------------------------------
(* The inductive invariant of a REST stream.                                *)

RestTypes ==
    /\ stage \in {"created", "running", "over"}
    /\ stream \in [step : {"none", "open", "closed", "lost"}, cancelled : BOOLEAN,
                   received : 0 .. Len(Messages)]
    /\ isCancelCalled \in BOOLEAN /\ responseHasSent \in BOOLEAN
    /\ handled \in BOOLEAN /\ cancelled \in BOOLEAN
    /\ attempts \in Nat
    /\ events \in Seq(EventNames)

(* The user has what the part of the body that was sent completes.  While   *)
(* the stream is open its parser is on the track of that part, and waits    *)
(* for more.                                                                *)
RestReads ==
    /\ sent \in 0 .. BodyLength /\ data = CompleteBy(sent)
    /\ stage = "created" => stream = NoStream /\ sent = 0 /\ parser = NewParser
    /\ stream.step = "open" => Parses(parser, sent) /\ sent < BodyLength
    /\ parser.done /\ ~cancelled => sent = BodyLength

RestInv == kind = "rest" => RestTypes /\ RestReads

LEMMA NewParserParses == Parses(NewParser, 0)
<1>1. <<>> \in Seq(Char) /\ <<>> \in Seq(Seq(Char)) /\ 0 \in Int
  OBVIOUS
<1> QED
  BY <1>1 DEF Parses, Parsers, NewParser

LEMMA InitReads == Init => RestInv
<1> SUFFICES ASSUME Init PROVE RestTypes /\ RestReads
  BY DEF RestInv
<1>1. /\ stage = "created" /\ stream = NoStream /\ events = <<>> /\ attempts = 0
      /\ isCancelCalled = FALSE /\ responseHasSent = FALSE /\ handled = FALSE
      /\ cancelled = FALSE /\ data = <<>> /\ parser = NewParser /\ sent = 0
  BY DEF Init
<1>2. stream.step = "none" /\ parser.done = FALSE
  BY <1>1 DEF NoStream, NewParser
<1>3. stream \in [step : {"none", "open", "closed", "lost"}, cancelled : BOOLEAN,
                  received : 0 .. Len(Messages)]
  BY <1>1, MessagesAssumption DEF NoStream
<1>4. RestTypes
  <2>1. events \in Seq(EventNames)
    BY <1>1
  <2> QED
    BY <1>1, <1>3, <2>1 DEF RestTypes
<1>5. 0 \in 0 .. BodyLength /\ CompleteBy(0) = <<>>
  BY BodyIsLonger, CompletedEnds
<1>6. RestReads
  BY <1>1, <1>2, <1>5 DEF RestReads
<1> QED
  BY <1>4, <1>6

(* An event that ends the stream.                                           *)
LEMMA OneRestEvent ==
    ASSUME RestTypes, NEW e \in {"error", "end"}, EndWith(e)
    PROVE  stage' = "over" /\ events' \in Seq(EventNames)
<1>1. stage' = "over" /\ events' = Append(events, e)
  BY DEF EndWith
<1>2. e \in EventNames /\ events \in Seq(EventNames)
  BY DEF EventNames, RestTypes
<1>3. Append(events, e) \in Seq(EventNames)
  BY <1>2, OneEventMore
<1> QED
  BY <1>1, <1>3

(* The API stream of a REST call is opened when the stub is ready.          *)
LEMMA SetRestStreamKeeps ==
    ASSUME kind = "rest", RestTypes, RestReads, SetStream
    PROVE  RestTypes' /\ RestReads'
<1>1. /\ stage = "created" /\ stream = NoStream /\ sent = 0 /\ parser = NewParser
      /\ UNCHANGED <<isCancelCalled, responseHasSent, handled, data, cancelled, parser, sent>>
  BY DEF SetStream, RestReads
<1>2. \/ Open(FALSE) /\ UNCHANGED events
      \/ EndWith("error") /\ UNCHANGED <<stream, attempts>>
  BY DEF SetStream
<1>3. sent < BodyLength /\ Parses(parser, sent)
  BY <1>1, BodyIsLonger, NewParserParses
<1>4. CASE Open(FALSE) /\ UNCHANGED events
  <2>1. /\ stream' = [step |-> "open", cancelled |-> FALSE, received |-> 0]
        /\ attempts' = attempts + 1 /\ stage' = "running"
    BY <1>4 DEF Open
  <2>2. stream' \in [step : {"none", "open", "closed", "lost"}, cancelled : BOOLEAN,
                     received : 0 .. Len(Messages)]
    BY <2>1, MessagesAssumption
  <2>3. attempts' \in Nat
    BY <2>1 DEF RestTypes
  <2>4. RestTypes'
    BY <1>1, <1>4, <2>1, <2>2, <2>3 DEF RestTypes
  <2>5. data' = CompleteBy(sent)
    BY <1>1 DEF RestReads
  <2>6. RestReads'
    BY <1>1, <1>3, <2>1, <2>5 DEF RestReads
  <2> QED
    BY <2>4, <2>6
<1>5. CASE EndWith("error") /\ UNCHANGED <<stream, attempts>>
  <2>1. stage' = "over" /\ events' \in Seq(EventNames)
    BY <1>5, OneRestEvent
  <2>2. RestTypes'
    BY <1>1, <1>5, <2>1 DEF RestTypes
  <2>3. RestReads'
    BY <1>1, <1>5, <2>1 DEF RestReads
  <2> QED
    BY <2>2, <2>3
<1> QED
  BY <1>2, <1>4, <1>5

(* A REST stream that ends without having read more: it fails or is lost,   *)
(* or its body is cut short.                                                *)
LEMMA RestClosesKeeps ==
    ASSUME RestTypes, RestReads, stream.step = "open", NEW s \in {"closed", "lost"},
           stream' = [stream EXCEPT !.step = s],
           \/ EndWith("error") \/ EndWith("end") \/ UNCHANGED <<stage, events>>,
           UNCHANGED <<isCancelCalled, responseHasSent, handled, attempts, data, cancelled,
                       parser, sent>>
    PROVE  RestTypes' /\ RestReads'
<1>1. stage # "created"
  BY DEF RestReads, NoStream
<1>2. /\ stage' \in {"running", "over"} /\ events' \in Seq(EventNames)
  <2>1. ASSUME NEW e \in {"error", "end"}, EndWith(e)
        PROVE  stage' = "over" /\ events' \in Seq(EventNames)
    BY <2>1, OneRestEvent
  <2>2. EndWith("error") => stage' = "over" /\ events' \in Seq(EventNames)
    BY <2>1
  <2>3. EndWith("end") => stage' = "over" /\ events' \in Seq(EventNames)
    BY <2>1
  <2>4. UNCHANGED <<stage, events>> =>
            stage' \in {"running", "over"} /\ events' \in Seq(EventNames)
    BY <1>1 DEF RestTypes
  <2> QED
    BY <2>2, <2>3, <2>4
<1>3. /\ stream' \in [step : {"none", "open", "closed", "lost"}, cancelled : BOOLEAN,
                      received : 0 .. Len(Messages)]
      /\ stream'.step = s
  BY DEF RestTypes
<1>4. RestTypes'
  BY <1>2, <1>3 DEF RestTypes
<1>5. RestReads'
  BY <1>2, <1>3 DEF RestReads
<1> QED
  BY <1>4, <1>5

(* A cancel, before the stub is ready or by way of the parser.              *)
LEMMA CancelRestKeeps ==
    ASSUME kind = "rest", RestTypes, RestReads, Cancel
    PROVE  RestTypes' /\ RestReads'
<1>1. /\ cancelled' = TRUE
      /\ UNCHANGED <<responseHasSent, handled, attempts, data, sent>>
      /\ \/ /\ stream = NoStream /\ isCancelCalled' = TRUE
            /\ UNCHANGED <<stage, stream, events, parser>>
         \/ /\ stream # NoStream
            /\ stream' = [stream EXCEPT !.step = "closed", !.cancelled = TRUE]
            /\ EndWith("end") /\ UNCHANGED isCancelCalled
  BY DEF Cancel
<1>2. CASE /\ stream = NoStream /\ isCancelCalled' = TRUE
           /\ UNCHANGED <<stage, stream, events, parser>>
  <2>1. RestTypes'
    BY <1>1, <1>2 DEF RestTypes
  <2>2. RestReads'
    BY <1>1, <1>2 DEF RestReads
  <2> QED
    BY <2>1, <2>2
<1>3. CASE /\ stream # NoStream
           /\ stream' = [stream EXCEPT !.step = "closed", !.cancelled = TRUE]
           /\ EndWith("end") /\ UNCHANGED isCancelCalled
  <2>1. stage' = "over" /\ events' \in Seq(EventNames)
    BY <1>3, OneRestEvent
  <2>2. /\ stream' \in [step : {"none", "open", "closed", "lost"}, cancelled : BOOLEAN,
                        received : 0 .. Len(Messages)]
        /\ stream'.step = "closed"
    BY <1>3 DEF RestTypes
  <2>3. RestTypes'
    BY <1>1, <1>3, <2>1, <2>2 DEF RestTypes
  <2>4. RestReads'
    BY <1>1, <2>1, <2>2 DEF RestReads
  <2> QED
    BY <2>3, <2>4
<1> QED
  BY <1>1, <1>2, <1>3

(* A chunk is a piece of the body.                                          *)
LEMMA ChunkOfBody ==
    ASSUME NEW m \in Nat, NEW n \in 1 .. Len(Body), m + n =< Len(Body)
    PROVE  LET chunk == SubSeq(Body, m + 1, m + n) IN
           /\ chunk \in Seq(Char) /\ Len(chunk) = n
           /\ \A k \in 1 .. Len(chunk) : Character(m + k, chunk[k])
<1>1. Body \in Seq(Char) /\ Len(Body) \in Nat
  BY BodyShape
<1> DEFINE chunk == SubSeq(Body, m + 1, m + n)
<1>2. chunk \in Seq(Char) /\ Len(chunk) = n /\ \A k \in 1 .. n : chunk[k] = Body[m + k]
  BY <1>1
<1> HIDE DEF chunk
<1>3. ASSUME NEW k \in 1 .. n PROVE Character(m + k, chunk[k])
  <2>1. m + k \in 1 .. Len(Body)
    BY <1>1
  <2> QED
    BY <1>2, <2>1 DEF Character
<1> QED
  BY <1>2, <1>3 DEF chunk

(* The objects that are given with a chunk: those that it completes.        *)
LEMMA GivenWithChunk ==
    ASSUME NEW m \in Nat, NEW n \in Nat, m =< n, NEW p, Parses(p, m), NEW q, Parses(q, n)
    PROVE  LET given == CompleteBy(m)
           IN  given \o SubSeq(q.pushed, Len(given) + 1, Len(q.pushed)) = CompleteBy(n)
<1>1. PICK i : Completed(m, i)
  BY ParsedSoFar
<1>2. PICK j : Completed(n, j)
  BY ParsedSoFar
<1>3. /\ i =< j /\ i \in Nat /\ j \in Nat
      /\ i \in 0 .. Len(Objects) /\ j \in 0 .. Len(Objects)
  BY <1>1, <1>2, CompletedGrows DEF Completed
<1>4. CompleteBy(m) = SubSeq(Objects, 1, i) /\ CompleteBy(n) = SubSeq(Objects, 1, j)
  BY <1>1, <1>2, CompletedCount
<1>5. q.pushed = SubSeq(Objects, 1, j)
  BY <1>4, ParsedSoFar
<1>6. Objects \in Seq(Seq(Char)) /\ j \in i .. Len(Objects)
  BY <1>3, CharsOfObjects
<1>7. LET a == SubSeq(Objects, 1, i)
          b == SubSeq(Objects, 1, j)
      IN  a \o SubSeq(b, Len(a) + 1, Len(b)) = b
  BY <1>3, <1>6, RestOfPushed
<1> QED
  BY <1>4, <1>5, <1>7

LEMMA ChunkKeeps ==
    ASSUME kind = "rest", RestTypes, RestReads, NEW n \in 1 .. Len(Body), Chunk(n)
    PROVE  RestTypes' /\ RestReads' /\ Parses(parser', sent')
<1> DEFINE chunk == SubSeq(Body, sent + 1, sent + n)
           parsed == Transform(parser, chunk)
<1>1. /\ stream.step = "open" /\ sent + n =< Len(Body) /\ sent' = sent + n
      /\ parser' = parsed
      /\ data' = data \o SubSeq(parsed.pushed, Len(data) + 1, Len(parsed.pushed))
      /\ IF parsed.done \/ parsed.failed
         THEN /\ stream' = [stream EXCEPT !.step = "closed"]
              /\ EndWith(IF parsed.failed THEN "error" ELSE "end")
         ELSE UNCHANGED <<stage, stream, events>>
      /\ UNCHANGED <<isCancelCalled, responseHasSent, handled, attempts, cancelled>>
  BY DEF Chunk
<1>2. /\ Parses(parser, sent) /\ data = CompleteBy(sent) /\ stage # "created"
      /\ sent \in Nat /\ BodyLength \in Nat /\ Len(Body) = BodyLength
  BY <1>1, BodyIsLonger, BodyShape DEF RestReads, NoStream
<1>3. /\ chunk \in Seq(Char) /\ Len(chunk) = n
      /\ \A k \in 1 .. Len(chunk) : Character(sent + k, chunk[k])
  BY <1>1, <1>2, ChunkOfBody
<1> HIDE DEF chunk
<1>4. Parses(parsed, sent + n)
  <2>1. Len(chunk) > 0
    BY <1>2, <1>3
  <2>2. Parses(parsed, sent + Len(chunk))
    BY <1>2, <1>3, <2>1, TransformKeeps
  <2> QED
    BY <1>3, <2>2
<1> HIDE DEF parsed
<1>5. /\ sent' \in Nat /\ sent =< sent' /\ sent' \in 0 .. BodyLength
  BY <1>1, <1>2
<1>6. Parses(parsed, sent')
  BY <1>1, <1>4
<1>7. ~parsed.failed /\ (parsed.done <=> sent' = BodyLength)
  BY <1>5, <1>6, ParsedSoFar
<1>8. data' = CompleteBy(sent')
  BY <1>1, <1>2, <1>5, <1>6, GivenWithChunk
<1>9. CASE parsed.done
  <2>1. stream' = [stream EXCEPT !.step = "closed"] /\ EndWith("end")
    BY <1>1, <1>7, <1>9
  <2>2. stage' = "over" /\ events' \in Seq(EventNames)
    BY <2>1, OneRestEvent
  <2>3. /\ stream' \in [step : {"none", "open", "closed", "lost"}, cancelled : BOOLEAN,
                        received : 0 .. Len(Messages)]
        /\ stream'.step = "closed"
    BY <2>1 DEF RestTypes
  <2>4. RestTypes'
    BY <1>1, <2>2, <2>3 DEF RestTypes
  <2>5. RestReads'
    BY <1>5, <1>7, <1>8, <1>9, <2>2, <2>3 DEF RestReads
  <2> QED
    BY <1>1, <1>6, <2>4, <2>5
<1>10. CASE ~parsed.done
  <2>1. UNCHANGED <<stage, stream, events>>
    BY <1>1, <1>7, <1>10
  <2>2. RestTypes'
    BY <1>1, <2>1 DEF RestTypes
  <2>3. sent' < BodyLength
    BY <1>2, <1>5, <1>7, <1>10
  <2>4. ~parser'.done
    BY <1>1, <1>10
  <2>5. Parses(parser', sent')
    BY <1>1, <1>6
  <2>6. RestReads'
    BY <1>2, <1>5, <1>8, <2>1, <2>3, <2>4, <2>5 DEF RestReads
  <2> QED
    BY <2>2, <2>5, <2>6
<1> QED
  BY <1>9, <1>10

LEMMA RestStep == RestInv /\ [Next]_vars => RestInv'
<1> SUFFICES ASSUME RestInv, [Next]_vars, kind' = "rest" PROVE RestTypes' /\ RestReads'
  BY DEF RestInv
<1>1. UNCHANGED kind
  BY DEF Next, SetStream, Fail, Cancel, GrpcEvent, Metadata, Message, Complete, Error, ResetEnds,
         Retry, RestEvent, Chunk, BodyFails, FetchFails, BodyEnds, vars, call
<1>2. kind = "rest" /\ RestTypes /\ RestReads
  BY <1>1 DEF RestInv
<1>3. CASE SetStream
  BY <1>2, <1>3, SetRestStreamKeeps
<1>4. CASE Fail
  <2>1. /\ stage = "created" /\ EndWith("error")
        /\ UNCHANGED <<isCancelCalled, stream, responseHasSent, handled, attempts, data,
                       cancelled, parser, sent>>
    BY <1>4 DEF Fail
  <2>2. stage' = "over" /\ events' \in Seq(EventNames)
    BY <1>2, <2>1, OneRestEvent
  <2>3. RestTypes'
    BY <1>2, <2>1, <2>2 DEF RestTypes
  <2>4. RestReads'
    BY <1>2, <2>1, <2>2 DEF RestReads
  <2> QED
    BY <2>3, <2>4
<1>5. CASE Cancel
  BY <1>2, <1>5, CancelRestKeeps
<1>6. ~GrpcEvent
  BY <1>2 DEF GrpcEvent, Metadata, Message, Complete, Error, ResetEnds, Grpc, RestTypes
<1>7. ~Retry
  BY <1>2 DEF Retry, RestTypes
<1>8. CASE \E n \in 1 .. Len(Body) : Chunk(n)
  BY <1>2, <1>8, ChunkKeeps
<1>9. CASE BodyFails
  BY <1>2, <1>9, RestClosesKeeps DEF BodyFails
<1>10. CASE FetchFails
  BY <1>2, <1>10, RestClosesKeeps DEF FetchFails
<1>11. CASE BodyEnds
  BY <1>2, <1>11, RestClosesKeeps DEF BodyEnds
<1>12. CASE UNCHANGED vars
  BY <1>2, <1>12 DEF vars, RestTypes, RestReads
<1> QED
  BY <1>3, <1>4, <1>5, <1>6, <1>7, <1>8, <1>9, <1>10, <1>11, <1>12 DEF Next, RestEvent

LEMMA RestAlways == Spec => []RestInv
BY InitReads, RestStep, PTL DEF Spec

-----------------------------------------------------------------------------
(* The types of a call of any kind.                                         *)

(* What the two invariants leave out: the options and the attempts that had *)
(* no response, the messages that are held back, the                        *)
(* request and what is made of it, and the fields of the parser.            *)
HeldType ==
    /\ retryRequestOptions \in RetryOptions \cup {<<>>} /\ numNoResponseAttempts \in Nat
    /\ held \in Seq(ToSet(Messages))
    /\ kind # "rest" => data \in Seq(ToSet(Messages))

HttpType ==
    /\ request \in Requests \cup {<<>>}
    /\ http # <<>> => DOMAIN http = {"method", "url", "queryString", "data"}

ParserType == DOMAIN parser = DOMAIN NewParser /\ (kind # "rest" => sent = 0)

(* What a step does to the messages,                                        *)
LEMMA HeldStep == HeldType /\ Inductive /\ [Next]_vars => HeldType'
<1> SUFFICES ASSUME HeldType, Inductive, [Next]_vars PROVE HeldType'
  OBVIOUS
<1> DEFINE Given == Seq(ToSet(Messages))
<1>1. /\ UNCHANGED <<kind, retryRequestOptions>>
      /\ \/ UNCHANGED numNoResponseAttempts
         \/ numNoResponseAttempts' = numNoResponseAttempts + (IF Connected THEN 0 ELSE 1)
  BY DEF Next, SetStream, Fail, Cancel, GrpcEvent, Metadata, Message, Complete, Error, ResetEnds,
         Retry, RestEvent, Chunk, BodyFails, FetchFails, BodyEnds, vars, call
<1>7. retryRequestOptions' \in RetryOptions \cup {<<>>} /\ numNoResponseAttempts' \in Nat
  BY <1>1 DEF HeldType
<1>2. held \in Given /\ <<>> \in Given /\ (kind # "rest" => data \in Given)
  BY DEF HeldType
<1>3. ASSUME Message PROVE held' \in Given /\ data' \in Given
  <2> DEFINE m == Messages[stream.received + 1]
  <2>1. /\ stream.received < Len(Messages) /\ kind # "rest"
        /\ data' = IF Connected THEN Append(data, m) ELSE data
        /\ held' = IF Connected THEN held ELSE Append(held, m)
    BY <1>3 DEF Message, Grpc
  <2>2. stream.received \in 0 .. Len(Messages)
    BY <2>1 DEF Inductive, GrpcInv, GrpcTypes
  <2>3. m \in ToSet(Messages)
    <3>1. stream.received + 1 \in DOMAIN Messages
      BY <2>1, <2>2, MessagesAssumption
    <3> QED
      BY <3>1 DEF ToSet
  <2> HIDE DEF m
  <2>4. Append(held, m) \in Given /\ Append(data, m) \in Given
    BY <1>2, <2>1, <2>3
  <2> QED
    BY <1>2, <2>1, <2>4
<1>4. ASSUME Complete PROVE held' \in Given /\ data' \in Given
  <2>1. /\ held' = <<>> \/ held' = held
        /\ data' = data \o held \/ data' = data
        /\ kind # "rest"
    BY <1>4 DEF Complete, Grpc
  <2>2. data \o held \in Given
    BY <1>2, <2>1
  <2> QED
    BY <1>2, <2>1, <2>2
<1>5. UNCHANGED held \/ held' = <<>> \/ Message
  BY DEF Next, SetStream, Fail, Cancel, GrpcEvent, Metadata, Complete, Error, ResetEnds,
         Retry, RestEvent, Chunk, BodyFails, FetchFails, BodyEnds, vars, call
<1>6. kind = "rest" \/ UNCHANGED data \/ Message \/ Complete
  BY DEF Next, SetStream, Fail, Cancel, GrpcEvent, Metadata, Error, ResetEnds, Retry,
         RestEvent, Chunk, BodyFails, FetchFails, BodyEnds, vars, call
<1> QED
  BY <1>1, <1>2, <1>3, <1>4, <1>5, <1>6, <1>7 DEF HeldType

(* to the request,                                                          *)
LEMMA HttpStep == HttpType /\ [Next]_vars => HttpType'
<1> SUFFICES ASSUME HttpType, [Next]_vars PROVE HttpType'
  OBVIOUS
<1>1. UNCHANGED encoding \/ SetStream
  BY DEF Next, Fail, Cancel, GrpcEvent, Metadata, Message, Complete, Error, ResetEnds,
         Retry, RestEvent, Chunk, BodyFails, FetchFails, BodyEnds, vars, call, encoding
<1>2. CASE UNCHANGED encoding
  BY <1>2 DEF HttpType, encoding
<1>3. CASE SetStream
  <2>1. UNCHANGED request /\ (UNCHANGED http \/ http' = Transcode(request))
    BY <1>3 DEF SetStream
  <2>2. DOMAIN Transcode(request) = {"method", "url", "queryString", "data"}
    BY DEF Transcode
  <2> QED
    BY <2>1, <2>2 DEF HttpType
<1> QED
  BY <1>1, <1>2, <1>3

(* and to the parser.                                                       *)
LEMMA ParserStep == ParserType /\ RestInv /\ [Next]_vars => ParserType'
<1> SUFFICES ASSUME ParserType, RestInv, [Next]_vars PROVE ParserType'
  OBVIOUS
<1>1. UNCHANGED kind
  BY DEF Next, SetStream, Fail, Cancel, GrpcEvent, Metadata, Message, Complete, Error, ResetEnds,
         Retry, RestEvent, Chunk, BodyFails, FetchFails, BodyEnds, vars, call
<1>2. \/ UNCHANGED <<parser, sent>>
      \/ Cancel
      \/ \E n \in 1 .. Len(Body) : Chunk(n)
  BY DEF Next, SetStream, Fail, GrpcEvent, Metadata, Message, Complete, Error, ResetEnds,
         Retry, RestEvent, BodyFails, FetchFails, BodyEnds, vars, call
<1>3. CASE UNCHANGED <<parser, sent>>
  BY <1>1, <1>3 DEF ParserType
<1>4. CASE Cancel
  <2>1. UNCHANGED sent /\ (UNCHANGED parser \/ parser' = [parser EXCEPT !.done = TRUE])
    BY <1>4 DEF Cancel, Cancelled
  <2> QED
    BY <1>1, <2>1 DEF ParserType
<1>5. ASSUME NEW n \in 1 .. Len(Body), Chunk(n) PROVE ParserType'
  <2>1. kind = "rest"
    BY <1>5 DEF Chunk
  <2>2. RestTypes /\ RestReads
    BY <2>1 DEF RestInv
  <2>3. Parses(parser', sent')
    BY <1>5, <2>1, <2>2, ChunkKeeps
  <2>4. parser' \in Parsers
    BY <2>3 DEF Parses
  <2>5. DOMAIN (parser') = DOMAIN NewParser
    BY <2>4 DEF Parsers, NewParser
  <2> QED
    BY <1>1, <2>1, <2>5 DEF ParserType
<1> QED
  BY <1>2, <1>3, <1>4, <1>5

LEMMA TypesAlways == Spec => [](HeldType /\ HttpType /\ ParserType)
<1>1. Init => HeldType /\ HttpType /\ ParserType
  <2> SUFFICES ASSUME Init PROVE HeldType /\ HttpType /\ ParserType
    OBVIOUS
  <2>1. /\ held = <<>> /\ http = <<>> /\ parser = NewParser /\ sent = 0
        /\ request \in (IF kind = "rest" THEN Requests ELSE {<<>>})
    BY DEF Init
  <2>2. HeldType
    <3>1. held \in Seq(ToSet(Messages)) /\ data \in Seq(ToSet(Messages))
          /\ numNoResponseAttempts \in Nat /\ retryRequestOptions \in RetryOptions \cup {<<>>}
      BY DEF Init
    <3> QED
      BY <3>1 DEF HeldType
  <2>3. HttpType
    BY <2>1, KindsAssumption DEF HttpType
  <2> QED
    BY <2>1, <2>2, <2>3 DEF ParserType
<1>2. /\ HeldType /\ HttpType /\ ParserType
      /\ Inductive /\ RestInv /\ [Next]_vars
      => (HeldType /\ HttpType /\ ParserType)'
  BY HeldStep, HttpStep, ParserStep
<1> QED
  BY <1>1, <1>2, InductiveAlways, RestAlways, PTL DEF Spec

LEMMA CompleteByType ==
    ASSUME NEW n \in Nat PROVE CompleteBy(n) \in Seq(ToSet(Objects))
<1> DEFINE S == {x \in DOMAIN Objects : Len(FlattenSeq(SubSeq(Objects, 1, x))) + x =< n}
           c == Cardinality(S)
<1>1. Objects \in Seq(ToSet(Objects)) /\ Len(Objects) \in Nat /\ DOMAIN Objects = 1 .. Len(Objects)
  <2>1. /\ Objects \in Seq(Seq(Char)) /\ Len(Objects) \in Nat
        /\ DOMAIN Objects = 1 .. Len(Objects) /\ Objects \in [1 .. Len(Objects) -> Seq(Char)]
    BY CharsOfObjects
  <2>2. \A i \in 1 .. Len(Objects) : Objects[i] \in ToSet(Objects)
    BY <2>1 DEF ToSet
  <2> QED
    BY <2>1, <2>2
<1>2. IsFiniteSet(S) /\ c \in Nat /\ c =< Len(Objects)
  <2>1. IsFiniteSet(1 .. Len(Objects)) /\ Cardinality(1 .. Len(Objects)) = Len(Objects)
    BY <1>1, FS_Interval
  <2>2. S \subseteq 1 .. Len(Objects)
    BY <1>1
  <2> HIDE DEF S
  <2> QED
    BY <2>1, <2>2, FS_Subset, FS_CardinalityType
<1> HIDE DEF c
<1>3. SubSeq(Objects, 1, c) \in Seq(ToSet(Objects))
  BY <1>1, <1>2
<1> QED
  BY <1>3 DEF CompleteBy, c

(* The user is given messages of the server or objects of the body.         *)
LEMMA DataType ==
    ASSUME HeldType, RestInv
    PROVE  data \in Seq(ToSet(Messages) \cup ToSet(Objects))
<1>1. \A S, T : S \subseteq T => Seq(S) \subseteq Seq(T)
  OBVIOUS
<1>2. /\ Seq(ToSet(Messages)) \subseteq Seq(ToSet(Messages) \cup ToSet(Objects))
      /\ Seq(ToSet(Objects)) \subseteq Seq(ToSet(Messages) \cup ToSet(Objects))
  BY <1>1
<1>3. CASE kind = "rest"
  <2>1. data = CompleteBy(sent) /\ sent \in 0 .. BodyLength
    BY <1>3 DEF RestInv, RestReads
  <2>2. sent \in Nat
    BY <2>1, BodyIsLonger
  <2>3. CompleteBy(sent) \in Seq(ToSet(Objects))
    BY <2>2, CompleteByType
  <2> QED
    BY <1>2, <2>1, <2>3
<1>4. CASE kind # "rest"
  BY <1>2, <1>4 DEF HeldType
<1> QED
  BY <1>3, <1>4

(* Each variable is of its type, whatever the kind of the call.             *)
THEOREM TypeCorrect == Spec => []TypeOK
<1>1. Inductive /\ RestInv /\ HeldType /\ HttpType /\ ParserType => TypeOK
  <2> SUFFICES ASSUME Inductive, RestInv, HeldType, HttpType, ParserType PROVE TypeOK
    OBVIOUS
  <2>1. kind \in Kinds
    BY DEF Inductive
  <2>2. /\ stage \in {"created", "running", "retrying", "late", "crashed", "over"}
        /\ stream \in [step : {"none", "open", "reset", "closed", "lost"}, cancelled : BOOLEAN,
                       received : 0 .. Len(Messages)]
        /\ isCancelCalled \in BOOLEAN /\ responseHasSent \in BOOLEAN
        /\ handled \in BOOLEAN /\ cancelled \in BOOLEAN
        /\ attempts \in Nat /\ events \in Seq(EventNames)
    <3>1. CASE kind = "rest"
      BY <3>1 DEF RestInv, RestTypes
    <3>2. CASE kind # "rest"
      <4>1. GrpcTypes
        BY <3>2 DEF Inductive, GrpcInv
      <4>2. stream \in [step : {"none", "open", "reset", "closed", "lost"}, cancelled : BOOLEAN,
                        received : 0 .. Len(Messages)]
        BY <4>1 DEF GrpcTypes, Steps
      <4> QED
        BY <4>1, <4>2 DEF GrpcTypes
    <3> QED
      BY <3>1, <3>2
  <2>3. events \in Seq({"metadata", "response", "status", "end", "error"})
    BY <2>2 DEF EventNames
  <2>4. data \in Seq(ToSet(Messages) \cup ToSet(Objects))
    BY DataType
  <2>5. sent \in 0 .. Len(Body)
    <3>1. Len(Body) = BodyLength /\ BodyLength \in Nat
      BY BodyShape, BodyIsLonger
    <3>2. CASE kind = "rest"
      BY <3>1, <3>2 DEF RestInv, RestReads
    <3>3. CASE kind # "rest"
      BY <3>1, <3>3 DEF ParserType
    <3> QED
      BY <3>2, <3>3
  <2>6. {isCancelCalled, responseHasSent, handled, cancelled} \subseteq BOOLEAN
    BY <2>2
  <2> QED
    BY <2>1, <2>2, <2>3, <2>4, <2>5, <2>6 DEF TypeOK, HeldType, HttpType, ParserType
<1> QED
  BY <1>1, InductiveAlways, RestAlways, TypesAlways, PTL

(* The parser of a REST stream: the user is given each object as soon as    *)
(* its last character has been sent, in one piece, wherever the chunks are  *)
(* cut, whatever the objects hold in their strings; and all of them when    *)
(* the array's bracket is reached (streamArrayParser.ts:69-158).            *)
THEOREM ObjectsComeInOrder == Spec => []RestDataInOrder
<1>1. RestInv => RestDataInOrder
  <2> SUFFICES ASSUME RestInv, kind = "rest" PROVE RestDataInOrder
    BY DEF RestDataInOrder
  <2>1. data = CompleteBy(sent) /\ (parser.done /\ ~cancelled => sent = BodyLength)
    BY DEF RestInv, RestReads
  <2> QED
    BY <2>1, CompletedEnds DEF RestDataInOrder
<1> QED
  BY <1>1, RestAlways, PTL

(* The data of every streaming call comes in order, each piece once, and    *)
(* all of it if the stream ends well (streaming.ts:120-200,                 *)
(* streamArrayParser.ts:69-158).                                            *)
THEOREM DataComesInOrder == Spec => []DataInOrder
<1>1. RestDataInOrder /\ GrpcDataInOrder => DataInOrder
  BY DEF DataInOrder
<1> QED
  BY <1>1, ObjectsComeInOrder, MessagesComeInOrder, PTL

-----------------------------------------------------------------------------
(* REST requests: what is encoded does not change, and what is sent is what *)
(* it was encoded as.                                                       *)
EncodingInv ==
    /\ kind = "rest" => request \in Requests
    /\ http # <<>> => kind = "rest" /\ CanTranscode(request) /\ http = Transcode(request)

LEMMA EncodingAlways == Spec => []EncodingInv
<1>1. Init => EncodingInv
  BY DEF Init, EncodingInv
<1>2. EncodingInv /\ [Next]_vars => EncodingInv'
  <2> SUFFICES ASSUME EncodingInv, [Next]_vars PROVE EncodingInv'
    OBVIOUS
  <2>1. UNCHANGED kind
    BY DEF Next, SetStream, Fail, Cancel, GrpcEvent, Metadata, Message, Complete, Error, ResetEnds,
           Retry, RestEvent, Chunk, BodyFails, FetchFails, BodyEnds, vars, call
  <2>2. UNCHANGED encoding \/ SetStream
    BY DEF Next, Fail, Cancel, GrpcEvent, Metadata, Message, Complete, Error, ResetEnds,
           Retry, RestEvent, Chunk, BodyFails, FetchFails, BodyEnds, vars, call, encoding
  <2>3. CASE UNCHANGED encoding
    BY <2>1, <2>3 DEF EncodingInv, encoding
  <2>4. CASE SetStream
    <3>1. /\ UNCHANGED request
          /\ \/ UNCHANGED http
             \/ kind = "rest" /\ CanTranscode(request) /\ http' = Transcode(request)
      BY <2>4 DEF SetStream
    <3> QED
      BY <2>1, <3>1 DEF EncodingInv
  <2> QED
    BY <2>2, <2>3, <2>4
<1> QED
  BY <1>1, <1>2, PTL DEF Spec

(* The resource name of a REST request, if it is made of plain segments,    *)
(* reads back as the plain values that a template of the client has         *)
(* rendered it from, and what a template reads renders it again.  The       *)
(* templates are those on which the code does what is meant (IsTemplate):   *)
(* their bare variables are rewritten in their own place, their names are   *)
(* recognized by match(), and separators are - _ . ~ (pathTemplate.ts:48-   *)
(* 122, 132-163, 181-227).                                                  *)
THEOREM NamesAlwaysReadBack == Spec => []NamesReadBack
<1>1. EncodingInv => NamesReadBack
  <2> SUFFICES ASSUME EncodingInv, kind = "rest", NameField \in DOMAIN request,
                      ToSet(request[NameField]) \subseteq Plain,
                      NEW t \in NameTemplates, CanParse(t)
               PROVE  LET name  == request[NameField]
                          match == Match(t, name)
                      IN  /\ \A bindings \in [Keys(t) -> NameValues] :
                                /\ CanRender(t, bindings) /\ Separable(t, bindings)
                                /\ Render(t, bindings) = name
                                => match.ok /\ match.bindings = bindings
                          /\ match.ok /\ Len(name) = Len(t) + Wildcards(t) /\ ~HasGaps(name) =>
                                /\ CanRender(t, match.bindings)
                                /\ Render(t, match.bindings) = name
    BY DEF NamesReadBack
  <2> DEFINE name == request[NameField]
  <2>1. IsTemplate(t) /\ name \in Segments /\ ToSet(name) \subseteq Plain
    BY NamesAssumption DEF EncodingInv, Segments
  <2>2. ASSUME NEW bindings \in [Keys(t) -> NameValues],
               Separable(t, bindings), Render(t, bindings) = name
        PROVE  Match(t, name).ok /\ Match(t, name).bindings = bindings
    <3>1. bindings \in [Keys(t) -> Seq(STRING)]
      BY NamesAssumption
    <3> HIDE DEF name
    <3> QED
      BY <2>1, <2>2, <3>1, RenderedNamesRead
  <2>3. ASSUME Match(t, name).ok, Len(name) = Len(t) + Wildcards(t), ~HasGaps(name)
        PROVE  /\ CanRender(t, Match(t, name).bindings)
               /\ Render(t, Match(t, name).bindings) = name
    <3> HIDE DEF name
    <3> QED
      BY <2>1, <2>3, ReadNamesRender
  <2> QED
    BY <2>2, <2>3
<1> QED
  BY <1>1, EncodingAlways, PTL

-----------------------------------------------------------------------------
(* The HTTP request that is made of a request.                              *)
LEMMA RequestsAre ==
    ASSUME NEW r \in Requests
    PROVE  IsRequest(r) /\ HasStrings(r)
<1>1. ASSUME NEW p \in DOMAIN r
      PROVE  /\ p \in Seq(FieldNames) /\ p # <<>> /\ r[p] \in Seq(STRING)
             /\ r[p] = Undefined => Spelled(p) = p
             /\ \A q \in DOMAIN r : IsPrefix(Spelled(p), Spelled(q)) => p = q
  <2>1. /\ p \in Seq(FieldNames) /\ p # <<>> /\ r[p] \in Seq(STRING)
        /\ r[p] = Undefined => Spelled(p) = p
        /\ \A q \in DOMAIN r : IsPrefix(p, q) => p = q
    BY RequestsAssumption, Zenon
  <2>2. \A q \in DOMAIN r : IsPrefix(Spelled(p), Spelled(q)) => IsPrefix(p, q)
    BY RequestsAssumption, Zenon
  <2> QED
    BY <2>1, <2>2, Zenon
<1> QED
  BY <1>1 DEF IsRequest, IsPath, HasStrings

LEMMA SpelledAlike ==
    ASSUME NEW r \in Requests, NEW s \in Requests, NEW p \in DOMAIN r, NEW q \in DOMAIN s,
           Spelled(p) = Spelled(q)
    PROVE  p = q
<1>1. p \in Seq(FieldNames) /\ q \in Seq(FieldNames)
  BY RequestsAre DEF IsRequest, IsPath
<1>2. Spelled(p) \in Seq(FieldNames)
  BY <1>1, SpelledPath
<1>3. IsPrefix(Spelled(p), Spelled(q)) /\ IsPrefix(Spelled(q), Spelled(p))
  BY <1>2, PrefixByElement
<1>4. IsPrefix(p, q) /\ IsPrefix(q, p)
  BY <1>3, RequestsAssumption, Zenon
<1>5. /\ Len(p) =< Len(q) /\ \A i \in 1 .. Len(p) : p[i] = q[i]
      /\ Len(q) =< Len(p)
  BY <1>1, <1>4, PrefixByElement
<1>6. Len(p) = Len(q)
  <2>1. Len(p) \in Nat /\ Len(q) \in Nat
    BY <1>1
  <2> QED
    BY <1>5, <2>1
<1> QED
  BY <1>1, <1>5, <1>6, SeqEqual

LEMMA SameParameter ==
    ASSUME NEW r \in Requests, NEW s \in Requests, NEW p \in DOMAIN r, NEW q \in DOMAIN s,
           Parameter(r, p) = Parameter(s, q)
    PROVE  p = q /\ r[p] = s[q]
<1>1. ParameterName(p) = ParameterName(q) /\ r[p] = s[q]
  BY DEF Parameter
<1> QED
  BY <1>1, RequestsAssumption, Zenon

LEMMA MadeOf ==
    ASSUME NEW r \in Requests
    PROVE  LET made    == Transcode(r)
               binding == BindingFor(r)
           IN  /\ made.method = binding.method
               /\ made.url = Url(binding.template, SnakeRequest(r))
               /\ made.queryString = QueryString(LeftForQuery(r, binding))
               /\ made.data = Data(r, binding)
  BY DEF Transcode

(* The URL has the shape of the rule's template.                            *)
LEMMA ShapeOfUrl ==
    ASSUME NEW r \in Requests, CanTranscode(r)
    PROVE  HasShapeOf(Transcode(r).url, BindingFor(r).template)
<1> DEFINE n == Min(Fitting(r))
           template == Bindings[n].template
           snake == SnakeRequest(r)
           url == Url(template, snake)
<1>1. IsRequest(r) /\ HasStrings(r)
  BY RequestsAre
<1>2. n \in DOMAIN Bindings /\ Matches(template, snake)
  BY BindingFits DEF BindingFor
<1>3. Transcode(r).url = url /\ BindingFor(r).template = template
  BY MadeOf DEF BindingFor
<1> HIDE DEF n
<1>4. Bound(template, snake)
  BY <1>1, <1>2, TemplateBound
<1> HIDE DEF template, snake
<1>5. (\A k \in DOMAIN url : url[k] # <<Blank>>) =>
         Fits(FlattenSeq(Patterns(template)), SegmentsOf(url))
  BY <1>4, UrlHasShape
<1> HIDE DEF url
<1>6. HasShapeOf(url, template)
  <2> SUFFICES ASSUME \A k \in DOMAIN url : url[k] # <<"">>
               PROVE  Fits(FlattenSeq([k \in DOMAIN template |->
                               IF Anything(template[k].pattern) THEN <<"*">>
                               ELSE template[k].pattern]),
                           [k \in DOMAIN url |-> IF Len(url[k]) = 1 THEN url[k][1] ELSE "%2F"])
    BY Zenon DEF HasShapeOf
  <2>1. \A k \in DOMAIN url : url[k] # <<Blank>>
    BY Zenon DEF Blank
  <2>2. Fits(FlattenSeq(Patterns(template)), SegmentsOf(url))
    BY <1>5, <2>1
  <2> QED
    BY <2>2, Zenon DEF Patterns, PatternOf, SegmentsOf
<1> QED
  BY <1>3, <1>6

(* Each field that is set ends in one of the three places.                  *)
LEMMA FieldsEndOnce ==
    ASSUME NEW r \in Requests, CanTranscode(r), Survives(r)
    PROVE  FieldsOnce(r, Transcode(r), BindingFor(r))
<1> DEFINE binding == BindingFor(r)
           made    == Transcode(r)
           body    == binding.body
           matched == MatchedFields(binding.template)
           left    == LeftForQuery(r, binding)
           payload == Data(r, binding)
           inUrl   == {CamelPath(f) : f \in matched}
           within  == {<<Camel(body)>> \o p : p \in DOMAIN made.data}
           inBody  == CASE body = WholeBody -> DOMAIN made.data
                        [] body = NoBody    -> {}
                        [] OTHER -> within
           inQuery == {p \in DOMAIN r : Parameter(r, p) \in made.queryString}
<1>1. IsRequest(r) /\ \A p \in DOMAIN r : Spelled(p) = p
  BY RequestsAre DEF Survives
<1>2. /\ Matches(binding.template, SnakeRequest(r))
      /\ body \in FieldNames /\ Snake(Camel(body)) = body
  BY BindingFits
<1>3. made.queryString = QueryString(left) /\ made.data = payload
  BY MadeOf
<1>4. \A p \in DOMAIN r : p \in Seq(FieldNames) /\ p # <<>> /\ IsPath(p) /\ IsPrefix(p, p)
  BY <1>1, PrefixByElement DEF IsRequest, IsPath
<1>5. \A f \in matched : \E p \in DOMAIN r : f = SnakePath(p) /\ CamelPath(f) = p
  <2> SUFFICES ASSUME NEW f \in matched
               PROVE  \E p \in DOMAIN r : f = SnakePath(p) /\ CamelPath(f) = p
    OBVIOUS
  <2>1. PICK p \in DOMAIN r : f = SnakePath(p)
    BY <1>1, <1>2, MatchedAreFields
  <2>2. CamelPath(f) = p
    BY <1>1, <2>1 DEF Spelled
  <2> QED
    BY <2>1, <2>2
<1>6. /\ body = WholeBody => made.queryString = {} /\ DOMAIN left = {}
      /\ made.queryString = {Parameter(r, p) : p \in DOMAIN left}
      /\ \A p \in DOMAIN left : IsSet(r, p)
  BY <1>1, <1>2, <1>3, QueryIs
<1>7. inQuery = DOMAIN left
  <2>1. \A p \in DOMAIN left : p \in inQuery
    BY <1>6 DEF IsSet
  <2>2. ASSUME NEW p \in inQuery PROVE p \in DOMAIN left
    <3>1. PICK q \in DOMAIN left : Parameter(r, p) = Parameter(r, q)
      BY <1>6
    <3>2. p \in DOMAIN r /\ q \in DOMAIN r
      BY <1>6 DEF IsSet
    <3>3. p = q
      BY <3>1, <3>2, SameParameter
    <3> QED
      BY <3>3
  <2> QED
    BY <2>1, <2>2
<1>8. body # WholeBody =>
         \A p \in DOMAIN left : \A f \in UsedBy(binding) : ~IsPrefix(CamelPath(f), p)
  BY <1>1, <1>2, LeftIsUnused
<1>9. \A p : IsSet(r, p) => \/ SnakePath(p) \in matched
                            \/ body = WholeBody /\ Spelled(p) \in DOMAIN payload
                            \/ IsBodyField(body) /\ p \in Inside(r, body)
                            \/ p \in DOMAIN left
  BY <1>1, SetGoesSomewhere
<1>10. body = WholeBody =>
          DOMAIN payload = {Spelled(p) : p \in {q \in DOMAIN r : IsSet(r, q) /\ SnakePath(q) \notin matched}}
  BY <1>1, <1>2, WholeBodyData
<1>11. IsBodyField(body) =>
          /\ DOMAIN payload = {Tail(Spelled(p)) : p \in Inside(r, body)}
          /\ \A p \in Inside(r, body) : <<Camel(body)>> \o Tail(Spelled(p)) = Spelled(p)
  BY <1>1, FieldBodyData
<1>12. DOMAIN SetFields(r) = {p \in DOMAIN r : IsSet(r, p)}
  BY DEF SetFields, DropUnset, IsSet
<1>13. /\ body = WholeBody => inBody = DOMAIN payload
       /\ body = NoBody => inBody = {}
       /\ body \notin {WholeBody, NoBody} => inBody = within
  <2> HIDE DEF payload, made, body, within
  <2> QED
    BY <1>3, WholeIsNotNone
<1>14. FieldsOnce(r, made, binding) <=>
          /\ DOMAIN SetFields(r) \subseteq inUrl \cup inBody \cup inQuery
          /\ inUrl \cup inBody \subseteq DOMAIN r
          /\ made.queryString = {Parameter(r, p) : p \in inQuery}
          /\ inQuery \cap (inUrl \cup inBody) = {}
          /\ body = WholeBody => inUrl \cap inBody = {}
  BY Zenon DEF FieldsOnce
<1> HIDE DEF binding, made, body, matched, left, payload
<1>15. \A p \in DOMAIN r : SnakePath(p) \in matched <=> p \in inUrl
  <2>1. ASSUME NEW p \in DOMAIN r, SnakePath(p) \in matched PROVE p \in inUrl
    <3>1. CamelPath(SnakePath(p)) = p
      BY <1>1 DEF Spelled
    <3> QED
      BY <2>1, <3>1
  <2>2. ASSUME NEW p \in DOMAIN r, p \in inUrl PROVE SnakePath(p) \in matched
    <3>1. PICK f \in matched : p = CamelPath(f)
      BY <2>2
    <3>2. PICK q \in DOMAIN r : f = SnakePath(q) /\ CamelPath(f) = q
      BY <1>5
    <3> QED
      BY <3>1, <3>2
  <2> QED
    BY <2>1, <2>2
<1>16. inUrl \subseteq DOMAIN r
  BY <1>5
<1> HIDE DEF inUrl, inQuery
<1>17. body = WholeBody => inBody = {p \in DOMAIN r : IsSet(r, p) /\ SnakePath(p) \notin matched}
  <2> SUFFICES ASSUME body = WholeBody
               PROVE  DOMAIN payload = {p \in DOMAIN r : IsSet(r, p) /\ SnakePath(p) \notin matched}
    BY <1>13
  <2> DEFINE kept == {q \in DOMAIN r : IsSet(r, q) /\ SnakePath(q) \notin matched}
  <2>1. DOMAIN payload = {Spelled(p) : p \in kept} /\ \A p \in kept : Spelled(p) = p
    BY <1>1, <1>10
  <2> HIDE DEF kept
  <2>2. DOMAIN payload = kept
    BY <2>1
  <2> QED
    BY <2>2 DEF kept
<1>18. body \notin {WholeBody, NoBody} =>
          /\ inBody = Inside(r, body)
          /\ \A p \in Inside(r, body) : p \in DOMAIN r /\ Snake(p[1]) = body
  <2> SUFFICES ASSUME body \notin {WholeBody, NoBody}
               PROVE  /\ within = Inside(r, body)
                      /\ \A p \in Inside(r, body) : p \in DOMAIN r /\ Snake(p[1]) = body
    BY <1>13
  <2>1. IsBodyField(body)
    BY <1>2 DEF IsBodyField, body
  <2>2. \A p \in Inside(r, body) : p \in DOMAIN r /\ Snake(p[1]) = body
    BY DEF Inside
  <2>3. /\ DOMAIN made.data = {Tail(Spelled(p)) : p \in Inside(r, body)}
        /\ \A p \in Inside(r, body) : <<Camel(body)>> \o Tail(Spelled(p)) = p
    BY <1>1, <1>3, <1>11, <2>1, <2>2
  <2>4. within = Inside(r, body)
    <3> DEFINE I == Inside(r, body)
    <3>1. ASSUME NEW x \in within PROVE x \in I
      <4>1. PICK y \in DOMAIN made.data : x = <<Camel(body)>> \o y
        BY <3>1
      <4>2. PICK p \in I : y = Tail(Spelled(p))
        BY <2>3
      <4> QED
        BY <2>3, <4>1, <4>2
    <3>2. ASSUME NEW p \in I PROVE p \in within
      <4>1. Tail(Spelled(p)) \in DOMAIN made.data
        BY <2>3
      <4> QED
        BY <2>3, <4>1
    <3> QED
      BY <3>1, <3>2
  <2> QED
    BY <2>2, <2>4
<1> HIDE DEF inBody
<1>19. DOMAIN SetFields(r) \subseteq inUrl \cup inBody \cup inQuery
  <2> SUFFICES ASSUME NEW p \in DOMAIN r, IsSet(r, p) PROVE p \in inUrl \cup inBody \cup inQuery
    BY <1>12
  <2>1. CASE SnakePath(p) \in matched
    BY <1>15, <2>1
  <2>2. CASE body = WholeBody /\ SnakePath(p) \notin matched
    BY <1>17, <2>2
  <2>3. CASE IsBodyField(body) /\ p \in Inside(r, body)
    BY <1>18, <2>3 DEF IsBodyField
  <2>4. CASE p \in DOMAIN left
    BY <1>7, <2>4
  <2> QED
    BY <1>9, <2>1, <2>2, <2>3, <2>4
<1>20. inUrl \cup inBody \subseteq DOMAIN r
  BY <1>13, <1>16, <1>17, <1>18
<1>21. inQuery \cap (inUrl \cup inBody) = {}
  <2> SUFFICES ASSUME NEW p \in DOMAIN left, p \in inUrl \/ p \in inBody PROVE FALSE
    BY <1>7
  <2>1. body # WholeBody
    BY <1>6
  <2>2. \A f \in UsedBy(binding) : ~IsPrefix(CamelPath(f), p)
    BY <1>8, <2>1
  <2>3. p \in DOMAIN r
    BY <1>20
  <2>4. CASE p \in inUrl
    <3>1. PICK f \in matched : p = CamelPath(f)
      BY <2>4 DEF inUrl
    <3>2. f \in UsedBy(binding)
      BY <3>1 DEF UsedBy, matched
    <3> QED
      BY <1>4, <2>2, <2>3, <3>1, <3>2
  <2>5. CASE p \in inBody
    <3>1. body \notin {WholeBody, NoBody}
      BY <1>13, <2>1, <2>5
    <3>2. Snake(p[1]) = body /\ <<body>> \in UsedBy(binding)
      BY <1>18, <2>5, <3>1 DEF UsedBy, body
    <3>3. p[1] = Camel(body)
      <4>1. Spelled(p)[1] = Camel(body)
        BY <1>4, <2>3, <3>2, PathsWithin
      <4> QED
        BY <1>1, <2>3, <4>1
    <3> DEFINE one == <<body>>
    <3>4. one \in Seq(FieldNames) /\ Len(one) = 1 /\ one[1] = body
      BY <1>2, OneElement, OneLong DEF body
    <3> HIDE DEF one
    <3>5. /\ CamelPath(one) \in Seq(FieldNames) /\ Len(CamelPath(one)) = 1
          /\ CamelPath(one)[1] = Camel(body)
      BY <3>4, PathsSpelled
    <3>6. IsPrefix(CamelPath(one), p)
      <4>1. p \in Seq(FieldNames) /\ Len(p) >= 1
        BY <1>4, <2>3
      <4>2. CamelPath(one) \in Seq(FieldNames)
        BY <3>5
      <4>3. /\ Len(CamelPath(one)) =< Len(p)
            /\ \A i \in 1 .. Len(CamelPath(one)) : CamelPath(one)[i] = p[i]
        BY <3>3, <3>5, <4>1
      <4> QED
        BY <4>1, <4>2, <4>3, PrefixByElement
    <3> QED
      BY <2>2, <3>2, <3>6 DEF one
  <2> QED
    BY <2>4, <2>5
<1>22. body = WholeBody => inUrl \cap inBody = {}
  BY <1>15, <1>17
<1>23. made.queryString = {Parameter(r, p) : p \in inQuery}
  BY <1>6, <1>7
<1>24. FieldsOnce(r, made, binding)
  BY <1>14, <1>19, <1>20, <1>21, <1>22, <1>23
<1> QED
  BY <1>24 DEF made, binding

(* What is set in a request is set in any other that becomes the same HTTP  *)
(* request, to the same value.                                              *)
LEMMA FieldsCarryOver ==
    ASSUME NEW r \in Requests, NEW s \in Requests, CanTranscode(r), CanTranscode(s),
           Transcode(r) = Transcode(s), NEW p, IsSet(r, p)
    PROVE  IsSet(s, p) /\ r[p] = s[p]
<1> DEFINE binding == BindingFor(r)
           body    == binding.body
           matched == MatchedFields(binding.template)
           x       == SnakeRequest(r)
           y       == SnakeRequest(s)
<1>1. binding = BindingFor(s)
  <2>1. <<r, Transcode(r)>> \in Transcoded /\ <<s, Transcode(s)>> \in Transcoded
    BY DEF Transcoded
  <2>2. \A t, u \in Transcoded :
           t[2].method = u[2].method /\ t[2].url = u[2].url => BindingFor(t[1]) = BindingFor(u[1])
    BY RulesApart
  <2> DEFINE t == <<r, Transcode(r)>>
             u == <<s, Transcode(s)>>
  <2>3. t[1] = r /\ u[1] = s /\ t[2] = u[2]
    OBVIOUS
  <2>4. t \in Transcoded /\ u \in Transcoded
    BY <2>1
  <2> HIDE DEF t, u
  <2>5. BindingFor(t[1]) = BindingFor(u[1])
    BY <2>2, <2>3, <2>4
  <2> QED
    BY <2>3, <2>5
<1>2. IsRequest(r) /\ HasStrings(r) /\ IsRequest(s) /\ HasStrings(s)
  BY RequestsAre
<1>3. /\ Matches(binding.template, x) /\ Matches(binding.template, y)
      /\ body \in FieldNames /\ Snake(Camel(body)) = body
  BY <1>1, BindingFits
<1>4. p \in DOMAIN r
  BY DEF IsSet
<1> SUFFICES p \in DOMAIN s /\ r[p] = s[p]
  BY DEF IsSet
<1>5. /\ Url(binding.template, x) = Url(binding.template, y)
      /\ QueryString(LeftForQuery(r, binding)) = QueryString(LeftForQuery(s, binding))
      /\ Data(r, binding) = Data(s, binding)
  <2>1. /\ Transcode(r).url = Url(binding.template, x)
        /\ Transcode(r).queryString = QueryString(LeftForQuery(r, binding))
        /\ Transcode(r).data = Data(r, binding)
    BY MadeOf
  <2>2. /\ Transcode(s).url = Url(binding.template, y)
        /\ Transcode(s).queryString = QueryString(LeftForQuery(s, binding))
        /\ Transcode(s).data = Data(s, binding)
    BY <1>1, MadeOf
  <2> QED
    BY <2>1, <2>2
<1>6. CASE SnakePath(p) \in matched
  <2> DEFINE n == Min(Fitting(r))
             template == Bindings[n].template
  <2>1. /\ n \in DOMAIN Bindings /\ Matches(template, x) /\ Matches(template, y)
        /\ Url(template, x) = Url(template, y) /\ SnakePath(p) \in MatchedFields(template)
    BY <1>3, <1>5, <1>6, BindingFits DEF BindingFor
  <2> HIDE DEF n
  <2>2. Bound(template, x) /\ Bound(template, y)
    BY <1>2, <2>1, TemplateBound
  <2>3. \A i, j \in DOMAIN template : IsOpen(template[i]) /\ IsOpen(template[j]) => i = j
    BY <2>1, RulesAssumption, Zenon
  <2> HIDE DEF template, x, y
  <2>4. x[SnakePath(p)] = y[SnakePath(p)]
    BY <2>1, <2>2, <2>3, UrlTellsValues
  <2>5. PICK q \in DOMAIN s : SnakePath(p) = SnakePath(q)
    BY <1>2, <2>1, MatchedAreFields DEF y
  <2>6. p = q
    <3>1. Spelled(p) = Spelled(q)
      BY <2>5 DEF Spelled
    <3> QED
      BY <1>4, <3>1, SpelledAlike
  <2>7. x[SnakePath(p)] = r[p] /\ y[SnakePath(q)] = s[q]
    BY <1>2, <1>4, SnakeIs DEF x, y
  <2> QED
    BY <2>4, <2>5, <2>6, <2>7
<1>7. CASE body = WholeBody /\ Spelled(p) \in DOMAIN Data(r, binding)
           /\ Data(r, binding)[Spelled(p)] = r[p]
  <2> DEFINE kept == {q \in DOMAIN s : IsSet(s, q) /\ SnakePath(q) \notin matched}
             payload == Data(s, binding)
  <2>1. DOMAIN payload = {Spelled(q) : q \in kept} /\ \A q \in kept : payload[Spelled(q)] = s[q]
    BY <1>2, <1>3, <1>7, WholeBodyData
  <2>2. Spelled(p) \in DOMAIN payload /\ payload[Spelled(p)] = r[p]
    BY <1>5, <1>7
  <2>3. \A q \in kept : q \in DOMAIN s
    OBVIOUS
  <2> HIDE DEF kept, payload
  <2>4. PICK q \in kept : Spelled(p) = Spelled(q)
    BY <2>1, <2>2
  <2>5. p = q
    BY <1>4, <2>3, <2>4, SpelledAlike
  <2> QED
    BY <2>1, <2>2, <2>3, <2>5
<1>8. CASE IsBodyField(body) /\ p \in Inside(r, body)
  <2> DEFINE payload == Data(s, binding)
             I == Inside(r, body)
             J == Inside(s, body)
  <2>1. /\ DOMAIN payload = {Tail(Spelled(q)) : q \in J}
        /\ \A q \in J : /\ payload[Tail(Spelled(q))] = s[q]
                        /\ <<Camel(body)>> \o Tail(Spelled(q)) = Spelled(q)
    BY <1>2, <1>8, FieldBodyData
  <2>2. /\ Tail(Spelled(p)) \in DOMAIN payload /\ payload[Tail(Spelled(p))] = r[p]
        /\ <<Camel(body)>> \o Tail(Spelled(p)) = Spelled(p)
    <3>1. /\ DOMAIN Data(r, binding) = {Tail(Spelled(q)) : q \in I}
          /\ \A q \in I : /\ Data(r, binding)[Tail(Spelled(q))] = r[q]
                          /\ <<Camel(body)>> \o Tail(Spelled(q)) = Spelled(q)
      BY <1>2, <1>8, FieldBodyData
    <3> HIDE DEF I
    <3>2. p \in I
      BY <1>8 DEF I
    <3> QED
      BY <1>5, <3>1, <3>2
  <2>3. \A q \in J : q \in DOMAIN s
    BY DEF Inside
  <2> HIDE DEF J, payload
  <2>4. PICK q \in J : Tail(Spelled(p)) = Tail(Spelled(q))
    BY <2>1, <2>2
  <2>5. Spelled(p) = Spelled(q)
    BY <2>1, <2>2, <2>4
  <2>6. p = q
    BY <1>4, <2>3, <2>5, SpelledAlike
  <2> QED
    BY <2>1, <2>2, <2>3, <2>6
<1>9. CASE p \in DOMAIN LeftForQuery(r, binding)
  <2> DEFINE left == LeftForQuery(r, binding)
             other == LeftForQuery(s, binding)
  <2>1. QueryString(left) = {Parameter(r, q) : q \in DOMAIN left}
    BY <1>2, <1>3, QueryIs
  <2>2. /\ QueryString(other) = {Parameter(s, q) : q \in DOMAIN other}
        /\ \A q \in DOMAIN other : q \in DOMAIN s
    BY <1>2, <1>3, QueryIs DEF IsSet
  <2>3. p \in DOMAIN left /\ QueryString(left) = QueryString(other)
    BY <1>5, <1>9
  <2> HIDE DEF left, other
  <2>4. PICK q \in DOMAIN other : Parameter(r, p) = Parameter(s, q)
    BY <2>1, <2>2, <2>3
  <2>5. p = q /\ r[p] = s[q]
    BY <1>4, <2>2, <2>4, SameParameter
  <2> QED
    BY <2>2, <2>5
<1>10. \/ SnakePath(p) \in matched
       \/ /\ body = WholeBody
          /\ Spelled(p) \in DOMAIN Data(r, binding) /\ Data(r, binding)[Spelled(p)] = r[p]
       \/ IsBodyField(body) /\ p \in Inside(r, body)
       \/ p \in DOMAIN LeftForQuery(r, binding)
  BY <1>2, SetGoesSomewhere
<1> QED
  BY <1>6, <1>7, <1>8, <1>9, <1>10

LEMMA NoOtherRequest ==
    ASSUME NEW r \in Requests, CanTranscode(r)
    PROVE  IsAlone(r, Transcode(r))
<1> SUFFICES ASSUME NEW t \in Transcoded, t[2] = Transcode(r)
             PROVE  SetFields(t[1]) = SetFields(r)
  BY DEF IsAlone
<1>1. PICK s \in Requests : CanTranscode(s) /\ t = <<s, Transcode(s)>>
  BY DEF Transcoded
<1>2. t[1] = s /\ Transcode(s) = Transcode(r)
  BY <1>1
<1>3. \A p : IsSet(r, p) => IsSet(s, p) /\ r[p] = s[p]
  BY <1>1, <1>2, FieldsCarryOver
<1>4. \A p : IsSet(s, p) => IsSet(r, p) /\ s[p] = r[p]
  BY <1>1, <1>2, FieldsCarryOver
<1>5. ASSUME NEW q PROVE SetFields(q) = [p \in {p \in DOMAIN q : IsSet(q, p)} |-> q[p]]
  <2> DEFINE S == {p \in DOMAIN q : IsSet(q, p)}
             T == {p \in DOMAIN q : ~(p \in {<<f>> : f \in OptionalFields} /\ q[p] = Undefined)}
  <2>1. S = T
    BY DEF IsSet
  <2>2. SetFields(q) = [p \in T |-> q[p]]
    BY Zenon DEF SetFields, DropUnset
  <2> HIDE DEF S, T
  <2>3. SetFields(q) = [p \in S |-> q[p]]
    BY <2>1, <2>2
  <2> QED
    BY <2>3 DEF S
<1> DEFINE S == {p \in DOMAIN r : IsSet(r, p)}
           T == {p \in DOMAIN s : IsSet(s, p)}
<1>6. S = T /\ \A p \in S : r[p] = s[p]
  BY <1>3, <1>4 DEF IsSet
<1>7. SetFields(r) = [p \in S |-> r[p]] /\ SetFields(s) = [p \in T |-> s[p]]
  BY <1>5
<1> HIDE DEF S, T
<1>8. SetFields(s) = SetFields(r)
  BY <1>6, <1>7
<1> QED
  BY <1>2, <1>8

(* No other request becomes the same HTTP request, whose URL has the shape  *)
(* of a rule's template, and in which each field that is set ends in the    *)
(* URL, the body or the query string and in no other, if their names        *)
(* survive the change to snake case and back (transcoding.ts:150-207,       *)
(* 296-401).                                                                *)
THEOREM HttpAlwaysDeterminesRequest == Spec => []HttpDeterminesRequest
<1>1. EncodingInv => HttpDeterminesRequest
  <2> SUFFICES ASSUME EncodingInv, http # <<>>
               PROVE  /\ IsAlone(request, http)
                      /\ \E k \in DOMAIN Bindings :
                            /\ Bindings[k].method = http.method
                            /\ HasShapeOf(http.url, Bindings[k].template)
                            /\ Survives(request) => FieldsOnce(request, http, Bindings[k])
    BY DEF HttpDeterminesRequest
  <2>1. request \in Requests /\ CanTranscode(request) /\ http = Transcode(request)
    BY DEF EncodingInv
  <2> DEFINE n == Min(Fitting(request))
  <2>2. n \in DOMAIN Bindings /\ BindingFor(request) = Bindings[n]
    BY <2>1, BindingFits DEF BindingFor
  <2>3. IsAlone(request, http)
    BY <2>1, NoOtherRequest
  <2>4. HasShapeOf(http.url, Bindings[n].template)
    BY <2>1, <2>2, ShapeOfUrl
  <2>5. Survives(request) => FieldsOnce(request, http, Bindings[n])
    BY <2>1, <2>2, FieldsEndOnce
  <2>6. Bindings[n].method = http.method
    BY <2>1, <2>2, MadeOf
  <2> HIDE DEF n
  <2> QED
    BY <2>2, <2>3, <2>4, <2>5, <2>6
<1> QED
  BY <1>1, EncodingAlways, PTL

=============================================================================
