----------------------------- MODULE StreamProxy -----------------------------
(***************************************************************************)
(* A streaming call: the StreamProxy that the user holds from the start    *)
(* (src/src/streamingCalls/streaming.ts, streamingApiCaller.ts) and the    *)
(* API stream it is given once the stub is ready.  A server stream over    *)
(* gRPC goes through the retry-request library (external), which may ask   *)
(* for more than one API stream.  A stream over REST has                   *)
(* its request made by Transcoding, with a resource name that the user has *)
(* rendered with PathTemplates, and its answer read by StreamArrayParser.  *)
(* Only the readable side is modelled: what the user writes goes through   *)
(* duplexify (external) untouched.                                         *)
(***************************************************************************)
EXTENDS StreamArrayParser, Transcoding, PathTemplates, FiniteSets

CONSTANTS
    Kinds,               \* "server", "client", "bidi" over gRPC, or "rest"
    Messages,            \* the messages of a gRPC server, in order
    Objects,             \* the objects in the array a REST server sends
    Requests,            \* the requests of REST calls
    NameField,           \* the path of the field with the resource name
    NameTemplates,       \* the path templates of the client, for that field
    NameValues,          \* the values of their variables
    RetryOptions         \* the retryRequestOptions that calls are made with

ASSUME KindsAssumption == Kinds \subseteq {"server", "client", "bidi", "rest"}
(* The text of a JSON object: how deep it is after each character, which    *)
(* ends it or not, with backslashes in its strings only.                    *)
Outside == [depth |-> 0, isInString |-> FALSE, isSkipped |-> FALSE]

Deeper(at, c) ==
    [depth |-> IF at.isInString \/ c \notin {OpenBrace, CloseBrace} THEN at.depth
               ELSE IF c = OpenBrace THEN at.depth + 1 ELSE at.depth - 1,
     isInString |-> IF c = Quote /\ ~at.isSkipped THEN ~at.isInString ELSE at.isInString,
     isSkipped |-> at.isInString /\ c = Backslash /\ ~at.isSkipped]

Nesting(text) ==
    LET after[n \in 0 .. Len(text)] ==
            IF n = 0 THEN Outside ELSE Deeper(after[n - 1], text[n])
    IN  after

IsObject(text) ==
    /\ text \in Seq(STRING) /\ text # <<>> /\ text[1] = OpenBrace
    /\ \A n \in 1 .. Len(text) : text[n] = Backslash => Nesting(text)[n - 1].isInString
    /\ \A n \in 1 .. Len(text) - 1 : Nesting(text)[n].depth > 0
    /\ Nesting(text)[Len(text)].depth = 0

ASSUME ObjectsAssumption ==
    Objects \in Seq(Seq(STRING)) /\ \A i \in DOMAIN Objects : IsObject(Objects[i])
ASSUME MessagesAssumption == Messages \in Seq(ToSet(Messages))

NotGiven == -1

(* What setStream passes on to retry-request.  An option that is not given  *)
(* has the library's default: 2 for `retries` and `noResponseRetries`, and  *)
(* a `shouldRetryFn` that is false of the responses StreamProxy makes.      *)
(* Here that is the answers it may give.                                    *)
ASSUME RetryOptionsAssumption ==
    RetryOptions \subseteq [retries : Nat, currentRetryAttempt : Nat \cup {NotGiven},
                            noResponseRetries : Nat,
                            shouldRetryFn : (SUBSET BOOLEAN) \ {{}}]

(* A field that has a value has no fields.  No two fields look alike as     *)
(* parameters of a query, or after their names have been changed to snake   *)
(* case and back, which those of fields that are not set survive.           *)
ASSUME RequestsAssumption ==
    /\ \A r \in Requests : \A p \in DOMAIN r :
          /\ p \in Seq(FieldNames) /\ p # <<>> /\ r[p] \in Seq(STRING)
          /\ r[p] = Undefined => Spelled(p) = p
          /\ \A q \in DOMAIN r : IsPrefix(p, q) => p = q
    /\ \A r, s \in Requests : \A p \in DOMAIN r, q \in DOMAIN s :
          /\ ParameterName(p) = ParameterName(q) => p = q
          /\ IsPrefix(Spelled(p), Spelled(q)) => IsPrefix(p, q)

(* No two rules make the same URL for the same method.                      *)
Transcoded == {<<r, Transcode(r)>> : r \in {q \in Requests : CanTranscode(q)}}

ASSUME RulesApart ==
    \A t, u \in Transcoded :
        t[2].method = u[2].method /\ t[2].url = u[2].url => BindingFor(t[1]) = BindingFor(u[1])
ASSUME NamesAssumption ==
    /\ \A template \in NameTemplates : IsTemplate(template)
    /\ NameValues \subseteq Seq(STRING)
    /\ \A r \in Requests : NameField \in DOMAIN r => r[NameField] \in Seq(STRING \ {"other"})

VARIABLES
    kind,
    retryRequestOptions,
    request, http,    \* REST: the request, and the HTTP request made of it
    stage,            \* "created"; "running"; "retrying", or "late" for that;
                      \* "crashed"; "over"
    isCancelCalled,
    stream,           \* the API stream of the current attempt
    responseHasSent,  \* _responseHasSent
    handled,          \* retry-request: streamResponseHandled, of this attempt
    numNoResponseAttempts,   \* retry-request: attempts that failed before it
    held,             \* retry-request: messages held back until the response
    attempts,         \* how many API streams have been opened
    events,           \* the events the user has seen
    data,             \* the messages or objects the user has been given
    cancelled,        \* history: the user has called cancel()
    parser, sent      \* the parser and how much of the body it has been given

encoding == <<request, http>>
call == <<kind, retryRequestOptions>>
vars == <<call, encoding, stage, isCancelCalled, stream, responseHasSent, handled,
          numNoResponseAttempts, held, attempts, events, data, cancelled, parser, sent>>

NoStream == [step |-> "none", cancelled |-> FALSE, received |-> 0]

(* The array of Objects as it is sent.                                      *)
Body ==
    LET commas == [i \in DOMAIN Objects |->
                      IF i = 1 THEN Objects[1] ELSE <<"x">> \o Objects[i]]
    IN  <<OpenBracket>> \o FlattenSeq(commas) \o <<CloseBracket>>

Init ==
    /\ kind \in Kinds
    /\ IF kind = "server" THEN retryRequestOptions \in RetryOptions
                          ELSE retryRequestOptions = <<>>
    /\ request \in (IF kind = "rest" THEN Requests ELSE {<<>>})
    /\ http = <<>>
    /\ stage = "created"
    /\ isCancelCalled = FALSE
    /\ stream = NoStream
    /\ responseHasSent = FALSE
    /\ handled = FALSE
    /\ numNoResponseAttempts = 0
    /\ held = <<>>
    /\ attempts = 0
    /\ events = <<>>
    /\ data = <<>>
    /\ cancelled = FALSE
    /\ parser = NewParser
    /\ sent = 0

-----------------------------------------------------------------------------
OpenUncancelled(cancel) ==   \* mutant: an early cancel is forgotten
    /\ stream' = [step |-> "open", cancelled |-> FALSE, received |-> 0]
    /\ attempts' = attempts + 1
    /\ stage' = "running"

(* apiCall(): an API stream is opened.                                      *)
Open(cancel) ==
    /\ stream' = [step |-> "open", cancelled |-> cancel, received |-> 0]
    /\ attempts' = attempts + 1
    /\ stage' = "running"

EndWithClose(event) ==   \* mutant
    /\ stage' = "over"
    /\ events' = Append(events, "close")

(* The user's stream ends, once, with this event.  (For a client stream it   *)
(* stands for the user's callback.)                                         *)
EndWith(event) ==
    /\ stage' = "over"
    /\ events' = Append(events, event)

(* setStream, when the stub is ready.  retry-request cannot do without the  *)
(* stream that a cancelled request does not make, and throws, as the        *)
(* encoder does on a request that no HTTP rule fits.  If the user says that *)
(* attempts have been made before, already the first waits for a timer.     *)
SetStream ==
    /\ stage = "created"
    /\ \/ /\ kind \in {"client", "bidi"}
          /\ Open(isCancelCalled)
          /\ UNCHANGED <<events, http>>
       \/ /\ kind = "server" /\ retryRequestOptions.currentRetryAttempt > 0
          /\ stage' = "retrying"
          /\ UNCHANGED <<stream, attempts, events, http>>
       \/ /\ kind = "server" /\ retryRequestOptions.currentRetryAttempt =< 0
          /\ ~isCancelCalled
          /\ Open(FALSE)
          /\ UNCHANGED <<events, http>>
       \/ /\ kind = "rest" /\ CanTranscode(request)
          /\ http' = Transcode(request)
          /\ Open(FALSE)
          /\ UNCHANGED events
       \/ /\ \/ /\ kind = "server" /\ retryRequestOptions.currentRetryAttempt =< 0
                /\ isCancelCalled
             \/ kind = "rest" /\ ~CanTranscode(request)
          /\ EndWith("error")
          /\ UNCHANGED <<stream, attempts, http>>
    /\ UNCHANGED <<call, request, isCancelCalled, responseHasSent, handled,
                   numNoResponseAttempts, held, data, cancelled, parser, sent>>

(* fail(), when the promise of the stub is rejected.                        *)
Fail ==
    /\ stage = "created"
    /\ EndWith("error")
    /\ UNCHANGED <<call, encoding, isCancelCalled, stream, responseHasSent, handled,
                   numNoResponseAttempts, held, attempts, data, cancelled, parser, sent>>

(* cancel() by the user.  A REST stream is cancelled by its parser, which   *)
(* ends.                                                                    *)
Cancel ==
    /\ stage # "over"
    /\ cancelled' = TRUE
    /\ \/ /\ stream = NoStream
          /\ isCancelCalled' = TRUE
          /\ UNCHANGED <<stage, stream, events, parser>>
       \/ /\ stream # NoStream /\ kind # "rest"
          /\ stream' = [stream EXCEPT !.cancelled = TRUE]
          /\ UNCHANGED <<stage, isCancelCalled, events, parser>>
       \/ /\ stream # NoStream /\ kind = "rest"
          /\ parser' = Cancelled(parser)
          /\ stream' = [stream EXCEPT !.step = "closed", !.cancelled = TRUE]
          /\ EndWith("end")
          /\ UNCHANGED isCancelCalled
    /\ UNCHANGED <<call, encoding, responseHasSent, handled, numNoResponseAttempts, held,
                   attempts, data, sent>>

-----------------------------------------------------------------------------
(* Events of a gRPC stream.  The comment in forwardEvents states what is    *)
(* relied on: 'metadata' may not come, 'status' comes last.                 *)
Grpc == kind # "rest" /\ stream.step = "open"

(* What retry-request makes of a 'response': the messages held back are     *)
(* passed on.  Other kinds have no such holding back.                       *)
Connected == kind # "server" \/ handled

(* retry-request gives a response to shouldRetryFn as long as there are     *)
(* retries left.                                                            *)
RetriesLeft ==
    retryRequestOptions.currentRetryAttempt + attempts < retryRequestOptions.retries

RetriesResponse ==
    kind = "server" /\ RetriesLeft /\ TRUE \in retryRequestOptions.shouldRetryFn

KeepsResponse ==
    kind = "server" => ~RetriesLeft \/ FALSE \in retryRequestOptions.shouldRetryFn

(* retryAfterDelay: a timer is set, unless ten minutes have passed since    *)
(* the first request; then nothing more is done.                            *)
RetryAfterDelay == stage' \in {"retrying", "late"}

(* The listeners of 'metadata', of which one emits 'response'.  A response  *)
(* that is retried has its API stream cancelled.                            *)
Metadata ==
    /\ Grpc /\ stream.received = 0 /\ ~handled
    /\ events' = events \o <<"metadata", "response">>
    /\ responseHasSent' = TRUE
    /\ handled' = TRUE
    /\ \/ /\ KeepsResponse
          /\ UNCHANGED <<stage, stream>>
       \/ /\ RetriesResponse
          /\ RetryAfterDelay
          /\ stream' = [stream EXCEPT !.step = "reset", !.cancelled = TRUE]
    /\ UNCHANGED <<call, encoding, isCancelCalled, numNoResponseAttempts, held, attempts,
                   data, cancelled, parser, sent>>

Message ==
    /\ Grpc /\ kind # "client" /\ stream.received < Len(Messages)
    /\ LET n == stream.received + 1
       IN /\ stream' = [stream EXCEPT !.received = n]
          /\ data' = IF Connected THEN Append(data, Messages[n]) ELSE data
          /\ held' = IF Connected THEN held ELSE Append(held, Messages[n])
    /\ UNCHANGED <<call, encoding, stage, isCancelCalled, responseHasSent, handled,
                   numNoResponseAttempts, attempts, events, cancelled, parser, sent>>

StatusEventsAlways == <<"status", "response">>   \* mutant: _responseHasSent not read

(* The listeners of 'status': it is forwarded, and followed by a 'response' *)
(* if there has been none.                                                  *)
StatusEvents == IF responseHasSent THEN <<"status">> ELSE <<"status", "response">>

(* The server is done: all its messages have come, and the last of the      *)
(* events is 'status'.  If that makes the response, it may be retried.      *)
(* Then the readable side ends; but if an attempt before has had 'metadata' *)
(* and this one has not, there is no response and retry-request does not    *)
(* pass on anything.                                                        *)
Complete ==
    /\ Grpc /\ (kind # "client" => stream.received = Len(Messages))
    /\ stream' = [stream EXCEPT !.step = "closed"]
    /\ \/ /\ Connected \/ (~responseHasSent /\ KeepsResponse)
          /\ data' = data \o held
          /\ held' = <<>>
          /\ handled' = TRUE
          /\ stage' = "over"
          /\ events' = events \o StatusEvents \o <<"end">>
       \/ /\ ~Connected /\ ~responseHasSent /\ RetriesResponse
          /\ held' = <<>>
          /\ handled' = TRUE
          /\ RetryAfterDelay
          /\ events' = events \o StatusEvents
          /\ UNCHANGED data
       \/ /\ ~Connected /\ responseHasSent
          /\ events' = events \o StatusEvents
          /\ UNCHANGED <<data, held, handled, stage>>
    /\ UNCHANGED <<call, encoding, isCancelCalled, responseHasSent, numNoResponseAttempts,
                   attempts, cancelled, parser, sent>>

(* The call fails, or ends as cancelled: 'error', then 'status'.  Before    *)
(* its response the error is retry-request's to retry.                      *)
Error ==
    /\ Grpc
    /\ stream' = [stream EXCEPT !.step = "closed"]
    /\ held' = <<>>
    /\ handled' = TRUE
    /\ numNoResponseAttempts' = numNoResponseAttempts + (IF Connected THEN 0 ELSE 1)
    /\ \/ /\ ~Connected /\ numNoResponseAttempts < retryRequestOptions.noResponseRetries
          /\ RetryAfterDelay
          /\ events' = events \o StatusEvents
       \/ /\ ~Connected => numNoResponseAttempts >= retryRequestOptions.noResponseRetries
          /\ stage' = "over"
          /\ events' = events \o <<"error">> \o StatusEvents
    /\ UNCHANGED <<call, encoding, isCancelCalled, responseHasSent, attempts, data, cancelled,
                   parser, sent>>

(* An API stream that retry-request has cancelled ends, with an 'error'     *)
(* that no one looks at, before the next is opened.                         *)
ResetEnds ==
    /\ stream.step = "reset"
    /\ stream' = [stream EXCEPT !.step = "closed"]
    /\ events' = events \o StatusEvents
    /\ UNCHANGED <<call, encoding, stage, isCancelCalled, responseHasSent, handled,
                   numNoResponseAttempts, held, attempts, data, cancelled, parser, sent>>

RetryNothing ==   \* mutant: request() returns without a stream
    /\ stage = "retrying" /\ stream.step # "reset"
    /\ UNCHANGED vars

(* retry-request's timer: request() makes another API stream.  If it is the *)
(* first and the user has cancelled, it makes none; retry-request throws,   *)
(* and nothing catches that.                                                *)
Retry ==
    /\ stage = "retrying" /\ stream.step # "reset"
    /\ \/ /\ ~isCancelCalled
          /\ Open(FALSE)
          /\ handled' = FALSE
       \/ /\ isCancelCalled
          /\ stage' = "crashed"
          /\ UNCHANGED <<stream, attempts, handled>>
    /\ UNCHANGED <<call, encoding, isCancelCalled, responseHasSent, numNoResponseAttempts,
                   held, events, data, cancelled, parser, sent>>

-----------------------------------------------------------------------------
(* A REST stream: a chunk of any length reaches the parser, whose objects   *)
(* the user is given; the array's end is the stream's.                      *)
Chunk(n) ==
    LET parsed == Transform(parser, SubSeq(Body, sent + 1, sent + n))
    IN
    /\ kind = "rest" /\ stream.step = "open"
    /\ sent + n =< Len(Body)
    /\ sent' = sent + n
    /\ parser' = parsed
    /\ data' = data \o SubSeq(parsed.pushed, Len(data) + 1, Len(parsed.pushed))
    /\ IF parsed.done \/ parsed.failed
       THEN /\ stream' = [stream EXCEPT !.step = "closed"]
            /\ EndWith(IF parsed.failed THEN "error" ELSE "end")
       ELSE UNCHANGED <<stage, stream, events>>
    /\ UNCHANGED <<call, encoding, isCancelCalled, responseHasSent, handled,
                   numNoResponseAttempts, held, attempts, cancelled>>

(* The pipeline from the body, or the decoding of an error answer, fails.   *)
BodyFails ==
    /\ kind = "rest" /\ stream.step = "open"
    /\ stream' = [stream EXCEPT !.step = "closed"]
    /\ EndWith("error")
    /\ UNCHANGED <<call, encoding, isCancelCalled, responseHasSent, handled,
                   numNoResponseAttempts, held, attempts, data, cancelled, parser, sent>>

(* No one hears of a failure of the headers or of fetch() itself.           *)
FetchFails ==
    /\ kind = "rest" /\ stream.step = "open" /\ sent = 0
    /\ stream' = [stream EXCEPT !.step = "lost"]
    /\ UNCHANGED <<call, encoding, stage, isCancelCalled, responseHasSent, handled,
                   numNoResponseAttempts, held, attempts, events, data, cancelled, parser, sent>>

(* The body ends before its array does: _flush does not look at what the    *)
(* parser still waits for.                                                  *)
BodyEnds ==
    /\ kind = "rest" /\ stream.step = "open"
    /\ stream' = [stream EXCEPT !.step = "closed"]
    /\ EndWith("end")
    /\ UNCHANGED <<call, encoding, isCancelCalled, responseHasSent, handled,
                   numNoResponseAttempts, held, attempts, data, cancelled, parser, sent>>

-----------------------------------------------------------------------------
GrpcEvent == Metadata \/ Message \/ Complete \/ Error \/ ResetEnds
RestEvent == (\E n \in 1 .. Len(Body) : Chunk(n)) \/ BodyFails \/ FetchFails \/ BodyEnds

Next == SetStream \/ Fail \/ Cancel \/ GrpcEvent \/ Retry \/ RestEvent

(* The promise of the stub settles, a gRPC stream makes progress (it has a  *)
(* deadline), and the timer of a retry fires.  Of a REST stream nothing is  *)
(* assumed.                                                                 *)
Fairness == WF_vars(SetStream \/ Fail) /\ WF_vars(GrpcEvent) /\ WF_vars(Retry)

Spec == Init /\ [][Next]_vars

FairSpec == Spec /\ Fairness

-----------------------------------------------------------------------------
TypeOK ==
    /\ kind \in Kinds
    /\ retryRequestOptions \in RetryOptions \cup {<<>>}
    /\ stage \in {"created", "running", "retrying", "late", "crashed", "over"}
    /\ stream \in [step : {"none", "open", "reset", "closed", "lost"}, cancelled : BOOLEAN,
                   received : 0 .. Len(Messages)]
    /\ {isCancelCalled, responseHasSent, handled, cancelled} \subseteq BOOLEAN
    /\ held \in Seq(ToSet(Messages)) /\ {attempts, numNoResponseAttempts} \subseteq Nat
    /\ events \in Seq({"metadata", "response", "status", "end", "error"})
    /\ data \in Seq(ToSet(Messages) \cup ToSet(Objects))
    /\ request \in Requests \cup {<<>>}
    /\ http # <<>> => DOMAIN http = {"method", "url", "queryString", "data"}
    /\ DOMAIN parser = DOMAIN NewParser /\ sent \in 0 .. Len(Body)

(* The objects that are complete within the first n characters of the body. *)
CompleteBy(n) ==
    SubSeq(Objects, 1,
           Cardinality({i \in DOMAIN Objects :
                           Len(FlattenSeq(SubSeq(Objects, 1, i))) + i =< n}))

(* Of a REST stream the user is given every object as soon as it is         *)
(* complete, in one piece, wherever the chunks are cut; and the whole array *)
(* when the stream ends without an error or a cancel, unless the body was   *)
(* cut short (streamArrayParser.ts:69-158).                                 *)
RestDataInOrder ==
    kind = "rest" =>
        /\ data = CompleteBy(sent)
        /\ "end" \in ToSet(events) /\ parser.done /\ ~cancelled => data = Objects

(* Of a gRPC stream the user is given the server's messages in order and    *)
(* each once, also when attempts were retried.  A stream that ends without  *)
(* an error has given everything, response and status included: no message  *)
(* stays held back for a response that has already been sent                *)
(* (streaming.ts:120-200).                                                  *)
GrpcDataInOrder ==
    kind # "rest" =>
        /\ IsPrefix(data, Messages)
        /\ stream.step = "open" => data \o held = SubSeq(Messages, 1, stream.received)
        /\ "end" \in ToSet(events) =>
              /\ kind \in {"server", "bidi"} => data = Messages
              /\ {"response", "status"} \subseteq ToSet(events)

(* Data comes in order, each piece once, and all of it if the stream ends.  *)
DataInOrder == RestDataInOrder /\ GrpcDataInOrder

Count(sequence, event) == Cardinality({i \in DOMAIN sequence : sequence[i] = event})

(* The statuses before there has been any 'metadata'.                       *)
EarlyStatuses(sequence) ==
    {i \in DOMAIN sequence : sequence[i] = "status"
                             /\ \A j \in 1 .. i : sequence[j] # "metadata"}

(* Each finished attempt tells the user its status once, a cancelled one    *)
(* included.  A response comes from its 'metadata'; or from its 'status',   *)
(* as long as no attempt has had 'metadata'.  So each attempt has one,      *)
(* unless retry-request may retry a response: then an attempt without       *)
(* 'metadata' may come after one that had it (streaming.ts:127-155).        *)
RespondsOncePerAttempt ==
    LET unfinished == stream.step \in {"open", "reset"}
    IN  kind # "rest" =>
            /\ Count(events, "status") = attempts - (IF unfinished THEN 1 ELSE 0)
            /\ Count(events, "response") =
                  Count(events, "metadata") + Cardinality(EarlyStatuses(events))
            /\ (kind = "server" => TRUE \notin retryRequestOptions.shouldRetryFn)
               => Count(events, "response") =
                     Count(events, "status") + (IF unfinished /\ responseHasSent THEN 1 ELSE 0)

(* A cancel of a gRPC stream is never lost between the user's stream and    *)
(* the API stream, whether it comes before or after the stub is ready, as   *)
(* long as retry-request does not open another (streaming.ts:108-114,       *)
(* 181-186, 217-219).                                                       *)
CancelReachesFirstAttempt ==
    cancelled /\ kind # "rest" /\ attempts = 1 /\ stream.step = "open" => stream.cancelled

(* Nothing of what came is passed on to the user, who has been told a       *)
(* response before.                                                         *)
IsSwallowed ==
    stage = "running" /\ stream.step = "closed" /\ responseHasSent /\ ~handled

(* Every gRPC stream ends (streaming.ts:124-126: "This avoids the stream     *)
(* swallowing the other events, such as 'end'"), retries and early cancels  *)
(* included, but in three cases: an attempt without 'metadata' comes after  *)
(* one whose response was retried; a retry is due more than ten minutes     *)
(* after the first request; or a cancel comes before the timer of a first   *)
(* request (streaming.ts:129-155, 178-199).                                 *)
GrpcStreamsEnd ==
    kind # "rest" => /\ <>(stage \in {"over", "late", "crashed"} \/ IsSwallowed)
                     /\ [](stage = "crashed" => cancelled /\ attempts = 0)

(* Nothing of a REST request is lost or confused on its way into the URL,   *)
(* the query string and the body: no other request becomes the same HTTP    *)
(* request.  The URL has the shape of a rule's template: however many       *)
(* slashes a field has, it fills the segments of its own variable and no    *)
(* others, unless it is empty.  And each field that is set ends in one of   *)
(* the three places and in no other, but for one of the URL that is in the  *)
(* message that is the body, if the names survive the change to snake case  *)
(* and back: one as line_1 may end in two.  The HTTP request is looked at   *)
(* when it is made, for it does not change (transcoding.ts:150-207,         *)
(* 296-401).                                                                *)
SetFields(r) == DropUnset(r, OptionalFields)
Survives(r) == \A p \in DOMAIN r : Spelled(p) = p

IsAlone(r, made) == \A t \in Transcoded : t[2] = made => SetFields(t[1]) = SetFields(r)

HasShapeOf(url, template) ==
    LET pattern  == FlattenSeq([k \in DOMAIN template |->
                       IF Anything(template[k].pattern) THEN <<"*">> ELSE template[k].pattern])
        segments == [k \in DOMAIN url |-> IF Len(url[k]) = 1 THEN url[k][1] ELSE "%2F"]
    IN  (\A k \in DOMAIN url : url[k] # <<"">>) => Fits(pattern, segments)

FieldsOnce(r, made, binding) ==
    LET inUrl   == {CamelPath(f) : f \in MatchedFields(binding.template)}
        inBody  == CASE binding.body = WholeBody -> DOMAIN made.data
                     [] binding.body = NoBody    -> {}
                     [] OTHER -> {<<Camel(binding.body)>> \o p : p \in DOMAIN made.data}
        inQuery == {p \in DOMAIN r : Parameter(r, p) \in made.queryString}
    IN  /\ DOMAIN SetFields(r) \subseteq inUrl \cup inBody \cup inQuery
        /\ inUrl \cup inBody \subseteq DOMAIN r
        /\ made.queryString = {Parameter(r, p) : p \in inQuery}
        /\ inQuery \cap (inUrl \cup inBody) = {}
        /\ binding.body = WholeBody => inUrl \cap inBody = {}

HttpDeterminesRequest ==
    http # <<>> /\ sent = 0 =>
        /\ IsAlone(request, http)
        /\ \E k \in DOMAIN Bindings :
              /\ Bindings[k].method = http.method
              /\ HasShapeOf(http.url, Bindings[k].template)
              /\ Survives(request) => FieldsOnce(request, http, Bindings[k])

(* The resource name that a REST request carries reads back, by whichever   *)
(* of the client's templates it fits, as the values it was rendered from;   *)
(* and what a template reads renders the same name again.  A ** stands for  *)
(* two segments: the name has one more than the template.  What is empty    *)
(* reads, but does not render.  Excepted are names with characters that     *)
(* String.replace() or a template gives a meaning, $ { } and *              *)
(* (pathTemplate.ts:48-122, 132-163).                                       *)
NamesReadBack ==
    kind = "rest" /\ stage = "created" /\ NameField \in DOMAIN request =>
        LET name == request[NameField] IN
        ToSet(name) \subseteq Plain =>
        \A template \in {t \in NameTemplates : CanParse(t)} :
            LET match == Match(template, name) IN
            /\ \A bindings \in [Keys(template) -> NameValues] :
                  /\ CanRender(template, bindings) /\ Separable(template, bindings)
                  /\ Render(template, bindings) = name
                  => match.ok /\ match.bindings = bindings
            /\ match.ok /\ Len(name) = Len(template) + Wildcards(template) /\ ~HasGaps(name) =>
                  /\ CanRender(template, match.bindings)
                  /\ Render(template, match.bindings) = name

(* "You can cancel the running API call: stream.cancel()"                   *)
(* (client-libraries.md:208-211): an API stream that is open after cancel() *)
(* has been cancelled.                                                      *)
CancelReachesEveryAttempt == cancelled /\ stream.step = "open" => stream.cancelled

=============================================================================
