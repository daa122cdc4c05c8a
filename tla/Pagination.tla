----------------------------- MODULE Pagination -----------------------------
(***************************************************************************)
(* The three ways to read a paginated list: one array of everything        *)
(* (paginationCalls/pagedApiCaller.ts, resourceCollector.ts), a stream,    *)
(* and an async iterator (pageDescriptor.ts).  All of them ask for page    *)
(* after page, each named by the token the page before it came with.       *)
(*                                                                         *)
(* A page is a sequence of resources; its token is its number.  The calls  *)
(* are ApiCall's: each is answered at most once, in its own time, by its   *)
(* page or by an error.  setImmediate(apiCall, ...) counts as the call.    *)
(***************************************************************************)
EXTENDS Integers, FiniteSetsExt, SequencesExt

CONSTANTS
    Modes,        \* which of "collect", "stream" and "iterate" are looked at
    Pages,        \* what the server holds: a sequence of pages
    Null,         \* the resource null
    MaxResults,   \* the values of the option maxResults, 0 for none
    MaxAttemptsEmptyResponse,
    Consumers     \* who calls the iterator's next()

ASSUME ModesAssumption == Modes \subseteq {"collect", "stream", "iterate"}
ASSUME ListAssumption ==
    /\ Pages \in Seq(Seq(Nat \cup {Null})) /\ Pages # <<>>
    /\ MaxResults \subseteq Nat /\ MaxAttemptsEmptyResponse \in Nat

VARIABLES
    mode, maxResults,
    calls,       \* the page each caller is waiting for, 0 for none
    lost,        \* the callers whose call will not be answered
    next,        \* request/nextPageRequest: the page to ask for, 0 for none
    got,         \* resources collected, pushed, or returned by next()
    outcome,     \* what the user knows of the end
    started,     \* stream: `started`
    paused,      \* stream: isPaused()
    resuming,    \* stream: a 'resume' event is due
    cache,       \* iterator: `cache`
    attempts,    \* iterator: `attempts` of each next()
    overlapped   \* history: two calls of next() have waited at once

stream == <<started, paused, resuming>>
iterator == <<cache, attempts, overlapped>>
vars == <<mode, maxResults, calls, lost, next, got, outcome, stream, iterator>>

Loop == "loop"      \* the caller of the collector's and the stream's pages
Callers == {Loop} \cup Consumers

ASSUME ConsumersAssumption == Loop \notin Consumers

NextPageUnbounded(p) == p + 1   \* mutant: the empty token is not looked for

NextPageStopsEarly(p) == IF p + 1 < Len(Pages) THEN p + 1 ELSE 0   \* mutant

NextPage(p) == IF p < Len(Pages) THEN p + 1 ELSE 0

(* The collector schedules its first call at once; the others wait for      *)
(* their user.                                                              *)
Init ==
    /\ mode \in Modes
    /\ maxResults \in MaxResults
    /\ calls = [c \in Callers |-> IF mode = "collect" /\ c = Loop THEN 1 ELSE 0]
    /\ lost = {}
    /\ next = 1
    /\ got = <<>>
    /\ outcome = "open"
    /\ started = FALSE /\ paused = FALSE /\ resuming = FALSE
    /\ cache = <<>>
    /\ attempts = [c \in Consumers |-> 0]
    /\ overlapped = FALSE

-----------------------------------------------------------------------------
(* A caller waits for an answer that may come.                              *)
Waits(c) == calls[c] # 0 /\ c \notin lost

(* What a loop has after another page, and whether that is all it may have. *)
Full(resources) == maxResults > 0 /\ Len(resources) >= maxResults
Capped(resources) ==
    IF Full(resources) THEN SubSeq(resources, 1, maxResults) ELSE resources

(* A promise keeps its first outcome.                                       *)
Settle(o) == outcome' = IF outcome = "open" THEN o ELSE outcome

(* ResourceCollector.callback.                                              *)
CollectPage ==
    LET p   == calls[Loop]
        all == got \o Pages[p]
        more == IF Full(all) THEN 0 ELSE NextPage(p)
    IN
    /\ mode = "collect" /\ Waits(Loop)
    /\ got' = Capped(all)
    /\ calls' = [calls EXCEPT ![Loop] = more]
    /\ IF more = 0 THEN Settle("ended") ELSE UNCHANGED outcome
    /\ UNCHANGED <<mode, maxResults, lost, next, stream, iterator>>

CollectError ==
    /\ mode = "collect" /\ Waits(Loop)
    /\ calls' = [calls EXCEPT ![Loop] = 0]
    /\ Settle("error")
    /\ UNCHANGED <<mode, maxResults, lost, next, got, stream, iterator>>

(* cancel() of the promise: the OngoingCall of an auto-paginated call has   *)
(* no cancelFunc, so the promise is rejected and the pages go on.           *)
CollectCancel ==
    /\ mode = "collect" /\ outcome = "open"
    /\ outcome' = "cancelled"
    /\ UNCHANGED <<mode, maxResults, lost, calls, next, got, stream, iterator>>

-----------------------------------------------------------------------------
(* The user's side of createStream: pause(), resume() (also by attaching a  *)
(* 'data' listener), whose event comes in a later turn, and end().          *)
Pause ==
    /\ mode = "stream" /\ ~paused
    /\ paused' = TRUE
    /\ UNCHANGED <<mode, maxResults, lost, calls, next, got, outcome, started, resuming, iterator>>

Resume ==
    /\ mode = "stream" /\ (paused \/ ~started)
    /\ paused' = FALSE
    /\ resuming' = TRUE
    /\ UNCHANGED <<mode, maxResults, lost, calls, next, got, outcome, started, iterator>>

UserEnds ==
    /\ mode = "stream" /\ outcome = "open"
    /\ outcome' = "ended by user"
    /\ UNCHANGED <<mode, maxResults, lost, calls, next, got, stream, iterator>>

(* The 'resume' handler calls the API unless a call is under way.           *)
ResumeEvent ==
    /\ resuming
    /\ resuming' = FALSE
    /\ started' = TRUE
    /\ calls' = IF started THEN calls ELSE [calls EXCEPT ![Loop] = next]
    /\ UNCHANGED <<mode, maxResults, lost, next, got, outcome, paused, iterator>>

RequestForgotten(p) == next   \* mutant: a paused stream does not keep it

(* `request` and `started` after page p: a paused stream keeps the next     *)
(* request for its 'resume' event.                                          *)
KeptRequest(p) == IF paused THEN NextPage(p) ELSE next

StartedForGood == TRUE   \* mutant: `started` is not reset

StillStarted == ~paused

NonNull(resources) ==
    FlattenSeq([k \in DOMAIN resources |->
                   IF resources[k] = Null THEN <<>> ELSE <<resources[k]>>])

(* The stream's callback pushes the page, but for nulls, unless the stream  *)
(* has ended, which a 'data' listener may also do after `n` resources.      *)
StreamPage ==
    LET p    == calls[Loop]
        all  == got \o NonNull(Pages[p])
        over == outcome # "open"
    IN
    /\ mode = "stream" /\ Waits(Loop)
    /\ \/ /\ over
          /\ calls' = [calls EXCEPT ![Loop] = 0]
          /\ UNCHANGED <<got, outcome, next, started>>
       \/ /\ ~over
          /\ \E n \in Len(got) + 1 .. Len(Capped(all)) : got' = SubSeq(all, 1, n)
          /\ outcome' = "ended by user"
          /\ calls' = [calls EXCEPT ![Loop] = 0]
          /\ UNCHANGED <<next, started>>
       \/ /\ ~over
          /\ got' = Capped(all)
          /\ IF Full(all) \/ NextPage(p) = 0
             THEN /\ outcome' = "ended"
                  /\ calls' = [calls EXCEPT ![Loop] = 0]
                  /\ UNCHANGED <<next, started>>
             ELSE /\ calls' = [calls EXCEPT ![Loop] = IF paused THEN 0 ELSE NextPage(p)]
                  /\ next' = KeptRequest(p)
                  /\ started' = StillStarted
                  /\ UNCHANGED outcome
    /\ UNCHANGED <<mode, maxResults, lost, paused, resuming, iterator>>

StreamError ==
    /\ mode = "stream" /\ Waits(Loop)
    /\ calls' = [calls EXCEPT ![Loop] = 0]
    /\ Settle("error")
    /\ UNCHANGED <<mode, maxResults, lost, next, got, stream, iterator>>

-----------------------------------------------------------------------------
(* The end of a call of next(): the first cached resource, or done.         *)
Return(resources) ==
    IF resources = <<>>
    THEN /\ outcome' = "ended"
         /\ cache' = <<>>
         /\ UNCHANGED got
    ELSE /\ got' = Append(got, Head(resources))
         /\ cache' = Tail(resources)
         /\ UNCHANGED outcome

(* A consumer calls next(); the loop in it asks for the next page.          *)
Ask(c) ==
    /\ mode = "iterate" /\ calls[c] = 0
    /\ outcome = "open"                \* who is told `done` does not ask again
    /\ attempts' = [attempts EXCEPT ![c] = 0]
    /\ \/ /\ cache # <<>> \/ next = 0
          /\ Return(cache)
          /\ UNCHANGED <<calls, overlapped>>
       \/ /\ cache = <<>> /\ next # 0
          /\ calls' = [calls EXCEPT ![c] = next]
          /\ overlapped' = (overlapped \/ \E d \in Consumers : calls[d] # 0)
          /\ UNCHANGED <<got, outcome, cache>>
    /\ UNCHANGED <<mode, maxResults, lost, next, stream>>

(* Its page arrives: an empty one is followed by the next, up to a limit.   *)
IteratePage(c) ==
    LET p      == calls[c]
        cached == cache \o Pages[p]
        tries  == attempts[c] + 1
    IN
    /\ Waits(c)
    /\ next' = NextPage(p)
    /\ \/ /\ cached = <<>> /\ tries =< MaxAttemptsEmptyResponse /\ next' # 0
          /\ attempts' = [attempts EXCEPT ![c] = tries]
          /\ calls' = [calls EXCEPT ![c] = next']
          /\ UNCHANGED <<got, outcome, cache>>
       \/ /\ cached # <<>> \/ tries > MaxAttemptsEmptyResponse \/ next' = 0
          /\ Return(cached)
          /\ calls' = [calls EXCEPT ![c] = 0]
          /\ UNCHANGED attempts
    /\ UNCHANGED <<mode, maxResults, lost, stream, overlapped>>

(* next() is rejected; another next() asks for the same page again.         *)
IterateError(c) ==
    /\ Waits(c)
    /\ calls' = [calls EXCEPT ![c] = 0]
    /\ UNCHANGED <<mode, maxResults, lost, next, got, outcome, stream, iterator>>

-----------------------------------------------------------------------------
(* A call is never answered, as ApiCall says: the fetch-based stub loses    *)
(* it, it is retried without limit, a collector does not look at the        *)
(* rejected promise of a closed client, or nobody catches what is thrown    *)
(* from setImmediate.                                                       *)
CallLost(c) ==
    /\ Waits(c)
    /\ lost' = lost \cup {c}
    /\ UNCHANGED <<mode, maxResults, calls, next, got, outcome, stream, iterator>>

PageArrives == CollectPage \/ StreamPage \/ \E c \in Consumers : IteratePage(c)
CallFails == CollectError \/ StreamError \/ \E c \in Consumers : IterateError(c)
CallIsLost == \E c \in Callers : CallLost(c)

Next ==
    \/ PageArrives \/ CallFails \/ CallIsLost
    \/ CollectCancel
    \/ Pause \/ Resume \/ ResumeEvent \/ UserEnds
    \/ \E c \in Consumers : Ask(c)

(* Sooner or later it is settled whether a call is answered, and a 'resume' *)
(* event that is due is emitted.                                            *)
Fairness == WF_vars(PageArrives \/ CallFails \/ CallIsLost) /\ WF_vars(ResumeEvent)

Spec == Init /\ [][Next]_vars

FairSpec == Spec /\ Fairness

-----------------------------------------------------------------------------
Resources == UNION {ToSet(Pages[p]) : p \in DOMAIN Pages}
PageNumbers == 0 .. Len(Pages)

TypeOK ==
    /\ mode \in Modes /\ maxResults \in MaxResults
    /\ calls \in [Callers -> PageNumbers] /\ next \in PageNumbers
    /\ lost \subseteq Callers
    /\ got \in Seq(Resources) /\ cache \in Seq(Resources)
    /\ outcome \in {"open", "ended", "error", "cancelled", "ended by user"}
    /\ {started, paused, resuming, overlapped} \subseteq BOOLEAN
    /\ attempts \in [Consumers -> 0 .. MaxAttemptsEmptyResponse + 1]

(* The resources of a page, and of the first n pages, as the reader of this *)
(* mode sees them: a stream leaves out nulls.                               *)
PageSeen(p) == IF mode = "stream" THEN NonNull(Pages[p]) ELSE Pages[p]
Seen(n) == FlattenSeq([p \in 1 .. n |-> PageSeen(p)])

(* The whole list, up to maxResults (which the iterator does not look at).  *)
Wanted ==
    LET list == Seen(Len(Pages))
    IN  IF mode = "iterate" \/ maxResults = 0 THEN list
        ELSE SubSeq(list, 1, Min({maxResults, Len(list)}))

(* However calls, pauses, failures and cancels interleave, the user gets    *)
(* the resources in the list's order, none twice, none skipped, and not     *)
(* more than maxResults, and has all of them when a reader ends by itself.  *)
(* Only the iterator may stop early, after too many empty pages in a row,   *)
(* and only if two calls of next() wait at once does it give a page twice   *)
(* (resourceCollector.ts:54-71, pageDescriptor.ts:83-103, 139-176).         *)
PrefixOfList ==
    ~overlapped =>
        /\ IsPrefix(got, Wanted)
        /\ outcome = "ended" =>
              \/ got = Wanted
              \/ /\ mode = "iterate"
                 /\ next > MaxAttemptsEmptyResponse + 1
                 /\ \A p \in next - MaxAttemptsEmptyResponse - 1 .. next - 1 : Pages[p] = <<>>

(* The page on its way is the one after what the user has: no page is asked *)
(* for again after a pause or a failure, none ahead of its need, and none   *)
(* once maxResults is reached (resourceCollector.ts:73-77, pageDescriptor.  *)
(* ts:104-122, 146-158).                                                    *)
AsksForNextPage ==
    \A c \in Callers :
        calls[c] # 0 /\ ~overlapped /\ outcome # "ended by user" =>
            /\ got = Seen(calls[c] - 1)
            /\ cache = <<>>
            /\ mode # "iterate" => maxResults = 0 \/ Len(got) < maxResults

(* A list that is collected ends, and so does a stream whose user no longer *)
(* pauses it, unless the answer to a page has been lost: no order of        *)
(* pauses, resumes and pages leaves a reader waiting with no call under way *)
(* (resourceCollector.ts:42-88, pageDescriptor.ts:111-122,                  *)
(* fallbackServiceStub.ts:109-132).                                         *)
ReadersFinish ==
    mode = "collect" \/ (mode = "stream" /\ <>started /\ <>[]~paused) =>
        <>(outcome # "open" \/ (calls[Loop] # 0 /\ Loop \in lost))

=============================================================================
