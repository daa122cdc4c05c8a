------------------------------- MODULE ApiCall -------------------------------
(***************************************************************************)
(* One unary API call: createApiCall (src/src/createApiCall.ts), the       *)
(* OngoingCall that owns the user's callback or promise (call.ts), the     *)
(* retry loop with exponential backoff (normalCalls/retries.ts,            *)
(* timeout.ts), and below it either the gRPC stub (external) or the        *)
(* fetch-based stub (fallbackServiceStub.ts).  A call that collects a list *)
(* (paginationCalls/) runs the retry loop once per page, with the delay    *)
(* and the timeout that the page before has left.                          *)
(*                                                                         *)
(* Time is a clock in arbitrary units.  A timer fires and a gRPC deadline  *)
(* expires when they are due; a retry sleeps at least one unit, as         *)
(* setTimeout does.                                                        *)
(***************************************************************************)
EXTENDS Integers, Sequences, FiniteSetsExt

CONSTANTS
    Codes,             \* the error codes a server may answer with
    Settings,          \* the settings calls are made with, see TypeOfSettings
    InitialDelay, DelayMultiplier, MaxDelay,   \* backoffSettings, delays
    InitialTimeout,    \* initialRpcTimeoutMillis, or by default the call's timeout
    Lateness,          \* bound: how long after its deadline a fetch may go on
    MaxAttempts        \* bound: the attempts of a call that is retried without limit

Unset == -1            \* maxRetries is undefined

(* transport  "grpc", or "fallback" for the fetch-based stub                *)
(* style      how the user is told: by a callback, or by a promise, which   *)
(*            is the only one of the two that can be cancelled              *)
(* client     "plain"; "failing", a mixin client whose stub could not be     *)
(*            created; or "closable", a mixin client that may be closed     *)
(* pages      0, or the number of pages of the list that the call collects  *)
(* fits       whether the fetch-based stub can make an HTTP request of the   *)
(*            call's request; its encoder throws if not                     *)
(* Of the backoff settings, those that may be null are 0 then: the total    *)
(* timeout, and the multiplier and the maximum of the timeouts.             *)
TypeOfSettings ==
    [transport : {"grpc", "fallback"}, style : {"callback", "promise"},
     client : {"plain", "failing", "closable"}, pages : Nat,
     retryCodes : SUBSET (Codes \cup {"DEADLINE_EXCEEDED", "CANCELLED"}),
     totalTimeout : Nat, maxRetries : Nat \cup {Unset},
     timeoutMultiplier : Nat, maxTimeout : Nat, fits : BOOLEAN]

ASSUME SettingsAssumption == Settings \subseteq TypeOfSettings
ASSUME BackoffAssumption ==
    /\ {InitialDelay, DelayMultiplier, MaxDelay, Lateness} \subseteq Nat
    /\ {InitialTimeout, MaxAttempts} \subseteq Nat \ {0}

VARIABLES
    settings,    \* thisSettings, chosen once
    now,         \* the clock
    phase,       \* where the retry loop is
    rpc,         \* the current attempt: how far the transport is with it
    delay, timeout, deadline, retries,   \* the variables of retryable()
    wake,        \* when the backoff timer fires
    page,        \* how many pages have been asked for
    terminated,  \* _terminated of the client
    completed,   \* OngoingCall.completed
    cancelFunc,  \* whether OngoingCall.cancelFunc is set
    queue,       \* outcomes handed to setImmediate
    callbacks,   \* outcomes the user's callback was called with
    cancelledIn, \* history: where cancel() found the call
    attempts     \* history: how many attempts had been made then

loop == <<phase, rpc, delay, timeout, deadline, retries, wake, page>>
ongoing == <<completed, cancelFunc, queue, callbacks>>
history == <<cancelledIn, attempts>>
vars == <<settings, now, terminated, loop, ongoing, history>>

Paged == settings.pages > 0

NoRpc == [step |-> "none", deadline |-> 0, cancelled |-> FALSE, answer |-> "none"]

Outcomes == Codes \cup {"response", "CANCELLED", "DEADLINE_EXCEEDED",
                        "INVALID_ARGUMENT", "BODY_FAILED", "CLOSED", "STUB_FAILED"}

Init ==
    /\ settings \in Settings
    /\ now = 1
    /\ phase = "created"
    /\ rpc = NoRpc
    /\ delay = InitialDelay
    /\ timeout = InitialTimeout
    /\ deadline = 0
    /\ retries = 0
    /\ wake = 0
    /\ page = 0
    /\ terminated = FALSE
    /\ completed = FALSE
    /\ cancelFunc = FALSE
    /\ queue = <<>>
    /\ callbacks = <<>>
    /\ cancelledIn = "none"
    /\ attempts = 0

-----------------------------------------------------------------------------
FinishSilently(outcome) ==   \* mutant: the user's callback is not scheduled
    /\ phase' = "finished"
    /\ completed' = TRUE
    /\ UNCHANGED queue

(* The callback that OngoingCall.call passes down completes the call and    *)
(* defers the user's callback; a collector settles its own promise, which   *)
(* leads to the user's callback but completes nothing.  Every path that     *)
(* uses it ends the loop.                                                   *)
Finish(outcome) ==
    /\ phase' = "finished"
    /\ completed' = (completed \/ ~Paged)
    /\ queue' = Append(queue, outcome)

SendAsGrpc(t) ==   \* mutant: the transport is not looked at
    /\ phase' = "calling"
    /\ rpc' = [NoRpc EXCEPT !.step = settings.transport, !.deadline = now + t]
    /\ retries' = retries + 1
    /\ UNCHANGED <<completed, queue>>

(* The function of a closed client returns a rejected promise.  The retry   *)
(* loop ends at once; without it the user's callback is deferred, but the   *)
(* call not completed, and a collector never hears of its page.             *)
SendClosed ==
    /\ retries' = retries + 1
    /\ \/ settings.retryCodes # {} /\ Finish("CLOSED") /\ rpc' = NoRpc
       \/ /\ settings.retryCodes = {} /\ ~Paged
          /\ phase' = "finished"
          /\ queue' = Append(queue, "CLOSED")
          /\ rpc' = NoRpc
          /\ UNCHANGED completed
       \/ /\ settings.retryCodes = {} /\ Paged
          /\ phase' = "calling"
          /\ rpc' = [NoRpc EXCEPT !.step = "lost"]
          /\ UNCHANGED <<completed, queue>>

(* addTimeoutArg: an attempt starts with a deadline `t` from now.           *)
SendOpen(t) ==
    /\ phase' = "calling"
    /\ rpc' = [NoRpc EXCEPT !.step = IF settings.transport = "grpc" THEN "grpc" ELSE "auth",
                            !.deadline = now + t]
    /\ retries' = retries + 1
    /\ UNCHANGED <<completed, queue>>

Send(t) == IF terminated THEN SendClosed ELSE SendOpen(t)

(* The total deadline is over.                                              *)
Expired(d) == d > 0 /\ now >= d

(* repeat() in retryable(), for a total deadline `d` and an rpc timeout `t`. *)
Repeat(d, t) ==
    LET exhausted == retries > 0 /\ settings.maxRetries # Unset
                                 /\ retries >= settings.maxRetries
    IN  IF Expired(d) \/ exhausted
        THEN Finish("DEADLINE_EXCEEDED") /\ UNCHANGED <<rpc, retries>>
        ELSE Send(t)

(* totalTimeoutMillis and maxRetries together are refused without a call.   *)
InvalidLimits ==
    settings.maxRetries > 0 /\ settings.retryCodes # {} /\ settings.totalTimeout > 0

(* The fetch-based stub throws if it cannot encode the request.  A retry    *)
(* sends the same request, so that it is the first attempt that throws.     *)
Unencodable == settings.transport = "fallback" /\ ~settings.fits /\ ~terminated

(* The function throws when it is called; so does that of a client without  *)
(* a stub.                                                                  *)
Throws == ~InvalidLimits /\ (settings.client = "failing" \/ Unencodable)

(* The retryable function is invoked: by OngoingCall.call, which keeps its  *)
(* canceller, or for a page.                                                *)
Invoke ==
    LET total == settings.totalTimeout
        d     == IF settings.retryCodes # {} /\ total > 0 THEN now + total ELSE 0
    IN  /\ deadline' = d
        /\ cancelFunc' = ~Paged
        /\ IF InvalidLimits
           THEN Finish("INVALID_ARGUMENT") /\ UNCHANGED <<rpc, retries>>
           ELSE Repeat(d, timeout)
        /\ UNCHANGED callbacks

StartAnyway ==   \* mutant: `completed` is not looked at
    /\ phase = "created"
    /\ Invoke
    /\ UNCHANGED <<settings, now, terminated, delay, timeout, wake, page, history>>

(* The stub is ready and the caller makes the call, unless it has been      *)
(* cancelled meanwhile; if the function throws, fail() is called.  A        *)
(* collector does not look at cancels, and schedules its first page.        *)
Start ==
    /\ phase = "created"
    /\ \/ /\ completed /\ ~Paged
          /\ phase' = "finished"
          /\ UNCHANGED <<rpc, deadline, retries, ongoing>>
       \/ /\ ~completed /\ ~Paged /\ ~Throws
          /\ Invoke
       \/ /\ ~completed /\ ~Paged /\ Throws
          /\ phase' = "finished"
          /\ callbacks' = Append(callbacks, "STUB_FAILED")
          /\ UNCHANGED <<rpc, deadline, retries, completed, cancelFunc, queue>>
       \/ /\ Paged
          /\ phase' = "paging"
          /\ UNCHANGED <<rpc, deadline, retries, ongoing>>
    /\ UNCHANGED <<settings, now, terminated, delay, timeout, wake, page, history>>

(* setImmediate runs the call of a page: a new total deadline and count of  *)
(* retries, but the delay and the timeout of the page before.  Nothing      *)
(* catches what the function throws here.                                   *)
NextPage ==
    /\ phase = "paging"
    /\ page' = page + 1
    /\ \/ ~Throws /\ Invoke
       \/ Throws /\ phase' = "crashed" /\ UNCHANGED <<rpc, deadline, retries, ongoing>>
    /\ UNCHANGED <<settings, now, terminated, delay, timeout, wake, history>>

(* close() of a mixin client.  An attempt under way does not notice it.     *)
Close ==
    /\ settings.client = "closable"
    /\ phase \in {"created", "paging", "sleeping"}
    /\ ~terminated
    /\ terminated' = TRUE
    /\ UNCHANGED <<settings, now, loop, ongoing, history>>

(* The promise of the stub is rejected: fail() calls the user's callback    *)
(* itself, whether or not the call was cancelled.  (That of a mixin client  *)
(* never is.)                                                               *)
StubFails ==
    /\ settings.client = "plain"
    /\ phase = "created"
    /\ phase' = "finished"
    /\ callbacks' = Append(callbacks, "STUB_FAILED")
    /\ UNCHANGED <<settings, now, terminated, rpc, delay, timeout, deadline, retries, wake, page,
                   completed, cancelFunc, queue, history>>

(* cancel() of the retry loop: the attempt under way is cancelled, or the   *)
(* backoff timer cleared.                                                   *)
CancelLoop ==
    \/ /\ phase = "calling"
       /\ rpc' = [rpc EXCEPT !.cancelled = TRUE]
       /\ UNCHANGED <<phase, queue>>
    \/ /\ phase = "sleeping"
       /\ phase' = "finished"
       /\ queue' = Append(queue, "CANCELLED")
       /\ UNCHANGED rpc
    \/ /\ phase = "finished"   \* the promise of a closed client has no cancel()
       /\ UNCHANGED <<phase, rpc, queue>>

(* OngoingCall.cancel, through the promise.                                 *)
Cancel ==
    /\ settings.style = "promise"
    /\ ~completed /\ phase # "crashed"
    /\ completed' = TRUE
    /\ cancelledIn' = IF rpc.step = "answered" THEN "answered" ELSE phase
    /\ attempts' = retries
    /\ \/ /\ ~cancelFunc
          /\ callbacks' = Append(callbacks, "CANCELLED")
          /\ UNCHANGED <<phase, rpc, queue>>
       \/ /\ cancelFunc
          /\ CancelLoop
          /\ UNCHANGED callbacks
    /\ UNCHANGED <<settings, now, terminated, delay, timeout, deadline, retries, wake, page, cancelFunc>>

(* The callback of an attempt.  A response, or an error that is not in      *)
(* retryCodes, ends the call; another error is retried after a random       *)
(* fraction of the delay.  The response to a page that is not the last is   *)
(* collected, and the next page is scheduled.                               *)
Received(outcome) ==
    /\ rpc' = NoRpc
    /\ \/ /\ outcome = "response" /\ page < settings.pages
          /\ phase' = "paging"
          /\ retries' = 0
          /\ UNCHANGED <<completed, queue, wake>>
       \/ /\ outcome \notin settings.retryCodes
          /\ outcome = "response" => page = settings.pages
          /\ Finish(outcome)
          /\ UNCHANGED <<wake, retries>>
       \/ /\ outcome \in settings.retryCodes
          /\ phase' = "sleeping"
          /\ \E sleep \in 1 .. Max({1, delay}) : wake' = now + sleep
          /\ UNCHANGED <<completed, queue, retries>>
    /\ UNCHANGED <<settings, now, terminated, delay, timeout, deadline, page, cancelFunc,
                   callbacks, history>>

NextTimeoutUncut == Min({timeout * settings.timeoutMultiplier, settings.maxTimeout})   \* mutant

(* The timeout of the next attempt, cut to what is left of the total.  It   *)
(* is nothing if there is no total, no multiplier or no maximum.            *)
NextTimeout ==
    LET left == IF deadline > 0 THEN deadline - now ELSE 0
    IN  Min({timeout * settings.timeoutMultiplier, settings.maxTimeout, left})

(* Errors are retried, and neither a total timeout nor maxRetries ends it.   *)
Unlimited ==
    /\ settings.retryCodes # {}
    /\ settings.totalTimeout = 0 /\ settings.maxRetries = Unset

(* The backoff timer fires (up to the bound).                               *)
Wake ==
    /\ phase = "sleeping"
    /\ now >= wake
    /\ Unlimited => retries < MaxAttempts
    /\ delay' = Min({delay * DelayMultiplier, MaxDelay})
    /\ timeout' = NextTimeout
    /\ Repeat(deadline, NextTimeout)
    /\ UNCHANGED <<settings, now, terminated, deadline, wake, page, cancelFunc, callbacks, history>>

DeliverAgain ==   \* mutant: the outcome stays scheduled
    /\ queue # <<>>
    /\ callbacks' = Append(callbacks, Head(queue))
    /\ UNCHANGED <<settings, now, terminated, loop, completed, cancelFunc, queue, history>>

(* setImmediate runs the user's callback.                                   *)
Deliver ==
    /\ queue # <<>>
    /\ callbacks' = Append(callbacks, Head(queue))
    /\ queue' = Tail(queue)
    /\ UNCHANGED <<settings, now, terminated, loop, completed, cancelFunc, history>>

-----------------------------------------------------------------------------
(* The answer to the current attempt is decided and on its way.             *)
Settled(outcome) == rpc' = [rpc EXCEPT !.step = "answered", !.answer = outcome]

(* The gRPC stub (external).  It answers every attempt once: by its         *)
(* deadline, and with CANCELLED once cancelled unless another answer was    *)
(* already on its way.                                                      *)
GrpcDecides(outcome) ==
    /\ rpc.step = "grpc"
    /\ \/ outcome \in Codes \cup {"response"} /\ ~rpc.cancelled /\ now < rpc.deadline
       \/ outcome = "DEADLINE_EXCEEDED" /\ ~rpc.cancelled /\ now >= rpc.deadline
       \/ outcome = "CANCELLED" /\ rpc.cancelled
    /\ Settled(outcome)
    /\ UNCHANGED <<settings, now, terminated, phase, delay, timeout, deadline, retries, wake, page,
                   ongoing, history>>

(* The callback of the attempt is called, with the answer decided before.   *)
Answer ==
    /\ rpc.step = "answered"
    /\ Received(rpc.answer)

(* The fetch-based stub: auth headers, then the HTTP response, then its     *)
(* body.  It has no timeout.                                                *)
FallbackAdvances(from, to) ==
    /\ rpc.step = from
    /\ rpc' = [rpc EXCEPT !.step = to]
    /\ UNCHANGED <<settings, now, terminated, phase, delay, timeout, deadline, retries, wake, page,
                   ongoing, history>>

(* The body has been read.  It is decoded to a response or an error, or     *)
(* fails, with an error that has no code.                                   *)
FallbackDecodes(outcome) ==
    /\ rpc.step = "body"
    /\ ~rpc.cancelled
    /\ Settled(outcome)
    /\ UNCHANGED <<settings, now, terminated, phase, delay, timeout, deadline, retries, wake, page,
                   ongoing, history>>

(* No handler is attached to a rejection of the headers or of fetch()       *)
(* itself, and an AbortError of the body is swallowed: no callback is made. *)
FallbackLost ==
    /\ \/ rpc.step \in {"auth", "fetch"}
       \/ rpc.step = "body" /\ rpc.cancelled
    /\ rpc' = [rpc EXCEPT !.step = "lost"]
    /\ UNCHANGED <<settings, now, terminated, phase, delay, timeout, deadline, retries, wake, page,
                   ongoing, history>>

Fallback ==
    \/ FallbackAdvances("auth", "fetch")
    \/ ~rpc.cancelled /\ FallbackAdvances("fetch", "body")
    \/ \E outcome \in Codes \cup {"response", "BODY_FAILED"} : FallbackDecodes(outcome)
    \/ FallbackLost

(* Time passes until the next timer or deadline is due, and not while an    *)
(* answer is on its way.  It is not read before the call starts, nor after  *)
(* it ends or is lost.  The fetch-based stub does not look at the deadline. *)
Tick ==
    /\ phase = "sleeping" => now < wake
    /\ rpc.step = "grpc" => now < rpc.deadline /\ ~rpc.cancelled
    /\ rpc.step \in {"auth", "fetch", "body"} => now < rpc.deadline + Lateness
    /\ rpc.step \notin {"answered", "lost"}
    /\ phase \in {"calling", "sleeping"}
    /\ now' = now + 1
    /\ UNCHANGED <<settings, terminated, loop, ongoing, history>>

Grpc == \E outcome \in Outcomes : GrpcDecides(outcome)

Next ==
    \/ Start \/ StubFails \/ NextPage \/ Cancel \/ Close
    \/ Grpc \/ Fallback \/ Answer \/ Wake \/ Deliver \/ Tick

(* The promise of the stub settles, timers fire, the transport goes on, and *)
(* the event loop runs what setImmediate was given.                         *)
Fairness ==
    /\ WF_vars(Start \/ StubFails)
    /\ WF_vars(NextPage)
    /\ WF_vars(Grpc)
    /\ WF_vars(Fallback)
    /\ WF_vars(Answer)
    /\ WF_vars(Wake)
    /\ WF_vars(Deliver)
    /\ WF_vars(Tick)

Spec == Init /\ [][Next]_vars

FairSpec == Spec /\ Fairness

-----------------------------------------------------------------------------
Phases == {"created", "paging", "calling", "sleeping", "finished", "crashed"}

TypeOK ==
    /\ settings \in Settings
    /\ now \in Nat
    /\ phase \in Phases
    /\ rpc \in [step : {"none", "grpc", "auth", "fetch", "body", "answered", "lost"},
                deadline : Int, cancelled : BOOLEAN, answer : Outcomes \cup {"none"}]
    /\ delay \in Nat /\ timeout \in Int /\ deadline \in Nat
    /\ retries \in Nat /\ wake \in Nat /\ page \in 0 .. settings.pages
    /\ terminated \in BOOLEAN
    /\ completed \in BOOLEAN /\ cancelFunc \in BOOLEAN
    /\ queue \in Seq(Outcomes) /\ callbacks \in Seq(Outcomes)
    /\ cancelledIn \in Phases \cup {"answered", "none"} /\ attempts \in Nat

(* The user hears of a call once.  A callback is called at most once: no    *)
(* answer, page, timer or stub failure calls it again; a promise, which     *)
(* keeps its first outcome, may be told of a cancel and then of a failing   *)
(* stub or of a list that went on.  Nothing is reported while an attempt, a *)
(* backoff or a page is pending, but for the cancel of a list; and once the *)
(* loop has ended the outcome is on its way or delivered.                   *)
(* call.ts:54-99, createApiCall.ts:113-120, retries.ts:81-127,              *)
(* pagedApiCaller.ts:158-162.                                               *)
ReportedOnce ==
    LET reports == callbacks \o queue
    IN  /\ Len(reports) =< IF settings.style = "callback" \/ cancelFunc THEN 1 ELSE 2
        /\ phase = "finished" => reports # <<>>
        /\ phase \in {"paging", "calling", "sleeping"} =>
              reports = IF Paged /\ cancelledIn # "none" THEN <<"CANCELLED">> ELSE <<>>

(* With a total timeout, the first attempt has time to run; and if the      *)
(* timeouts have a multiplier and a maximum, so has every other one: the    *)
(* first one of a page too, although its timeout is what the retries of     *)
(* earlier pages have left.  One that is a retry must be over by the total  *)
(* deadline; and the call of a page over gRPC, or the one call that is      *)
(* made, ends at most one backoff after the total deadline or after its     *)
(* first attempt: neither that attempt nor the sleep is cut to it           *)
(* (retries.ts:56-57, 71-75, 83-90, 116-126).                               *)
RetriesFitTotalTimeout ==
    deadline > 0 =>
        /\ phase = "calling" =>
              \/ timeout > 0
              \/ settings.timeoutMultiplier = 0 \/ settings.maxTimeout = 0
        /\ phase = "calling" /\ retries = 1 /\ page =< 1 => timeout > 0
        /\ phase = "calling" /\ retries > 1 => rpc.deadline =< deadline
        /\ phase \in {"calling", "sleeping"} /\ settings.transport = "grpc" =>
              LET start == deadline - settings.totalTimeout
              IN  now =< Max({deadline, start + Max({InitialTimeout, settings.maxTimeout})})
                         + Max({1, InitialDelay, MaxDelay})

(* A cancel is final if it finds the call before its start, in an attempt   *)
(* whose answer is not decided, or asleep between two attempts: no attempt  *)
(* follows, and the promise gets no other outcome than CANCELLED, unless    *)
(* the stub has failed.  Two attempts are retried all the same: one already *)
(* answered with a retryable error, and one cancelled while CANCELLED is    *)
(* among the codes to retry.  The cancel of a list is reported before       *)
(* anything else, whatever its pages do then (call.ts:54-66, 78-80,         *)
(* retries.ts:104-127, 148-159).                                            *)
CancelIsFinal ==
    LET reports == callbacks \o queue
    IN  IF Paged
        THEN cancelledIn \notin {"none", "finished"} => callbacks[1] = "CANCELLED"
        ELSE /\ cancelledIn \in {"created", "sleeping"} => retries = attempts
             /\ cancelledIn = "created" => callbacks[1] = "CANCELLED"
             /\ cancelledIn = "sleeping" => phase = "finished" /\ reports = <<"CANCELLED">>
             /\ cancelledIn = "calling" /\ "CANCELLED" \notin settings.retryCodes =>
                   retries = attempts /\ reports \in {<<>>, <<"CANCELLED">>}

(* The user hears of every call, or of the cancel of it, over either        *)
(* transport and from every client, with four exceptions: the fetch-based   *)
(* stub loses failures of the headers and of fetch() and swallows the abort *)
(* of a body; a closed client never answers a list that is not retried; a   *)
(* list ends the process if its client has no stub or if its request cannot *)
(* be encoded; and a call with codes to retry but neither a total timeout   *)
(* nor maxRetries may be retried for ever (call.ts:36-41,                   *)
(* fallbackServiceStub.ts:95, 109-174, locationService.ts:219-232,          *)
(* resourceCollector.ts:71-88, gax.ts:357-359, retries.ts:56-57, 81-101).   *)
CallsFinish ==
    <>(\/ callbacks # <<>>
       \/ rpc.step = "lost" /\ settings.transport = "fallback"
       \/ rpc.step = "lost" /\ terminated /\ Paged /\ settings.retryCodes = {}
       \/ phase = "crashed" /\ Paged /\ Throws
       \/ phase = "sleeping" /\ Unlimited /\ retries = MaxAttempts)

=============================================================================
