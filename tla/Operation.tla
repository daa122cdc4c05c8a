----------------------------- MODULE Operation -----------------------------
(***************************************************************************)
(* A long-running operation on the client: the Operation object            *)
(* (src/src/longRunningCalls/longrunning.ts), an event emitter that polls  *)
(* the server while somebody listens for 'complete', caches the latest     *)
(* answer, and lets users poll, cancel, or wait on promise().              *)
(*                                                                         *)
(* The server (external) moves an operation through increasing metadata to *)
(* a response, an error, or an end with neither.  A poll takes its answer  *)
(* from the server at one moment and hands it over at a later one.         *)
(***************************************************************************)
EXTENDS Integers, SequencesExt

CONSTANTS
    Listeners,      \* users that wait for the end: promise(), or on('complete')
    Getters,        \* the calls of getOperation() that users make themselves
    InitialDelay, DelayMultiplier, MaxDelay,   \* backoffSettings
    TotalTimeout,   \* totalTimeoutMillis, 0 for none
    MaxMetadata,    \* bound: how often the server changes the metadata
    MaxLoops        \* bound: how many polling loops are started

Loops == 1 .. MaxLoops
Callers == Loops \cup Getters

Nobody == 0

ASSUME CallersAssumption == (Loops \cup {Nobody}) \cap Getters = {}
ASSUME TimesAssumption ==
    /\ {InitialDelay, DelayMultiplier, MaxDelay} \subseteq Nat \ {0}
    /\ {TotalTimeout, MaxMetadata, MaxLoops} \subseteq Nat

(* google.longrunning.Operation: `end` says which result a done operation   *)
(* has.  Metadata 0 is no metadata.                                         *)
Ends == {"response", "error", "empty"}
Snapshots == [end : Ends \cup {"running"}, metadata : 0 .. MaxMetadata]
Done(op) == op.end # "running"

(* A polling loop: the variables of startPolling_, `left` being the time    *)
(* until its deadline and `wait` the time until its timer fires.            *)
Loop == [step : {"idle", "polling", "sleeping", "ended", "stopped", "lost"},
         delay : Nat, left : Nat, wait : Nat, previousMetadata : 0 .. MaxMetadata]
IdleLoop == [step |-> "idle", delay |-> 0, left |-> 0, wait |-> 0, previousMetadata |-> 0]

(* A loop that has returned: the model forgets its variables but `left`.    *)
Over(loop, step) == [IdleLoop EXCEPT !.step = step, !.left = loop.left]

(* A caller's getOperation RPC: on its way, cancelled, with its answer on   *)
(* the way back, over, or never to be settled.                              *)
Requests == [step : {"none", "sent", "cancelled", "over", "lost"}] \cup
            [step : {"served"}, answer : Snapshots]

(* An event as handed to setImmediate(emit, ...).                           *)
Events == [loop : Loops, name : {"complete", "error", "progress"},
           what : Ends \cup {"DEADLINE_EXCEEDED", "running"}, metadata : 0 .. MaxMetadata]

(* The order in which a loop's events must come: progress by its metadata,  *)
(* then the end.                                                            *)
Rank(event) == IF event.name = "progress" THEN event.metadata ELSE MaxMetadata + 1

VARIABLES
    server,             \* the operation on the server
    latestResponse,     \* the latest answer of the server
    completeListeners, hasActiveListeners,
    listening,          \* who has a 'complete' listener registered
    loops,              \* the polling loops
    requests,           \* each caller's getOperation RPC
    currentCall,        \* whose RPC currentCallPromise_ is
    immediates,         \* events given to setImmediate
    lastEmitted,        \* history: the rank of the last event emitted for each loop
    heard               \* history: the listeners told how the operation ended

listeners == <<completeListeners, hasActiveListeners, listening>>
events == <<immediates, lastEmitted, heard>>
polls == <<loops, requests, currentCall>>
vars == <<server, latestResponse, listeners, polls, events>>

(* The initial call has answered, perhaps with a done operation.            *)
Init ==
    /\ server \in [end : Ends \cup {"running"}, metadata : {0}]
    /\ latestResponse = server
    /\ completeListeners = 0
    /\ hasActiveListeners = FALSE
    /\ listening = {}
    /\ loops = [i \in Loops |-> IdleLoop]
    /\ requests = [c \in Callers |-> [step |-> "none"]]
    /\ currentCall = Nobody
    /\ immediates = <<>>
    /\ lastEmitted = [i \in Loops |-> 0]
    /\ heard = {}

-----------------------------------------------------------------------------
(* The getOperation callback of polling loop i, whose variables are `loop`, *)
(* applied to an answer.  `_unpackResponse` makes an error of an operation  *)
(* that ended in one, and a result of a response; an operation that ended   *)
(* with neither counts as complete.                                         *)
EventSwapped(i, name, what, metadata) ==   \* mutant: swapped arguments
    [loop |-> i, name |-> what, what |-> name, metadata |-> metadata]

EventNeverError(i, name, what, metadata) ==   \* mutant: every end is 'complete'
    [loop |-> i, name |-> IF name = "error" THEN "complete" ELSE name,
     what |-> what, metadata |-> metadata]

Event(i, name, what, metadata) ==
    [loop |-> i, name |-> name, what |-> what, metadata |-> metadata]

ProgressedAlways(loop, op) == op.metadata # 0   \* mutant: no comparison

(* There is metadata, and it is not that of the answer before.              *)
Progressed(loop, op) == op.metadata # 0 /\ op.metadata # loop.previousMetadata

HandleAnswer(i, loop, op) ==
    LET progressed == op.end \in {"running", "empty"} /\ Progressed(loop, op)
        progress == IF progressed THEN <<Event(i, "progress", op.end, op.metadata)>> ELSE <<>>
        seen     == [loop EXCEPT !.previousMetadata = IF progressed THEN op.metadata ELSE @]
    IN  \/ /\ op.end = "error"
           /\ loops' = [loops EXCEPT ![i] = Over(loop, "ended")]
           /\ immediates' = Append(immediates, Event(i, "error", "error", 0))
        \/ /\ op.end = "running"
           /\ loops' = [loops EXCEPT ![i] =
                           [seen EXCEPT !.step = "sleeping", !.wait = loop.delay]]
           /\ immediates' = immediates \o progress
        \/ /\ op.end \in {"response", "empty"}
           /\ loops' = [loops EXCEPT ![i] = Over(loop, "ended")]
           /\ immediates' = immediates \o progress
                            \o <<Event(i, "complete", op.end, 0)>>

(* getOperation() sends an RPC.                                             *)
Send(caller) ==
    /\ requests' = [requests EXCEPT ![caller] = [step |-> "sent"]]
    /\ currentCall' = caller

(* retry() in startPolling_, for loop i with variables `loop`.  A done      *)
(* operation is answered from the cache within the call.                    *)
Retry(i, loop, active) ==
    \/ /\ ~active
       /\ loops' = [loops EXCEPT ![i] = Over(loop, "stopped")]
       /\ UNCHANGED <<requests, currentCall, immediates>>
    \/ /\ active /\ TotalTimeout > 0 /\ loop.left = 0
       /\ loops' = [loops EXCEPT ![i] = Over(loop, "ended")]
       /\ immediates' = Append(immediates, Event(i, "error", "DEADLINE_EXCEEDED", 0))
       /\ UNCHANGED <<requests, currentCall>>
    \/ /\ active /\ (TotalTimeout > 0 => loop.left > 0)
       /\ \/ /\ Done(latestResponse)
             /\ HandleAnswer(i, loop, latestResponse)
             /\ UNCHANGED <<requests, currentCall>>
          \/ /\ ~Done(latestResponse)
             /\ loops' = [loops EXCEPT ![i] = [loop EXCEPT !.step = "polling"]]
             /\ Send(i)
             /\ UNCHANGED immediates

(* The 'newListener' handler: the first listener starts a polling loop.     *)
(* Every listener registers for 'error' too, as promise() does.             *)
Listen(u) ==
    /\ u \notin listening
    /\ listening' = listening \cup {u}
    /\ completeListeners' = completeListeners + 1
    /\ hasActiveListeners' = TRUE
    /\ \/ /\ hasActiveListeners
          /\ UNCHANGED <<polls, immediates>>
       \/ /\ ~hasActiveListeners
          /\ \E i \in Loops :
                /\ loops[i].step = "idle"
                /\ \A j \in 1 .. i - 1 : loops[j].step # "idle"
                /\ Retry(i, [step |-> "polling", delay |-> InitialDelay,
                             left |-> TotalTimeout, wait |-> 0,
                             previousMetadata |-> latestResponse.metadata], TRUE)
    /\ UNCHANGED <<server, latestResponse, lastEmitted, heard>>

UnlistenStopsAll(u) ==   \* mutant: any listener that leaves stops the polling
    /\ u \in listening
    /\ listening' = listening \ {u}
    /\ completeListeners' = completeListeners - 1
    /\ hasActiveListeners' = FALSE
    /\ UNCHANGED <<server, latestResponse, polls, events>>

UnlistenStopsNothing(u) ==   \* mutant: hasActiveListeners is not reset
    /\ u \in listening
    /\ listening' = listening \ {u}
    /\ completeListeners' = completeListeners - 1
    /\ UNCHANGED <<server, latestResponse, hasActiveListeners, polls, events>>

(* The 'removeListener' handler: without listeners the polling stops.  The  *)
(* user removes its handlers for both events.                               *)
Unlisten(u) ==
    /\ u \in listening
    /\ listening' = listening \ {u}
    /\ completeListeners' = completeListeners - 1
    /\ hasActiveListeners' = (hasActiveListeners /\ completeListeners # 1)
    /\ UNCHANGED <<server, latestResponse, polls, events>>

(* The timer of loop i fires.                                               *)
Wake(i) ==
    /\ loops[i].step = "sleeping"
    /\ loops[i].wait = 0
    /\ Retry(i, [loops[i] EXCEPT !.delay = Min({@ * DelayMultiplier, MaxDelay})],
             hasActiveListeners)
    /\ UNCHANGED <<server, latestResponse, listeners, lastEmitted, heard>>

(* A user calls getOperation() while its operation is not known to be done. *)
(* (A done one is returned from the cache and changes nothing.)             *)
GetOperation(g) ==
    /\ requests[g].step = "none"
    /\ ~Done(latestResponse)
    /\ Send(g)
    /\ UNCHANGED <<server, latestResponse, listeners, loops, events>>

(* Cancelling an RPC that is over or lost does nothing: the model forgets it. *)
Forget(c) == currentCall' = IF currentCall = c THEN Nobody ELSE currentCall

(* An answer arrives: it becomes the latest response, whichever of the RPCs *)
(* in flight it answers, and the caller is told.                            *)
Answered(c) ==
    /\ requests[c].step = "served"
    /\ latestResponse' = requests[c].answer
    /\ requests' = [requests EXCEPT ![c] = [step |-> "over"]]
    /\ \/ /\ c \in Loops
          /\ HandleAnswer(c, loops[c], requests[c].answer)
       \/ /\ c \in Getters
          /\ UNCHANGED <<loops, immediates>>
    /\ Forget(c)
    /\ UNCHANGED <<server, listeners, lastEmitted, heard>>

(* The RPC is rejected, because it failed for good or was cancelled.        *)
(* Nothing handles the rejection of a polling loop's RPC.                   *)
Rejected(c) ==
    /\ requests[c].step \in {"sent", "cancelled"}
    /\ requests' = [requests EXCEPT ![c] = [step |-> "over"]]
    /\ loops' = IF c \in Loops THEN [loops EXCEPT ![c] = Over(@, "lost")] ELSE loops
    /\ Forget(c)
    /\ UNCHANGED <<server, latestResponse, listeners, events>>

(* The RPC is never settled: over the fetch stub nothing reports a failure  *)
(* to make the headers or to fetch, nor what an abort does to them, and no  *)
(* deadline is kept.  A loop that polls goes on waiting.                    *)
RpcLost(c) ==
    /\ requests[c].step \in {"sent", "cancelled"}
    /\ requests' = [requests EXCEPT ![c] = [step |-> "lost"]]
    /\ Forget(c)
    /\ UNCHANGED <<server, latestResponse, listeners, loops, events>>

(* cancel(): cancels the RPC made last, whose answer may win the race, and  *)
(* asks the server to cancel the operation, which it does when it likes.    *)
Cancel ==
    /\ currentCall # Nobody
    /\ requests[currentCall].step # "cancelled"
    /\ requests' = [requests EXCEPT ![currentCall] = [step |-> "cancelled"]]
    /\ UNCHANGED <<server, latestResponse, listeners, loops, currentCall, events>>

(* setImmediate emits an event to the listeners of that moment.  (An error  *)
(* nobody listens for is thrown; what that does to the process is left out.) *)
Emit ==
    /\ immediates # <<>>
    /\ LET event == Head(immediates)
       IN /\ heard' = IF event.name = "progress" THEN heard ELSE heard \cup listening
          /\ lastEmitted' = [lastEmitted EXCEPT ![event.loop] = Rank(event)]
    /\ immediates' = Tail(immediates)
    /\ UNCHANGED <<server, latestResponse, listeners, polls>>

-----------------------------------------------------------------------------
(* The server (external).                                                   *)
ServerProgresses ==
    /\ ~Done(server)
    /\ server.metadata < MaxMetadata
    /\ server' = [server EXCEPT !.metadata = @ + 1]
    /\ UNCHANGED <<latestResponse, listeners, polls, events>>

ServerEnds(end) ==
    /\ ~Done(server)
    /\ server' = [server EXCEPT !.end = end]
    /\ UNCHANGED <<latestResponse, listeners, polls, events>>

ServerAnswers(c) ==
    /\ requests[c].step = "sent"
    /\ requests' = [requests EXCEPT ![c] = [step |-> "served", answer |-> server]]
    /\ UNCHANGED <<server, latestResponse, listeners, loops, currentCall, events>>

(* Time passes, but not past a timer that is due.                           *)
Live(loop) == loop.step \in {"polling", "sleeping"}

Tick ==
    /\ \A i \in Loops : loops[i].step = "sleeping" => loops[i].wait > 0
    /\ \E i \in Loops : Live(loops[i]) /\ loops[i].wait + loops[i].left > 0
    /\ loops' = [i \in Loops |->
                    IF ~Live(loops[i]) THEN loops[i]
                    ELSE [loops[i] EXCEPT !.wait = Max({@ - 1, 0}), !.left = Max({@ - 1, 0})]]
    /\ UNCHANGED <<server, latestResponse, listeners, requests, currentCall, events>>

Next ==
    \/ \E u \in Listeners : Listen(u) \/ Unlisten(u)
    \/ \E i \in Loops : Wake(i)
    \/ \E g \in Getters : GetOperation(g)
    \/ \E c \in Callers : ServerAnswers(c) \/ Answered(c) \/ Rejected(c) \/ RpcLost(c)
    \/ Cancel
    \/ Emit
    \/ ServerProgresses
    \/ \E end \in Ends : ServerEnds(end)
    \/ Tick

(* It turns out whether an RPC is settled or never will be, timers fire,    *)
(* the event loop emits, and the operation ends on the server.              *)
Fairness ==
    /\ \A c \in Callers : WF_vars(ServerAnswers(c) \/ Answered(c) \/ Rejected(c)
                                  \/ RpcLost(c))
    /\ \A i \in Loops : WF_vars(Wake(i))
    /\ WF_vars(Emit)
    /\ WF_vars(Tick)
    /\ WF_vars(\E end \in Ends : ServerEnds(end))

Spec == Init /\ [][Next]_vars

FairSpec == Spec /\ Fairness

-----------------------------------------------------------------------------
TypeOK ==
    /\ server \in Snapshots /\ latestResponse \in Snapshots
    /\ completeListeners \in Nat /\ hasActiveListeners \in BOOLEAN
    /\ listening \subseteq Listeners
    /\ loops \in [Loops -> Loop]
    /\ requests \in [Callers -> Requests]
    /\ currentCall \in Callers \cup {Nobody}
    /\ immediates \in Seq(Events) /\ lastEmitted \in [Loops -> 0 .. MaxMetadata + 1]
    /\ heard \subseteq Listeners

(* However many listeners come and go, in whatever order with the timers    *)
(* and answers of earlier loops, while somebody listens the loop started    *)
(* last has not given up for lack of listeners (longrunning.ts:106-123,     *)
(* 279-282).                                                                *)
LatestLoopServesListeners ==
    listening # {} =>
        \E i \in Loops :
            /\ loops[i].step \notin {"idle", "stopped"}
            /\ \A j \in Loops : j > i => loops[j].step = "idle"

(* A polling loop reports metadata that only moves forward, then one end,   *)
(* then nothing (longrunning.ts:292-331).                                   *)
LoopEventsInOrder ==
    \A n \in DOMAIN immediates :
        LET event == immediates[n] IN
        /\ lastEmitted[event.loop] < Rank(event)
        /\ \A m \in 1 .. n - 1 :
              immediates[m].loop = event.loop => Rank(immediates[m]) < Rank(event)

(* What users are told of the end is how the operation ended on the server, *)
(* or that the total timeout is over (longrunning.ts:203-235, 284-290).     *)
EndingsAreTrue ==
    \A event \in ToSet(immediates) :
        CASE event.name = "complete" -> server.end \in {"response", "empty"}
                                        /\ event.what = server.end
          [] event.name = "error"    -> \/ event.what = "error" /\ server.end = "error"
                                        \/ event.what = "DEADLINE_EXCEEDED"
                                           /\ TotalTimeout > 0
                                           /\ loops[event.loop].left = 0
          [] event.name = "progress" -> event.metadata =< server.metadata

(* Whoever listens while a loop is polling hears how the operation ends,    *)
(* unless it stops listening, or a poll is rejected (nothing handles that), *)
(* or a poll is never settled, as a stub over fetch allows                  *)
(* (longrunning.ts:246-350, fallbackServiceStub.ts:109-132).                *)
Lost == \E i \in Loops : loops[i].step = "lost" \/ requests[i].step = "lost"

ListenersHear ==
    \A u \in Listeners :
        u \in listening /\ (\E i \in Loops : Live(loops[i])) ~>
            u \in heard \/ u \notin listening \/ Lost

(* "When there are no more listeners, the polling stops"                    *)
(* (longrunning.ts:101-102): whatever listeners have come and gone since a  *)
(* loop was started, it sends no poll while nobody listens.                 *)
NoPollWithoutListeners ==
    [][\A i \in Loops : requests[i].step # "sent" /\ requests'[i].step = "sent"
                           => listening' # {}]_vars

=============================================================================
