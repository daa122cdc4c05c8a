----------------------------- MODULE BundledCall -----------------------------
(***************************************************************************)
(* Bundled calls as their users see them: createApiCall                    *)
(* (src/src/createApiCall.ts) makes an OngoingCallPromise (call.ts) for    *)
(* each call, and once the stub is ready BundleApiCaller                   *)
(* (bundlingCalls/bundleApiCaller.ts) schedules it with the BundleExecutor *)
(* all calls of the method share.                                          *)
(*                                                                         *)
(* BundleApiCaller drops the canceller that schedule() returns and hands   *)
(* OngoingCall.call the OngoingCall itself, so the executor's Cancel is    *)
(* not an action of this system, and nothing reads `_invocations`.         *)
(*                                                                         *)
(* What the executor leaves to the stub can go wrong here: the stub may    *)
(* throw while it encodes a bundle, within Task.run, and a stub over fetch *)
(* may never call back.                                                    *)
(***************************************************************************)
EXTENDS BundleExecutor

CONSTANT Unencodable   \* the calls whose elements the stub cannot encode

Encodes(task) == ToSet(task.data) \cap Unencodable = {}

VARIABLES
    lost,       \* the tasks in flight that will never be answered
    crashed,    \* whether a throw that nothing catches has ended the process
    made,       \* the calls users have made, each of which holds a promise
    started,    \* the calls whose stub is ready: status.call() has run
    completed,  \* OngoingCall.completed
    cancelled,  \* history: the calls whose cancel() had an effect
    settled     \* how each promise is settled

promises == <<made, started, completed, cancelled, settled>>
stub == <<lost, crashed>>
allVars == <<vars, promises, stub>>

PInit ==
    /\ Init
    /\ lost = {} /\ crashed = FALSE
    /\ made = {}
    /\ started = {}
    /\ completed = {}
    /\ cancelled = {}
    /\ settled = [c \in Calls |-> "pending"]

(* The callback that OngoingCall.call gives to schedule(): it completes the *)
(* call, and the promise is settled in a later turn.                        *)
CompleteAnswered ==
    completed' = completed \cup {c \in Calls : outcomes'[c] # outcomes[c]}

(* The API method returns a promise at once.                                *)
Make(c) ==
    /\ c \notin made
    /\ made' = made \cup {c}
    /\ UNCHANGED <<vars, stub, started, completed, cancelled, settled>>

(* The tasks whose API call is made in this step and throws.                *)
Thrown == {task \in inflight' \ inflight : ~Encodes(task)}

(* The stub is ready: a call that was not cancelled is scheduled.           *)
StartCall(c) ==
    /\ c \in made \ started
    /\ started' = started \cup {c}
    /\ \/ /\ c \in completed
          /\ UNCHANGED <<vars, completed>>
       \/ /\ c \notin completed
          /\ Schedule(c)
          /\ Thrown = {}
          /\ CompleteAnswered
    /\ UNCHANGED <<stub, made, cancelled, settled>>

(* schedule() flushes the pending task before it adds c, and that throws:   *)
(* the rest of schedule() is not run.  (The invocations stay, which nothing *)
(* reads.)                                                                  *)
FlushThrows(c) ==
    LET b == BundleOf[c] IN
    /\ b # NoBundle /\ ~ExceedsLimit(c)
    /\ tasks[b] # NoTask
    /\ WouldReachLimit(tasks[b].data, c) /\ ~Encodes(tasks[b])
    /\ RunNow(b)

(* Scheduling c makes an API call that throws, be it for the elements of    *)
(* another: fail() rejects the promise of c, while the other calls of the   *)
(* task are not in `_tasks` any more and nobody calls them back.            *)
StartThrows(c) ==
    /\ c \in made \ (started \cup completed)
    /\ started' = started \cup {c}
    /\ \/ FlushThrows(c)
       \/ /\ Schedule(c)
          /\ Thrown # {}
          /\ \A task \in Thrown : c \in ToSet(task.data)
    /\ lost' = lost \cup Thrown
    /\ settled' = [settled EXCEPT ![c] = "THROWN"]
    /\ UNCHANGED <<crashed, made, completed, cancelled>>

(* The stub cannot be made: fail() rejects the promise, which has no effect *)
(* if it was rejected by a cancel.  The OngoingCall is not completed.       *)
StubFails(c) ==
    /\ c \in made \ started
    /\ started' = started \cup {c}
    /\ settled' = IF settled[c] # "pending" THEN settled
                   ELSE [settled EXCEPT ![c] = "STUB_FAILED"]
    /\ UNCHANGED <<vars, stub, made, completed, cancelled>>

CancelAlwaysRejects(c) ==   \* mutant: the promise of a scheduled call is rejected too
    /\ c \in made \ completed
    /\ completed' = completed \cup {c}
    /\ cancelled' = cancelled \cup {c}
    /\ settled' = [settled EXCEPT ![c] = IF @ = "pending" THEN "CANCELLED" ELSE @]
    /\ UNCHANGED <<vars, stub, made, started>>

(* promise.cancel().  Before the call is scheduled there is no cancelFunc   *)
(* and the promise is rejected; afterwards cancelFunc calls cancel() of the *)
(* same OngoingCall, which returns because it has just been completed.      *)
CancelPromise(c) ==
    /\ c \in made \ completed
    /\ completed' = completed \cup {c}
    /\ cancelled' = cancelled \cup {c}
    /\ settled' = IF c \in scheduled \/ settled[c] # "pending" THEN settled
                   ELSE [settled EXCEPT ![c] = "CANCELLED"]
    /\ UNCHANGED <<vars, stub, made, started>>

(* The executor's timers and the API's answers.                             *)
BundleProgress ==
    /\ \/ \E b \in BundleIds : /\ tasks[b] # NoTask => Encodes(tasks[b])
                               /\ Timeout(b)
       \/ \E task \in inflight \ lost : ApiResponds(task) \/ ApiFails(task)
    /\ CompleteAnswered
    /\ UNCHANGED <<stub, made, started, cancelled, settled>>

(* Nothing catches what is thrown in the timer of a bundle.                 *)
TimeoutThrows ==
    /\ \E b \in timers : tasks[b] # NoTask /\ ~Encodes(tasks[b])
    /\ crashed' = TRUE
    /\ UNCHANGED <<vars, promises, lost>>

(* Over fetch nothing reports that the headers or the fetch of a call       *)
(* failed, and no deadline is kept.                                         *)
BundleLost ==
    /\ \E task \in inflight \ lost : lost' = lost \cup {task}
    /\ UNCHANGED <<vars, promises, crashed>>

SettleUncancelled(c) ==   \* mutant: a cancelled promise is left alone
    /\ outcomes[c] # <<>> /\ settled[c] = "pending" /\ c \notin cancelled
    /\ settled' = [settled EXCEPT ![c] = outcomes[c][1]]
    /\ UNCHANGED <<vars, stub, made, started, completed, cancelled>>

(* setImmediate settles the promise with the first outcome of its callback. *)
Settle(c) ==
    /\ outcomes[c] # <<>>
    /\ settled[c] = "pending"
    /\ settled' = [settled EXCEPT ![c] = outcomes[c][1]]
    /\ UNCHANGED <<vars, stub, made, started, completed, cancelled>>

PNext ==
    /\ ~crashed
    /\ \/ \E c \in Calls : \/ Make(c) \/ StartCall(c) \/ StartThrows(c) \/ StubFails(c)
                          \/ CancelPromise(c) \/ Settle(c)
       \/ BundleProgress \/ TimeoutThrows \/ BundleLost

(* The promise of the stub settles, timers fire, sooner or later it is      *)
(* settled whether a bundle is answered, and the event loop runs what       *)
(* setImmediate was given; as long as the process lives.                    *)
PFairness ==
    /\ \A c \in Calls :
          /\ WF_allVars(~crashed /\ (StartCall(c) \/ StartThrows(c) \/ StubFails(c)))
          /\ WF_allVars(~crashed /\ Settle(c))
    /\ WF_allVars(~crashed /\ (BundleProgress \/ TimeoutThrows \/ BundleLost))

PSpec == PInit /\ [][PNext]_allVars /\ PFairness

-----------------------------------------------------------------------------
(* A call cancelled before its stub is ready never enters a bundle and its  *)
(* promise is rejected; every other promise is settled with what the        *)
(* executor answered, and only after it, or with what was thrown while it   *)
(* was scheduled (call.ts:54-66, 77-92, createApiCall.ts:113-120).          *)
PromisesFollowBundle ==
    \A c \in Calls :
        /\ settled[c] = "CANCELLED" => c \in cancelled
        /\ settled[c] \in {"CANCELLED", "STUB_FAILED"} => c \notin scheduled
        /\ c \in cancelled /\ c \notin scheduled => settled[c] # "pending"
        /\ settled[c] = "THROWN" => outcomes[c] = <<>> /\ ~Pending(c)
        /\ settled[c] \notin {"CANCELLED", "STUB_FAILED", "THROWN", "pending"} =>
              outcomes[c] = <<settled[c]>>

(* With a delay, every promise is settled, cancelled or not, whatever the   *)
(* other calls of its bundle do (createApiCall.ts:83-120).  Not so when the *)
(* stub over fetch loses the bundle of the call (fallbackServiceStub.ts:    *)
(* 109-132), when it cannot encode a bundle, which then reaches no promise  *)
(* but that of the call being scheduled, or when that is thrown in the      *)
(* bundle's timer and ends the process (fallbackServiceStub.ts:95).         *)
EveryPromiseSettles ==
    DelayThreshold > 0 =>
        \A c \in Calls :
            c \in made ~>
                \/ settled[c] # "pending"
                \/ \E task \in lost : c \in ToSet(task.data)
                \/ crashed

(* "If you need to be able to cancel the API call that is currently         *)
(* running, use the .cancel() method of the returned promise"               *)
(* (client-libraries.md:132): a call cancelled while it waits in its        *)
(* bundle is not sent.                                                      *)
CancelledCallIsNotSent ==
    [][\A c \in Calls : c \in cancelled /\ Pending(c) => ~Sent(c)']_allVars

=============================================================================
