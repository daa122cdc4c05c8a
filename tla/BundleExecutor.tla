--------------------------- MODULE BundleExecutor ---------------------------
(***************************************************************************)
(* Request bundling: src/src/bundlingCalls/bundleExecutor.ts and task.ts.  *)
(*                                                                         *)
(* Calls of one bundle id are collected in one pending Task.  The task is  *)
(* sent as ONE request when it reaches a threshold, when a new call would  *)
(* reach a limit, or when its delay timer fires, and the single response   *)
(* is split again among the callers.  Every method of the executor runs    *)
(* to completion in one turn of the event loop, so each is one action; the *)
(* interleaving is that of user calls, cancels, timers and API responses.  *)
(*                                                                         *)
(* `callback.id` is a counter that never repeats and each call is          *)
(* scheduled once, so a call is its own invocation id here.                *)
(***************************************************************************)
EXTENDS Naturals, Sequences, SequencesExt, FiniteSetsExt

CONSTANTS
    Calls,            \* the API calls users may make
    BundleIds,        \* the values of computeBundleId
    NoBundle,         \* `undefined`: the request lacks a discriminator field
    BundleOf,         \* the bundle id of each call's request
    Size,             \* the number of elements in each request's bundled field
    Bytes,            \* the sum of the byte lengths of these elements
    CountLimit,       \* options.elementCountLimit,     0: none
    ByteLimit,        \* options.requestByteLimit,      0: none
    CountThreshold,   \* options.elementCountThreshold, 0: none
    ByteThreshold,    \* options.requestByteThreshold,  0: none
    DelayThreshold,   \* options.delayThreshold,        0: no timer
    Demultiplex,      \* whether the descriptor names a subresponse field
    NoTask            \* no entry in `_tasks`

ASSUME IdsAssumption ==
    /\ NoBundle \notin BundleIds
    /\ BundleOf \in [Calls -> BundleIds \cup {NoBundle}]
    /\ NoTask \notin [base : Calls, data : Seq(Calls)]
ASSUME SizesAssumption ==
    /\ Size \in [Calls -> Nat]
    /\ Bytes \in [Calls -> Nat]
ASSUME OptionsAssumption ==
    /\ {CountLimit, ByteLimit, CountThreshold, ByteThreshold, DelayThreshold}
         \subseteq Nat
    /\ Demultiplex \in BOOLEAN

VARIABLES
    tasks,        \* `_tasks`: the pending task of each bundle id
    timers,       \* `_timers`: the bundle ids whose delay timer is armed
    invocations,  \* `_invocations`: the bundle id each invocation waits in
    inflight,     \* the tasks whose API call has been made and not answered
    scheduled,    \* the calls made so far
    outcomes,     \* the errors ("none" for success) each callback was called with
    received      \* the response each callback was last given

vars == <<tasks, timers, invocations, inflight, scheduled, outcomes, received>>
answers == <<outcomes, received>>

-----------------------------------------------------------------------------
(* Task.  `base` is the request object, and with it the apiCall, that the   *)
(* task was created with; `data` lists the calls in the order of extend().  *)

Task == [base : Calls, data : Seq(Calls)]

NewTaskForBundleId(c) == [base |-> BundleOf[c], data |-> <<>>]   \* mutant

NewTask(c) == [base |-> c, data |-> <<>>]

Extend(task, c) == [task EXCEPT !.data = Append(@, c)]

ElementCount(data) == MapThenSumSet(LAMBDA i : Size[data[i]], DOMAIN data)

RequestByteSize(data) == MapThenSumSet(LAMBDA i : Bytes[data[i]], DOMAIN data)

WithoutFirst(data, c) == IF data = <<>> THEN data ELSE Tail(data)   \* mutant

(* Task.cancel on a task that is not running: drop the entry, if any.       *)
Without(data, c) ==
    IF \E i \in DOMAIN data : data[i] = c
    THEN RemoveAt(data, CHOOSE i \in DOMAIN data : data[i] = c)
    ELSE data

(* The elements of one request, and those of the bundled request.           *)
Elements(c) == [i \in 1 .. Size[c] |-> <<c, i>>]

BundledElements(data) == FlattenSeq([k \in DOMAIN data |-> Elements(data[k])])

OffsetAfter(data, k) == ElementCount(SubSeq(data, 1, k))   \* mutant: one entry late

(* Where the elements of the k-th entry begin: `start` in the callback.     *)
Offset(data, k) == ElementCount(SubSeq(data, 1, k - 1))

(* Array.slice, which takes what there is.                                  *)
Slice(elements, start, end) ==
    SubSeq(elements, start + 1, Min({end, Len(elements)}))

(* The part of the response that the k-th entry is given.                   *)
SubResponse(data, k, response) ==
    IF Demultiplex
    THEN Slice(response, Offset(data, k), Offset(data, k) + Size[data[k]])
    ELSE response

-----------------------------------------------------------------------------
(* The callbacks of the calls in S are called with an error, or "none".     *)
Errors == {"INVALID_ARGUMENT", "CANCELLED", "API_ERROR"}

Tell(S, err) ==
    outcomes' = [c \in Calls |-> IF c \in S THEN Append(outcomes[c], err)
                                           ELSE outcomes[c]]

(* The conditions of schedule().                                            *)
ExceedsLimit(c) ==
    \/ CountLimit > 0 /\ Size[c] > CountLimit
    \/ ByteLimit > 0 /\ Bytes[c] >= ByteLimit

WouldExceedLimit(data, c) ==   \* mutant: > for >=
    \/ CountLimit > 0 /\ Size[c] + ElementCount(data) > CountLimit
    \/ ByteLimit > 0 /\ Bytes[c] + RequestByteSize(data) > ByteLimit

WouldReachLimit(data, c) ==
    \/ CountLimit > 0 /\ Size[c] + ElementCount(data) >= CountLimit
    \/ ByteLimit > 0 /\ Bytes[c] + RequestByteSize(data) >= ByteLimit

ReachesThreshold(data) ==
    \/ CountThreshold > 0 /\ ElementCount(data) >= CountThreshold
    \/ ByteThreshold > 0 /\ RequestByteSize(data) >= ByteThreshold

RunOne(sent) ==   \* mutant: one of the two tasks a call may send is forgotten
    LET full == {t \in sent : t.data # <<>>}
    IN  inflight' = IF full = {} THEN inflight
                    ELSE inflight \cup {CHOOSE t \in full : TRUE}

(* Task.run makes the API call, unless the task is empty.                   *)
Run(sent) == inflight' = inflight \cup {t \in sent : t.data # <<>>}

ForgetNothing(inv, sent) == inv   \* mutant: the entries of sent tasks stay

(* The invocations of sent tasks are forgotten.                             *)
Forget(inv, sent) ==
    [c \in Calls |-> IF \E t \in sent : c \in ToSet(t.data)
                     THEN NoBundle ELSE inv[c]]

-----------------------------------------------------------------------------
Init ==
    /\ tasks = [b \in BundleIds |-> NoTask]
    /\ timers = {}
    /\ invocations = [c \in Calls |-> NoBundle]
    /\ inflight = {}
    /\ scheduled = {}
    /\ outcomes = [c \in Calls |-> <<>>]
    /\ received = [c \in Calls |-> <<>>]

ScheduleAnyImmediately(c) ==   \* mutant: the missing field is not looked for
    /\ c \notin scheduled
    /\ scheduled' = scheduled \cup {c}
    /\ Run({Extend(NewTask(c), c)})
    /\ UNCHANGED <<tasks, timers, invocations, answers>>

(* A request without the discriminator field (or without the bundled field, *)
(* which takes the same path) is not bundled.                               *)
ScheduleImmediately(c) ==
    /\ c \notin scheduled
    /\ BundleOf[c] = NoBundle
    /\ scheduled' = scheduled \cup {c}
    /\ Run({Extend(NewTask(c), c)})
    /\ UNCHANGED <<tasks, timers, invocations, answers>>

(* A request over a limit is answered with an error at once, but only after *)
(* the task, possibly a fresh and empty one, and its invocation are stored. *)
ScheduleRejected(c) ==
    LET b == BundleOf[c] IN
    /\ c \notin scheduled
    /\ b # NoBundle
    /\ ExceedsLimit(c)
    /\ scheduled' = scheduled \cup {c}
    /\ tasks' = [tasks EXCEPT ![b] = IF @ = NoTask THEN NewTask(c) ELSE @]
    /\ invocations' = [invocations EXCEPT ![c] = b]
    /\ Tell({c}, "INVALID_ARGUMENT")
    /\ UNCHANGED <<timers, inflight, received>>

(* A request that fits: the pending task is sent first if the request would *)
(* bring it to a limit, and the extended task is sent if it reaches a       *)
(* threshold; otherwise its delay timer runs.                               *)
ScheduleBundled(c) ==
    LET b       == BundleOf[c]
        pending == IF tasks[b] = NoTask THEN NewTask(c) ELSE tasks[b]
        flush   == WouldReachLimit(pending.data, c)
        task    == Extend(IF flush THEN NewTask(c) ELSE pending, c)
        full    == ReachesThreshold(task.data)
        sent    == (IF flush THEN {pending} ELSE {})
                     \cup (IF full THEN {task} ELSE {})
        cleared == IF flush \/ full THEN timers \ {b} ELSE timers
    IN
    /\ c \notin scheduled
    /\ b # NoBundle
    /\ ~ExceedsLimit(c)
    /\ scheduled' = scheduled \cup {c}
    /\ tasks' = [tasks EXCEPT ![b] = IF full THEN NoTask ELSE task]
    /\ timers' = IF ~full /\ DelayThreshold > 0 THEN cleared \cup {b} ELSE cleared
    /\ invocations' = Forget([invocations EXCEPT ![c] = b], sent)
    /\ Run(sent)
    /\ UNCHANGED answers

TimeoutKeepsTimer(b) ==   \* mutant: the timer that fired stays in `_timers`
    /\ b \in timers
    /\ tasks[b] # NoTask
    /\ tasks' = [tasks EXCEPT ![b] = NoTask]
    /\ invocations' = Forget(invocations, {tasks[b]})
    /\ Run({tasks[b]})
    /\ UNCHANGED <<timers, scheduled, answers>>

(* _runNow: the pending task leaves, its timer is cleared, its call is made. *)
RunNow(b) ==
    /\ tasks[b] # NoTask
    /\ tasks' = [tasks EXCEPT ![b] = NoTask]
    /\ timers' = timers \ {b}
    /\ invocations' = Forget(invocations, {tasks[b]})
    /\ Run({tasks[b]})
    /\ UNCHANGED <<scheduled, answers>>

(* The delay timer of a bundle fires and runs the task.                     *)
Timeout(b) ==
    /\ b \in timers
    /\ \/ RunNow(b)
       \/ /\ tasks[b] = NoTask
          /\ timers' = timers \ {b}
          /\ UNCHANGED <<tasks, invocations, inflight, scheduled, answers>>

(* cancel() of the object that schedule() returned for an accepted call: it *)
(* acts only while the call waits in a pending task.  (The branch of        *)
(* Task.cancel for a running task is not reached from here: a task leaves   *)
(* `_tasks` in the same turn in which it is run.)                           *)
Cancel(c) ==
    LET b    == invocations[c]
        left == Without(tasks[b].data, c)
    IN
    /\ c \in scheduled
    /\ ~ExceedsLimit(c)          \* a rejected call was given a no-op cancel()
    /\ b # NoBundle
    /\ tasks[b] # NoTask
    /\ invocations' = [invocations EXCEPT ![c] = NoBundle]
    /\ Tell({c} \cap ToSet(tasks[b].data), "CANCELLED")
    /\ tasks' = [tasks EXCEPT ![b] = IF left = <<>> THEN NoTask
                                                    ELSE [@ EXCEPT !.data = left]]
    /\ timers' = IF left = <<>> THEN timers \ {b} ELSE timers
    /\ UNCHANGED <<inflight, scheduled, received>>

(* The API answers a bundled call.  The server (external) responds with one *)
(* element per element of the request, in order.                            *)
ApiResponds(task) ==
    /\ task \in inflight
    /\ inflight' = inflight \ {task}
    /\ Tell(ToSet(task.data), "none")
    /\ LET response == BundledElements(task.data)
           at(c)    == CHOOSE k \in DOMAIN task.data : task.data[k] = c
       IN  received' = [c \in Calls |->
                          IF c \in ToSet(task.data)
                          THEN SubResponse(task.data, at(c), response)
                          ELSE received[c]]
    /\ UNCHANGED <<tasks, timers, invocations, scheduled>>

ApiFails(task) ==
    /\ task \in inflight
    /\ inflight' = inflight \ {task}
    /\ Tell(ToSet(task.data), "API_ERROR")
    /\ UNCHANGED <<tasks, timers, invocations, scheduled, received>>

Schedule(c) ==
    ScheduleImmediately(c) \/ ScheduleRejected(c) \/ ScheduleBundled(c)

Next ==
    \/ \E c \in Calls : Schedule(c)
    \/ \E c \in Calls : Cancel(c)
    \/ \E b \in BundleIds : Timeout(b)
    \/ \E task \in inflight : ApiResponds(task) \/ ApiFails(task)

Spec == Init /\ [][Next]_vars

-----------------------------------------------------------------------------
(* Vocabulary of the properties.                                            *)
Pending(c)  == \E b \in BundleIds :
                  tasks[b] # NoTask /\ c \in ToSet(tasks[b].data)
Sent(c)     == \E task \in inflight : c \in ToSet(task.data)
Answered(c) == outcomes[c] # <<>>

TypeOK ==
    /\ tasks \in [BundleIds -> Task \cup {NoTask}]
    /\ timers \subseteq BundleIds
    /\ invocations \in [Calls -> BundleIds \cup {NoBundle}]
    /\ inflight \subseteq Task
    /\ scheduled \subseteq Calls
    /\ outcomes \in [Calls -> Seq(Errors \cup {"none"})]
    /\ DOMAIN received = Calls

(* Exactly one owner at any time: an accepted call waits in one pending     *)
(* task, or travels in one request, or has been answered, once.  It is      *)
(* never lost by a flush, a timer or a cancel, and never called back twice  *)
(* (bundleExecutor.ts:184-226, 250-285).                                    *)
OnePlace ==
    /\ \A c \in Calls :
          Len(outcomes[c]) = (IF c \in scheduled /\ ~Pending(c) /\ ~Sent(c)
                              THEN 1 ELSE 0)
    /\ \A c \in Calls : Pending(c) => c \in scheduled /\ ~Sent(c)
    /\ \A c \in Calls : Sent(c) => c \in scheduled
    /\ \A t, u \in inflight : t # u => ToSet(t.data) \cap ToSet(u.data) = {}

(* A caller is given the response elements of its own request, whatever the *)
(* order in which calls were bundled, cancelled and answered                *)
(* (task.ts:186-212).                                                       *)
OwnResponse ==
    Demultiplex =>
        \A c \in Calls :
            received[c] = IF outcomes[c] = <<"none">> THEN Elements(c) ELSE <<>>

(* What is sent as one bundle respects the hard limits, although rejected   *)
(* calls leave tasks behind and cancels shrink them                         *)
(* (bundleExecutor.ts:31-52, 156-200).                                      *)
WithinLimits ==
    \A t \in inflight : \/ BundleOf[t.base] = NoBundle
                        \/ /\ CountLimit > 0 => ElementCount(t.data) =< CountLimit
                           /\ ByteLimit > 0 => RequestByteSize(t.data) < ByteLimit

(* A delay timer is armed for exactly the bundles in which a call waits: a  *)
(* flush re-arms it, the cancel of the last waiting call disarms it, and a  *)
(* rejected call arms nothing (bundleExecutor.ts:219-242, 261-264).         *)
TimerWhileWaiting ==
    DelayThreshold > 0 =>
        \A b \in BundleIds :
            b \in timers <=> (tasks[b] # NoTask /\ tasks[b].data # <<>>)

(* `_invocations` names the task in which a call waits, so cancel() reaches *)
(* that call's own task and never the next one of the same bundle id.  Only *)
(* the entries of rejected calls stay behind (bundleExecutor.ts:144-145).   *)
InvocationsLead ==
    \A c \in Calls :
        /\ Pending(c) => /\ invocations[c] = BundleOf[c]
                         /\ c \in ToSet(tasks[invocations[c]].data)
        /\ invocations[c] # NoBundle =>
              Pending(c) \/ (ExceedsLimit(c) /\ Answered(c))

(* Calls of one bundle id leave in the order they came: once a call is sent *)
(* no call scheduled before it still waits in that bundle                   *)
(* (task.ts:223-229 and the flush in bundleExecutor.ts:188-200).  Stated on *)
(* steps: a step that sends a call leaves none of those that waited.        *)
NoOvertaking ==
    [][\A b \in BundleIds :
         (\E c \in Calls : BundleOf[c] = b /\ Sent(c)' /\ ~Sent(c)) =>
            ~\E d \in Calls : BundleOf[d] = b /\ Pending(d) /\ Pending(d)']_vars

-----------------------------------------------------------------------------
(* The executor implements what bundling promises its callers.              *)
CallPhase(c) == IF Answered(c) THEN "answered"
                ELSE IF Sent(c) THEN "sent"
                ELSE IF Pending(c) THEN "waiting" ELSE "idle"

Outcome(c) == IF Answered(c) THEN outcomes[c][1] ELSE "none"

Abstract == INSTANCE BundledCalls
                WITH phase   <- [c \in Calls |-> CallPhase(c)],
                     outcome <- [c \in Calls |-> Outcome(c)],
                     batches <- {ToSet(t.data) : t \in inflight}

(* Every step of the executor is a step of the abstract specification.      *)
ImplementsBundledCalls == Abstract!Spec

=============================================================================
