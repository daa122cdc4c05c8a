--------------------------- MODULE Operation_proofs ---------------------------
(***************************************************************************)
(* Theorems about Operation, for any number of listeners, users and polling *)
(* loops, any backoff and any metadata.                                     *)
(***************************************************************************)
EXTENDS Operation, FiniteSetTheorems, TLAPS

-----------------------------------------------------------------------------
(* Numbers, sequences and the records of the model.                         *)

LEMMA MinOfTwo ==
    ASSUME NEW a \in Nat, NEW b \in Nat PROVE Min({a, b}) \in Nat
<1>1. \E x \in {a, b} : \A y \in {a, b} : x =< y
  OBVIOUS
<1> QED
  BY <1>1 DEF Min

LEMMA CountedDown ==
    ASSUME NEW n \in Nat
    PROVE  Max({n - 1, 0}) \in Nat /\ (n = 0 => Max({n - 1, 0}) = 0)
<1> DEFINE m == IF n = 0 THEN 0 ELSE n - 1
<1>1. m \in {n - 1, 0} /\ (\A y \in {n - 1, 0} : m >= y) /\ m \in Nat /\ (n = 0 => m = 0)
  OBVIOUS
<1>2. \A x \in {n - 1, 0} : (\A y \in {n - 1, 0} : x >= y) => x = m
  OBVIOUS
<1> HIDE DEF m
<1> QED
  BY <1>1, <1>2 DEF Max

LEMMA MembersOfConcat ==
    ASSUME NEW S, NEW s \in Seq(S), NEW t \in Seq(S)
    PROVE  s \o t \in Seq(S) /\ ToSet(s \o t) = ToSet(s) \cup ToSet(t)
<1>1. s \o t \in Seq(S) /\ Len(s \o t) = Len(s) + Len(t)
  OBVIOUS
<1>2. \A n \in DOMAIN (s \o t) : (s \o t)[n] \in ToSet(s) \cup ToSet(t)
  BY DEF ToSet
<1>3. \A n \in DOMAIN s : n \in DOMAIN (s \o t) /\ (s \o t)[n] = s[n]
  OBVIOUS
<1>4. \A n \in DOMAIN t : Len(s) + n \in DOMAIN (s \o t) /\ (s \o t)[Len(s) + n] = t[n]
  OBVIOUS
<1>5. ToSet(s \o t) \subseteq ToSet(s) \cup ToSet(t)
  BY <1>2 DEF ToSet
<1>6. ASSUME NEW e \in ToSet(s) PROVE e \in ToSet(s \o t)
  <2>1. PICK n \in DOMAIN s : e = s[n]
    BY <1>6 DEF ToSet
  <2>2. n \in DOMAIN (s \o t) /\ (s \o t)[n] = e
    BY <1>3, <2>1
  <2> QED
    BY <2>2 DEF ToSet
<1>7. ASSUME NEW e \in ToSet(t) PROVE e \in ToSet(s \o t)
  <2>1. PICK n \in DOMAIN t : e = t[n]
    BY <1>7 DEF ToSet
  <2>2. Len(s) + n \in DOMAIN (s \o t) /\ (s \o t)[Len(s) + n] = e
    BY <1>4, <2>1
  <2> QED
    BY <2>2 DEF ToSet
<1> QED
  BY <1>1, <1>5, <1>6, <1>7

LEMMA MembersOfOne ==
    ASSUME NEW S, NEW e \in S
    PROVE  <<e>> \in Seq(S) /\ ToSet(<<e>>) = {e}
  BY DEF ToSet

LEMMA MembersOfAppend ==
    ASSUME NEW S, NEW s \in Seq(S), NEW e \in S
    PROVE  Append(s, e) \in Seq(S) /\ ToSet(Append(s, e)) = ToSet(s) \cup {e}
<1>1. Append(s, e) = s \o <<e>>
  OBVIOUS
<1>2. <<e>> \in Seq(S) /\ ToSet(<<e>>) = {e}
  BY MembersOfOne
<1>3. s \o <<e>> \in Seq(S) /\ ToSet(s \o <<e>>) = ToSet(s) \cup ToSet(<<e>>)
  BY <1>2, MembersOfConcat
<1> QED
  BY <1>1, <1>2, <1>3

LEMMA MembersOfTail ==
    ASSUME NEW S, NEW s \in Seq(S), s # <<>>
    PROVE  Tail(s) \in Seq(S) /\ ToSet(Tail(s)) \subseteq ToSet(s) /\ Head(s) \in S
<1>1. \A n \in DOMAIN Tail(s) : n + 1 \in DOMAIN s /\ Tail(s)[n] = s[n + 1]
  OBVIOUS
<1> QED
  BY <1>1 DEF ToSet

LEMMA LoopsType == Loops \subseteq Nat /\ 0 \notin Loops /\ MaxMetadata \in Nat
  BY TimesAssumption DEF Loops

LoopSteps == {"idle", "polling", "sleeping", "ended", "stopped", "lost"}

LEMMA OverType ==
    ASSUME NEW loop \in Loop, NEW step \in LoopSteps
    PROVE  /\ Over(loop, step) \in Loop
           /\ Over(loop, step).step = step /\ Over(loop, step).left = loop.left
<1>1. IdleLoop \in Loop
  BY LoopsType DEF IdleLoop, Loop
<1> QED
  BY <1>1 DEF Over, Loop, LoopSteps

LEMMA EventType ==
    ASSUME NEW i \in Loops, NEW name \in {"complete", "error", "progress"},
           NEW what \in Ends \cup {"DEADLINE_EXCEEDED", "running"}, NEW metadata \in 0 .. MaxMetadata
    PROVE  /\ Event(i, name, what, metadata) \in Events
           /\ Event(i, name, what, metadata).loop = i
           /\ Event(i, name, what, metadata).name = name
           /\ Event(i, name, what, metadata).what = what
           /\ Event(i, name, what, metadata).metadata = metadata
  BY DEF Event, Events

-----------------------------------------------------------------------------
(* What an answer, and another round of a polling loop, change.             *)

(* Event e tells of operation op what is the case.                          *)
Tells(e, op) ==
    \/ e.name = "complete" /\ op.end \in {"response", "empty"} /\ e.what = op.end
    \/ e.name = "error" /\ e.what = "error" /\ op.end = "error"
    \/ e.name = "progress" /\ e.metadata = op.metadata

(* Every event of loop i that is added has `P`; nothing is lost.            *)
LEMMA HandleAnswerCases ==
    ASSUME TypeOK, NEW i \in Loops, NEW loop \in Loop, NEW op \in Snapshots,
           HandleAnswer(i, loop, op)
    PROVE  /\ loops' \in [Loops -> Loop]
           /\ \A j \in Loops \ {i} : loops'[j] = loops[j]
           /\ loops'[i].step \in {"ended", "sleeping"} /\ loops'[i].left = loop.left
           /\ immediates' \in Seq(Events)
           /\ \A e \in ToSet(immediates') :
                 e \in ToSet(immediates) \/ (e.loop = i /\ Tells(e, op))
<1> DEFINE progressed == op.end \in {"running", "empty"} /\ Progressed(loop, op)
           progress == IF progressed THEN <<Event(i, "progress", op.end, op.metadata)>> ELSE <<>>
           seen == [loop EXCEPT !.previousMetadata = IF progressed THEN op.metadata ELSE @]
<1>1. /\ loops \in [Loops -> Loop] /\ immediates \in Seq(Events)
      /\ op.metadata \in 0 .. MaxMetadata /\ op.end \in Ends \cup {"running"}
      /\ 0 \in 0 .. MaxMetadata
  BY LoopsType DEF TypeOK, Snapshots
<1>2. /\ progress \in Seq(Events)
      /\ \A e \in ToSet(progress) : e.loop = i /\ Tells(e, op)
  <2>1. CASE progressed
    <3> DEFINE e0 == Event(i, "progress", op.end, op.metadata)
    <3>1. e0 \in Events /\ e0.loop = i /\ e0.name = "progress" /\ e0.metadata = op.metadata
      <4>1. op.end \in Ends \cup {"DEADLINE_EXCEEDED", "running"}
        BY <1>1
      <4>2. op.metadata \in 0 .. MaxMetadata /\ "progress" \in {"complete", "error", "progress"}
        BY <1>1
      <4> QED
        BY ONLY <4>1, <4>2, EventType, i \in Loops
    <3>2. progress = <<e0>>
      BY <2>1
    <3> HIDE DEF e0
    <3> QED
      BY ONLY <3>1, <3>2, MembersOfOne DEF Tells
  <2>2. CASE ~progressed
    BY <2>2 DEF ToSet
  <2> QED
    BY <2>1, <2>2
<1>3. seen \in Loop /\ [seen EXCEPT !.step = "sleeping", !.wait = loop.delay] \in Loop
      /\ [seen EXCEPT !.step = "sleeping", !.wait = loop.delay].step = "sleeping"
      /\ [seen EXCEPT !.step = "sleeping", !.wait = loop.delay].left = loop.left
  BY <1>1 DEF Loop
<1>4. Over(loop, "ended") \in Loop /\ Over(loop, "ended").step = "ended"
      /\ Over(loop, "ended").left = loop.left
  BY OverType DEF LoopSteps
<1>5. CASE /\ op.end = "error"
           /\ loops' = [loops EXCEPT ![i] = Over(loop, "ended")]
           /\ immediates' = Append(immediates, Event(i, "error", "error", 0))
  <2> DEFINE e0 == Event(i, "error", "error", 0)
  <2>1. e0 \in Events /\ e0.loop = i /\ Tells(e0, op)
    BY <1>1, <1>5, EventType DEF Tells, Ends
  <2> HIDE DEF e0
  <2>2. immediates' \in Seq(Events) /\ ToSet(immediates') = ToSet(immediates) \cup {e0}
    BY <1>1, <1>5, <2>1, MembersOfAppend DEF e0
  <2> QED
    BY <1>1, <1>4, <1>5, <2>1, <2>2
<1>6. CASE /\ op.end = "running"
           /\ loops' = [loops EXCEPT ![i] = [seen EXCEPT !.step = "sleeping", !.wait = loop.delay]]
           /\ immediates' = immediates \o progress
  <2> HIDE DEF progress, seen
  <2>1. immediates' \in Seq(Events) /\ ToSet(immediates') = ToSet(immediates) \cup ToSet(progress)
    BY <1>1, <1>2, <1>6, MembersOfConcat
  <2> QED
    BY <1>1, <1>2, <1>3, <1>6, <2>1
<1>7. CASE /\ op.end \in {"response", "empty"}
           /\ loops' = [loops EXCEPT ![i] = Over(loop, "ended")]
           /\ immediates' = immediates \o progress \o <<Event(i, "complete", op.end, 0)>>
  <2> DEFINE e0 == Event(i, "complete", op.end, 0)
  <2>1. e0 \in Events /\ e0.loop = i /\ Tells(e0, op)
    BY <1>1, <1>7, EventType DEF Tells
  <2> HIDE DEF progress, e0
  <2>2. /\ immediates \o progress \in Seq(Events)
        /\ ToSet(immediates \o progress) = ToSet(immediates) \cup ToSet(progress)
    BY <1>1, <1>2, MembersOfConcat
  <2>3. <<e0>> \in Seq(Events) /\ ToSet(<<e0>>) = {e0}
    BY <2>1, MembersOfOne
  <2>4. immediates' = (immediates \o progress) \o <<e0>>
    BY <1>7 DEF e0
  <2>5. /\ immediates' \in Seq(Events)
        /\ ToSet(immediates') = ToSet(immediates) \cup ToSet(progress) \cup {e0}
    <3> DEFINE s == immediates \o progress
               t == <<e0>>
    <3>1. s \in Seq(Events) /\ t \in Seq(Events)
      BY <2>2, <2>3
    <3> HIDE DEF s, t
    <3>2. s \o t \in Seq(Events) /\ ToSet(s \o t) = ToSet(s) \cup ToSet(t)
      BY ONLY <3>1, MembersOfConcat
    <3> QED
      BY <2>2, <2>3, <2>4, <3>2 DEF s, t
  <2> QED
    BY <1>1, <1>2, <1>4, <1>7, <2>1, <2>5
<1> QED
  BY <1>5, <1>6, <1>7 DEF HandleAnswer

(* Event e says that the total timeout of loop i is over.                   *)
TellsTimeout(e) == e.name = "error" /\ e.what = "DEADLINE_EXCEEDED" /\ TotalTimeout > 0

LEMMA SendType ==
    ASSUME TypeOK, NEW c \in Callers, Send(c)
    PROVE  requests' \in [Callers -> Requests] /\ currentCall' \in Callers \cup {Nobody}
<1>1. [step |-> "sent"] \in Requests
  BY DEF Requests
<1> QED
  BY <1>1 DEF Send, TypeOK

LEMMA RetryCases ==
    ASSUME TypeOK, NEW i \in Loops, NEW loop \in Loop, NEW active \in BOOLEAN,
           Retry(i, loop, active)
    PROVE  /\ loops' \in [Loops -> Loop]
           /\ \A j \in Loops \ {i} : loops'[j] = loops[j]
           /\ loops'[i].step # "idle" /\ (active => loops'[i].step # "stopped")
           /\ loops'[i].left = loop.left
           /\ immediates' \in Seq(Events)
           /\ \A e \in ToSet(immediates') :
                 \/ e \in ToSet(immediates)
                 \/ /\ e.loop = i
                    /\ \/ Done(latestResponse) /\ Tells(e, latestResponse)
                       \/ TellsTimeout(e) /\ loop.left = 0
           /\ \/ UNCHANGED <<requests, currentCall>>
              \/ active /\ Send(i)
           /\ requests' \in [Callers -> Requests] /\ currentCall' \in Callers \cup {Nobody}
<1>1. loops \in [Loops -> Loop] /\ immediates \in Seq(Events) /\ latestResponse \in Snapshots
      /\ requests \in [Callers -> Requests] /\ currentCall \in Callers \cup {Nobody}
  BY DEF TypeOK
<1>2. \A step \in {"stopped", "ended"} :
         /\ Over(loop, step) \in Loop
         /\ Over(loop, step).step = step /\ Over(loop, step).left = loop.left
  BY OverType DEF LoopSteps
<1>3. CASE /\ ~active
           /\ loops' = [loops EXCEPT ![i] = Over(loop, "stopped")]
           /\ UNCHANGED <<requests, currentCall, immediates>>
  BY <1>1, <1>2, <1>3
<1>4. CASE /\ active /\ TotalTimeout > 0 /\ loop.left = 0
           /\ loops' = [loops EXCEPT ![i] = Over(loop, "ended")]
           /\ immediates' = Append(immediates, Event(i, "error", "DEADLINE_EXCEEDED", 0))
           /\ UNCHANGED <<requests, currentCall>>
  <2> DEFINE e0 == Event(i, "error", "DEADLINE_EXCEEDED", 0)
  <2>1. e0 \in Events /\ e0.loop = i /\ TellsTimeout(e0)
    <3>1. 0 \in 0 .. MaxMetadata
      BY LoopsType
    <3> QED
      BY <1>4, <3>1, EventType DEF TellsTimeout
  <2> HIDE DEF e0
  <2>2. immediates' \in Seq(Events) /\ ToSet(immediates') = ToSet(immediates) \cup {e0}
    BY <1>1, <1>4, <2>1, MembersOfAppend DEF e0
  <2> QED
    BY <1>1, <1>2, <1>4, <2>1, <2>2
<1>5. CASE Done(latestResponse) /\ HandleAnswer(i, loop, latestResponse)
           /\ UNCHANGED <<requests, currentCall>>
  BY <1>1, <1>5, HandleAnswerCases
<1>6. CASE /\ active
           /\ loops' = [loops EXCEPT ![i] = [loop EXCEPT !.step = "polling"]]
           /\ Send(i)
           /\ UNCHANGED immediates
  <2>1. /\ [loop EXCEPT !.step = "polling"] \in Loop
        /\ [loop EXCEPT !.step = "polling"].step = "polling"
        /\ [loop EXCEPT !.step = "polling"].left = loop.left
    BY DEF Loop
  <2>2. i \in Callers
    BY DEF Callers
  <2> QED
    BY <1>1, <1>6, <2>1, <2>2, SendType
<1> QED
  BY <1>3, <1>4, <1>5, <1>6 DEF Retry

-----------------------------------------------------------------------------
(* Types.                                                                   *)

LEMMA TypeInit == Init => TypeOK
<1> SUFFICES ASSUME Init PROVE TypeOK
  OBVIOUS
<1>1. IdleLoop \in Loop /\ 0 \in 0 .. MaxMetadata /\ 0 \in 0 .. MaxMetadata + 1
  BY LoopsType DEF IdleLoop, Loop
<1>2. server \in Snapshots /\ latestResponse \in Snapshots
  BY <1>1 DEF Init, Snapshots
<1>3. loops \in [Loops -> Loop]
  BY <1>1 DEF Init
<1>4. requests \in [Callers -> Requests]
  <2>1. [step |-> "none"] \in Requests
    BY DEF Requests
  <2> QED
    BY <2>1 DEF Init
<1>5. lastEmitted \in [Loops -> 0 .. MaxMetadata + 1]
  BY <1>1 DEF Init
<1>6. completeListeners \in Nat /\ currentCall \in Callers \cup {Nobody}
  BY DEF Init
<1>7. hasActiveListeners \in BOOLEAN
  BY DEF Init
<1>8. immediates \in Seq(Events)
  BY DEF Init
<1>9. listening \subseteq Listeners /\ heard \subseteq Listeners
  BY DEF Init
<1> QED
  BY <1>2, <1>3, <1>4, <1>5, <1>6, <1>7, <1>8, <1>9 DEF TypeOK

LEMMA WokenType ==
    ASSUME TypeOK, NEW i \in Loops
    PROVE  LET woken == [loops[i] EXCEPT !.delay = Min({@ * DelayMultiplier, MaxDelay})]
           IN  woken \in Loop /\ woken.left = loops[i].left
<1>1. loops[i] \in Loop
  BY DEF TypeOK
<1>2. loops[i].delay * DelayMultiplier \in Nat /\ MaxDelay \in Nat
  BY <1>1, TimesAssumption DEF Loop
<1>3. Min({loops[i].delay * DelayMultiplier, MaxDelay}) \in Nat
  BY <1>2, MinOfTwo
<1> QED
  BY <1>1, <1>3 DEF Loop

LEMMA StartedType ==
    ASSUME TypeOK
    PROVE  LET started == [step |-> "polling", delay |-> InitialDelay, left |-> TotalTimeout,
                           wait |-> 0, previousMetadata |-> latestResponse.metadata]
           IN  started \in Loop
  BY TimesAssumption DEF TypeOK, Snapshots, Loop

(* What the steps do to loops, requests and events.  No loop becomes idle,  *)
(* and none that has no time left gets any.                                 *)
Polled(i, active) ==
    /\ loops' \in [Loops -> Loop]
    /\ \A j \in Loops \ {i} : loops'[j] = loops[j]
    /\ loops'[i].step # "idle" /\ (active => loops'[i].step # "stopped")
    /\ immediates' \in Seq(Events)
    /\ \A e \in ToSet(immediates') :
          \/ e \in ToSet(immediates)
          \/ /\ e.loop = i
             /\ \/ Done(latestResponse) /\ Tells(e, latestResponse)
                \/ TellsTimeout(e) /\ loops'[i].left = 0
    /\ \/ UNCHANGED <<requests, currentCall>>
       \/ active /\ Send(i)
    /\ requests' \in [Callers -> Requests] /\ currentCall' \in Callers \cup {Nobody}
    /\ UNCHANGED <<server, latestResponse, lastEmitted, heard>>

LEMMA ListenPolls ==
    ASSUME TypeOK, NEW u \in Listeners, Listen(u)
    PROVE  \/ hasActiveListeners /\ UNCHANGED <<server, latestResponse, polls, events>>
           \/ /\ ~hasActiveListeners
              /\ \E i \in Loops :
                    /\ loops[i].step = "idle"
                    /\ \A j \in 1 .. i - 1 : loops[j].step # "idle"
                    /\ Polled(i, TRUE)
<1>1. CASE hasActiveListeners
  BY <1>1 DEF Listen, events, polls
<1>2. CASE ~hasActiveListeners
  <2> DEFINE started == [step |-> "polling", delay |-> InitialDelay, left |-> TotalTimeout,
                         wait |-> 0, previousMetadata |-> latestResponse.metadata]
  <2>1. started \in Loop
    BY StartedType
  <2>2. PICK i \in Loops :
          /\ loops[i].step = "idle"
          /\ \A j \in 1 .. i - 1 : loops[j].step # "idle"
          /\ Retry(i, started, TRUE)
    BY <1>2 DEF Listen
  <2> HIDE DEF started
  <2>3. UNCHANGED <<server, latestResponse, lastEmitted, heard>>
    BY DEF Listen
  <2>4. Polled(i, TRUE)
    BY <2>1, <2>2, <2>3, RetryCases DEF Polled
  <2> QED
    BY <1>2, <2>2, <2>4
<1> QED
  BY <1>1, <1>2

LEMMA WakePolls ==
    ASSUME TypeOK, NEW i \in Loops, Wake(i)
    PROVE  /\ Polled(i, hasActiveListeners)
           /\ loops'[i].left = loops[i].left
           /\ loops[i].step = "sleeping" /\ UNCHANGED listeners
<1> DEFINE woken == [loops[i] EXCEPT !.delay = Min({@ * DelayMultiplier, MaxDelay})]
<1>1. woken \in Loop /\ woken.left = loops[i].left
  BY WokenType
<1>2. /\ Retry(i, woken, hasActiveListeners)
      /\ loops[i].step = "sleeping" /\ UNCHANGED listeners
      /\ UNCHANGED <<server, latestResponse, lastEmitted, heard>>
  BY DEF Wake
<1>3. hasActiveListeners \in BOOLEAN
  BY DEF TypeOK
<1> HIDE DEF woken
<1> QED
  BY <1>1, <1>2, <1>3, RetryCases DEF Polled

LEMMA ForgetType == TypeOK /\ (\E c \in Callers : Forget(c)) => currentCall' \in Callers \cup {Nobody}
  BY DEF TypeOK, Forget

(* An answer arrives.                                                       *)
LEMMA AnsweredCases ==
    ASSUME TypeOK, NEW c \in Callers, Answered(c)
    PROVE  /\ latestResponse' = requests[c].answer /\ latestResponse' \in Snapshots
           /\ requests' = [requests EXCEPT ![c] = [step |-> "over"]]
           /\ requests' \in [Callers -> Requests] /\ currentCall' \in Callers \cup {Nobody}
           /\ UNCHANGED <<server, listeners, lastEmitted, heard>>
           /\ requests[c].step = "served"
           /\ loops' \in [Loops -> Loop]
           /\ \A j \in Loops : j # c => loops'[j] = loops[j]
           /\ c \in Loops => /\ loops'[c].step \in {"ended", "sleeping"}
                             /\ loops'[c].left = loops[c].left
           /\ immediates' \in Seq(Events)
           /\ \A e \in ToSet(immediates') :
                 \/ e \in ToSet(immediates)
                 \/ e.loop = c /\ c \in Loops /\ Tells(e, latestResponse')
<1>1. /\ requests[c] \in Requests /\ requests[c].step = "served"
      /\ loops \in [Loops -> Loop] /\ immediates \in Seq(Events)
      /\ latestResponse' = requests[c].answer
      /\ requests' = [requests EXCEPT ![c] = [step |-> "over"]]
      /\ UNCHANGED <<server, listeners, lastEmitted, heard>>
  BY DEF TypeOK, Answered
<1>2. requests[c].answer \in Snapshots
  BY <1>1 DEF Requests
<1>3. requests' \in [Callers -> Requests]
  <2>1. [step |-> "over"] \in Requests
    BY DEF Requests
  <2> QED
    BY <1>1, <2>1 DEF TypeOK
<1>4. currentCall' \in Callers \cup {Nobody}
  BY ForgetType DEF Answered
<1>5. CASE c \in Loops /\ HandleAnswer(c, loops[c], requests[c].answer)
  <2>1. loops[c] \in Loop
    BY <1>1, <1>5
  <2>2. /\ loops' \in [Loops -> Loop]
        /\ \A j \in Loops \ {c} : loops'[j] = loops[j]
        /\ loops'[c].step \in {"ended", "sleeping"} /\ loops'[c].left = loops[c].left
        /\ immediates' \in Seq(Events)
        /\ \A e \in ToSet(immediates') :
              e \in ToSet(immediates) \/ (e.loop = c /\ Tells(e, requests[c].answer))
    BY <1>2, <1>5, <2>1, HandleAnswerCases
  <2> QED
    BY <1>1, <1>2, <1>3, <1>4, <1>5, <2>2
<1>6. CASE c \in Getters /\ UNCHANGED <<loops, immediates>>
  <2>1. c \notin Loops
    BY <1>6, CallersAssumption
  <2> QED
    BY <1>1, <1>2, <1>3, <1>4, <1>6, <2>1
<1> QED
  BY <1>5, <1>6 DEF Answered

LEMMA RejectedCases ==
    ASSUME TypeOK, NEW c \in Callers, Rejected(c)
    PROVE  /\ requests' = [requests EXCEPT ![c] = [step |-> "over"]]
           /\ requests' \in [Callers -> Requests] /\ currentCall' \in Callers \cup {Nobody}
           /\ UNCHANGED <<server, latestResponse, listeners, events>>
           /\ requests[c].step \in {"sent", "cancelled"}
           /\ loops' \in [Loops -> Loop]
           /\ \A j \in Loops : j # c => loops'[j] = loops[j]
           /\ c \in Loops => loops'[c].step = "lost" /\ loops'[c].left = loops[c].left
<1>1. /\ loops \in [Loops -> Loop] /\ requests \in [Callers -> Requests]
      /\ [step |-> "over"] \in Requests
  BY DEF TypeOK, Requests
<1>2. currentCall' \in Callers \cup {Nobody}
  BY ForgetType DEF Rejected
<1>3. c \in Loops => /\ Over(loops[c], "lost") \in Loop /\ Over(loops[c], "lost").step = "lost"
                     /\ Over(loops[c], "lost").left = loops[c].left
  BY <1>1, OverType DEF LoopSteps
<1> QED
  BY <1>1, <1>2, <1>3 DEF Rejected

(* An RPC is lost.                                                          *)
LEMMA LostCases ==
    ASSUME TypeOK, NEW c \in Callers, RpcLost(c)
    PROVE  /\ requests' = [requests EXCEPT ![c] = [step |-> "lost"]]
           /\ requests' \in [Callers -> Requests] /\ currentCall' \in Callers \cup {Nobody}
           /\ UNCHANGED <<server, latestResponse, listeners, loops, events>>
           /\ requests[c].step \in {"sent", "cancelled"}
<1>1. requests \in [Callers -> Requests] /\ [step |-> "lost"] \in Requests
  BY DEF TypeOK, Requests
<1>2. currentCall' \in Callers \cup {Nobody}
  BY ForgetType DEF RpcLost
<1> QED
  BY <1>1, <1>2 DEF RpcLost

(* Time passes.                                                             *)
LEMMA TickCases ==
    ASSUME TypeOK, Tick
    PROVE  /\ loops' \in [Loops -> Loop]
           /\ \A j \in Loops : /\ loops'[j].step = loops[j].step
                               /\ loops[j].left = 0 => loops'[j].left = 0
           /\ UNCHANGED <<server, latestResponse, listeners, requests, currentCall, events>>
<1> DEFINE later(l) == [l EXCEPT !.wait = Max({@ - 1, 0}), !.left = Max({@ - 1, 0})]
<1>1. ASSUME NEW l \in Loop
      PROVE  later(l) \in Loop /\ later(l).step = l.step /\ (l.left = 0 => later(l).left = 0)
  <2>1. l.wait \in Nat /\ l.left \in Nat
    BY DEF Loop
  <2>2. Max({l.wait - 1, 0}) \in Nat /\ Max({l.left - 1, 0}) \in Nat
        /\ (l.left = 0 => Max({l.left - 1, 0}) = 0)
    BY <2>1, CountedDown
  <2> QED
    BY <2>2 DEF Loop
<1> HIDE DEF later
<1>2. loops' = [j \in Loops |-> IF ~Live(loops[j]) THEN loops[j] ELSE later(loops[j])]
  BY DEF Tick, later
<1>3. \A j \in Loops : loops[j] \in Loop
  BY DEF TypeOK
<1>4. UNCHANGED <<server, latestResponse, listeners, requests, currentCall, events>>
  BY DEF Tick
<1> QED
  BY <1>1, <1>2, <1>3, <1>4

LEMMA TypeStep == TypeOK /\ completeListeners' \in Nat /\ [Next]_vars => TypeOK'
<1> SUFFICES ASSUME TypeOK, completeListeners' \in Nat, [Next]_vars PROVE TypeOK'
  OBVIOUS
<1>1. ASSUME NEW u \in Listeners, Listen(u) PROVE TypeOK'
  <2>1. listening' \subseteq Listeners /\ hasActiveListeners' \in BOOLEAN
    BY <1>1 DEF Listen, TypeOK
  <2>2. CASE UNCHANGED <<server, latestResponse, polls, events>>
    BY <2>1, <2>2 DEF TypeOK, polls, events
  <2>3. CASE \E i \in Loops : Polled(i, TRUE)
    BY <2>1, <2>3 DEF TypeOK, Polled
  <2> QED
    BY <1>1, <2>2, <2>3, ListenPolls
<1>2. ASSUME NEW u \in Listeners, Unlisten(u) PROVE TypeOK'
  BY <1>2 DEF Unlisten, TypeOK, polls, events
<1>3. ASSUME NEW i \in Loops, Wake(i) PROVE TypeOK'
  BY <1>3, WakePolls DEF TypeOK, Polled, listeners
<1>4. ASSUME NEW g \in Getters, GetOperation(g) PROVE TypeOK'
  <2>1. g \in Callers
    BY DEF Callers
  <2> QED
    BY <1>4, <2>1, SendType DEF GetOperation, TypeOK, listeners, events
<1>5. ASSUME NEW c \in Callers, ServerAnswers(c) PROVE TypeOK'
  <2>1. [step |-> "served", answer |-> server] \in Requests
    BY DEF TypeOK, Requests
  <2> QED
    BY <1>5, <2>1 DEF ServerAnswers, TypeOK, listeners, events
<1>6. ASSUME NEW c \in Callers, Answered(c) PROVE TypeOK'
  BY <1>6, AnsweredCases DEF TypeOK, listeners
<1>7. ASSUME NEW c \in Callers, Rejected(c) PROVE TypeOK'
  BY <1>7, RejectedCases DEF TypeOK, listeners, events
<1>8. CASE Cancel
  <2>1. [step |-> "cancelled"] \in Requests
    BY DEF Requests
  <2> QED
    BY <1>8, <2>1 DEF Cancel, TypeOK, listeners, events
<1>9. CASE Emit
  <2>1. Head(immediates) \in Events /\ Tail(immediates) \in Seq(Events)
    BY <1>9, MembersOfTail DEF Emit, TypeOK
  <2>2. Rank(Head(immediates)) \in 0 .. MaxMetadata + 1
    BY <2>1, LoopsType DEF Events, Rank
  <2> QED
    BY <1>9, <2>1, <2>2 DEF Emit, TypeOK, listeners, polls
<1>10. CASE ServerProgresses
  <2>1. server \in Snapshots /\ server.metadata < MaxMetadata
    BY <1>10 DEF ServerProgresses, TypeOK
  <2>2. [server EXCEPT !.metadata = @ + 1] \in Snapshots
    BY <2>1, LoopsType DEF Snapshots
  <2> QED
    BY <1>10, <2>2 DEF ServerProgresses, TypeOK, listeners, polls, events
<1>11. ASSUME NEW end \in Ends, ServerEnds(end) PROVE TypeOK'
  <2>1. [server EXCEPT !.end = end] \in Snapshots
    BY DEF TypeOK, Snapshots
  <2> QED
    BY <1>11, <2>1 DEF ServerEnds, TypeOK, listeners, polls, events
<1>12. CASE Tick
  BY <1>12, TickCases DEF TypeOK, listeners, events
<1>13. CASE UNCHANGED vars
  BY <1>13 DEF vars, TypeOK, listeners, polls, events
<1>14. ASSUME NEW c \in Callers, RpcLost(c) PROVE TypeOK'
  BY <1>14, LostCases DEF TypeOK, listeners, events
<1> QED
  BY <1>1, <1>2, <1>3, <1>4, <1>5, <1>6, <1>7, <1>8, <1>9, <1>10, <1>11, <1>12, <1>13, <1>14 DEF Next

-----------------------------------------------------------------------------
(* Listeners.  The count of listeners is that of those who listen, and the  *)
(* flag says whether there are any, however often they come and go.         *)
Counted ==
    /\ IsFiniteSet(listening) /\ completeListeners = Cardinality(listening)
    /\ hasActiveListeners <=> listening # {}

LEMMA CountedInit == Init => Counted
  BY FS_EmptySet DEF Init, Counted

LEMMA CountedStep ==
    TypeOK /\ Counted /\ [Next]_vars => Counted' /\ completeListeners' \in Nat
<1> SUFFICES ASSUME TypeOK, Counted, [Next]_vars
             PROVE  Counted' /\ completeListeners' \in Nat
  OBVIOUS
<1>1. ASSUME NEW u \in Listeners, Listen(u) PROVE Counted'
  <2>1. /\ IsFiniteSet(listening \cup {u})
        /\ Cardinality(listening \cup {u}) = Cardinality(listening) + 1
    BY <1>1, FS_AddElement DEF Listen, Counted
  <2> QED
    BY <1>1, <2>1 DEF Listen, Counted
<1>2. ASSUME NEW u \in Listeners, Unlisten(u) PROVE Counted'
  <2>1. /\ IsFiniteSet(listening \ {u})
        /\ Cardinality(listening \ {u}) = Cardinality(listening) - 1
    BY <1>2, FS_RemoveElement DEF Unlisten, Counted
  <2>2. completeListeners \in Nat /\ completeListeners' = completeListeners - 1
        /\ listening' = listening \ {u} /\ u \in listening
        /\ hasActiveListeners' = (hasActiveListeners /\ completeListeners # 1)
    BY <1>2 DEF Unlisten, TypeOK
  <2>3. IsFiniteSet(listening') /\ completeListeners' = Cardinality(listening')
    BY <2>1, <2>2 DEF Counted
  <2>4. Cardinality(listening') = 0 <=> listening' = {}
    BY <2>3, FS_EmptySet
  <2>5. hasActiveListeners' <=> completeListeners # 1
    BY <2>2 DEF Counted
  <2>6. completeListeners # 1 <=> completeListeners' # 0
    BY <2>2
  <2> QED
    BY <2>3, <2>4, <2>5, <2>6 DEF Counted
<1>3. ASSUME UNCHANGED listeners PROVE Counted'
  BY <1>3 DEF listeners, Counted
<1>4. Counted'
  <2>1. ASSUME NEW i \in Loops, Wake(i) PROVE UNCHANGED listeners
    BY <2>1 DEF Wake
  <2>2. ASSUME NEW g \in Getters, GetOperation(g) PROVE UNCHANGED listeners
    BY <2>2 DEF GetOperation
  <2>3. ASSUME NEW c \in Callers, ServerAnswers(c) \/ Answered(c) \/ Rejected(c) \/ RpcLost(c)
        PROVE  UNCHANGED listeners
    BY <2>3 DEF ServerAnswers, Answered, Rejected, RpcLost
  <2>4. Cancel \/ Emit \/ ServerProgresses \/ Tick \/ UNCHANGED vars => UNCHANGED listeners
    BY DEF Cancel, Emit, ServerProgresses, Tick, vars
  <2>5. ASSUME NEW end \in Ends, ServerEnds(end) PROVE UNCHANGED listeners
    BY <2>5 DEF ServerEnds
  <2> QED
    BY <1>1, <1>2, <1>3, <2>1, <2>2, <2>3, <2>4, <2>5 DEF Next
<1>5. completeListeners' \in Nat
  BY <1>4, FS_CardinalityType DEF Counted
<1> QED
  BY <1>4, <1>5

LEMMA Invariant == Spec => [](TypeOK /\ Counted)
<1>1. TypeOK /\ Counted /\ [Next]_vars => TypeOK' /\ Counted'
  BY CountedStep, TypeStep
<1> QED
  BY <1>1, TypeInit, CountedInit, PTL DEF Spec

(* Every variable keeps its type.                                           *)
THEOREM TypeCorrect == Spec => []TypeOK
  BY Invariant, PTL

-----------------------------------------------------------------------------
(* Polling.  Loops are started in order, and an RPC belongs to a loop that  *)
(* has been started.                                                        *)
Started ==
    /\ \A i \in Loops : requests[i].step # "none" => loops[i].step # "idle"
    /\ \A i, j \in Loops : i < j /\ loops[i].step = "idle" => loops[j].step = "idle"

LEMMA StartedInit == Init => Started
  BY DEF Init, Started, IdleLoop, Callers

(* A step that starts no loop and gives up none.                            *)
LEMMA Kept ==
    ASSUME Started, LatestLoopServesListeners,
           \A j \in Loops : (loops'[j].step = "idle" <=> loops[j].step = "idle"),
           \A j \in Loops : requests'[j].step # "none" => loops[j].step # "idle",
           \A j \in Loops : listening' # {} /\ loops'[j].step = "stopped" => loops[j].step = "stopped",
           listening' # {} => listening # {}
    PROVE  Started' /\ LatestLoopServesListeners'
  BY DEF Started, LatestLoopServesListeners

LEMMA SentBy ==
    ASSUME TypeOK, NEW c \in Callers, Send(c)
    PROVE  \A d \in Callers \ {c} : requests'[d] = requests[d]
  BY DEF TypeOK, Send

LEMMA PolledStarts ==
    ASSUME TypeOK, Started, NEW i \in Loops, NEW active \in BOOLEAN, Polled(i, active),
           \A j \in 1 .. i - 1 : loops[j].step # "idle"
    PROVE  Started'
<1>1. ASSUME NEW j \in Loops PROVE j # i => requests'[j] = requests[j] /\ loops'[j] = loops[j]
  BY SentBy DEF Polled, Callers
<1>2. loops'[i].step # "idle"
  BY DEF Polled
<1>3. \A j \in Loops : requests'[j].step # "none" => loops'[j].step # "idle"
  BY <1>1, <1>2 DEF Started
<1>4. ASSUME NEW j \in Loops, NEW k \in Loops, j < k, loops'[j].step = "idle"
      PROVE  loops'[k].step = "idle"
  <2>1. j # i /\ loops[j].step = "idle" /\ loops[k].step = "idle"
    BY <1>1, <1>2, <1>4 DEF Started
  <2>2. j \in Nat /\ i \in Nat /\ j >= 1
    BY DEF Loops
  <2>3. ~(j < i)
    BY <2>1, <2>2
  <2>4. k # i
    BY <1>4, <2>2, <2>3 DEF Loops
  <2> QED
    BY <1>1, <2>1, <2>4
<1> QED
  BY <1>3, <1>4 DEF Started

(* The RPC that cancel() would cancel is in flight.                         *)
Called ==
    currentCall # Nobody => requests[currentCall].step \in {"sent", "cancelled", "served"}

LEMMA CalledStep == TypeOK /\ Called /\ [Next]_vars => Called'
<1> SUFFICES ASSUME TypeOK, Called, [Next]_vars PROVE Called'
  OBVIOUS
<1>0. requests \in [Callers -> Requests] /\ currentCall \in Callers \cup {Nobody}
  BY DEF TypeOK
<1>1. ASSUME NEW c \in Callers, Send(c) PROVE Called'
  BY <1>0, <1>1 DEF Send, Called
<1>2. ASSUME NEW i \in Loops, NEW active, Polled(i, active) PROVE Called'
  BY <1>1, <1>2 DEF Polled, Callers, Called
<1>3. ASSUME NEW u \in Listeners, Listen(u) PROVE Called'
  BY <1>2, <1>3, ListenPolls DEF polls, Called
<1>4. ASSUME NEW i \in Loops, Wake(i) PROVE Called'
  BY <1>2, <1>4, WakePolls
<1>5. ASSUME NEW g \in Getters, GetOperation(g) PROVE Called'
  BY <1>1, <1>5 DEF GetOperation, Callers
<1>6. ASSUME NEW c \in Callers, ServerAnswers(c) PROVE Called'
  BY <1>0, <1>6 DEF ServerAnswers, Called
<1>7. ASSUME NEW c \in Callers, Answered(c) \/ Rejected(c) PROVE Called'
  <2>1. requests' = [requests EXCEPT ![c] = [step |-> "over"]] /\ Forget(c)
    BY <1>7 DEF Answered, Rejected
  <2> QED
    BY <1>0, <2>1 DEF Forget, Called
<1>8. CASE Cancel
  BY <1>0, <1>8 DEF Cancel, Called
<1>13. ASSUME NEW c \in Callers, RpcLost(c) PROVE Called'
  <2>1. requests' = [requests EXCEPT ![c] = [step |-> "lost"]] /\ Forget(c)
    BY <1>13 DEF RpcLost
  <2> QED
    BY <1>0, <2>1 DEF Forget, Called
<1>9. CASE UNCHANGED <<requests, currentCall>>
  BY <1>9 DEF Called
<1>10. ASSUME NEW u \in Listeners, Unlisten(u) PROVE Called'
  BY <1>9, <1>10 DEF Unlisten, polls
<1>11. CASE Emit \/ ServerProgresses \/ Tick \/ UNCHANGED vars
  BY <1>9, <1>11 DEF Emit, ServerProgresses, Tick, vars, polls
<1>12. ASSUME NEW end \in Ends, ServerEnds(end) PROVE Called'
  BY <1>9, <1>12 DEF ServerEnds, polls
<1> QED
  BY <1>3, <1>4, <1>5, <1>6, <1>7, <1>8, <1>10, <1>11, <1>12, <1>13 DEF Next

LEMMA ServedStep ==
    TypeOK /\ Counted /\ Called /\ Started /\ LatestLoopServesListeners /\ [Next]_vars
        => Started' /\ LatestLoopServesListeners'
<1> SUFFICES ASSUME TypeOK, Counted, Called, Started, LatestLoopServesListeners, [Next]_vars
             PROVE  Started' /\ LatestLoopServesListeners'
  OBVIOUS
<1>0. \A i \in Loops : i \in Callers /\ (requests[i].step # "none" => loops[i].step # "idle")
  BY DEF Started, Callers
<1>1. CASE UNCHANGED <<loops, requests>> /\ (listening' # {} => listening # {})
  BY <1>0, <1>1, Kept
<1>2. ASSUME NEW u \in Listeners, Listen(u) PROVE Started' /\ LatestLoopServesListeners'
  <2>1. CASE hasActiveListeners /\ UNCHANGED <<server, latestResponse, polls, events>>
    BY <1>1, <2>1 DEF polls, Counted
  <2>2. CASE \E i \in Loops :
                /\ loops[i].step = "idle"
                /\ \A j \in 1 .. i - 1 : loops[j].step # "idle"
                /\ Polled(i, TRUE)
    <3>1. PICK i \in Loops :
                /\ loops[i].step = "idle"
                /\ \A j \in 1 .. i - 1 : loops[j].step # "idle"
                /\ Polled(i, TRUE)
      BY <2>2
    <3>2. Started'
      BY <3>1, PolledStarts
    <3>3. loops'[i].step \notin {"idle", "stopped"}
      BY <3>1 DEF Polled
    <3>4. ASSUME NEW j \in Loops, j > i PROVE loops'[j].step = "idle"
      <4>1. i < j /\ j # i
        BY <3>4 DEF Loops
      <4> QED
        BY <3>1, <4>1 DEF Polled, Started
    <3> QED
      BY <3>2, <3>3, <3>4 DEF LatestLoopServesListeners
  <2> QED
    BY <1>2, <2>1, <2>2, ListenPolls
<1>3. ASSUME NEW u \in Listeners, Unlisten(u) PROVE Started' /\ LatestLoopServesListeners'
  BY <1>1, <1>3 DEF Unlisten, polls
<1>4. ASSUME NEW i \in Loops, Wake(i) PROVE Started' /\ LatestLoopServesListeners'
  <2>1. /\ Polled(i, hasActiveListeners) /\ loops[i].step = "sleeping" /\ UNCHANGED listeners
        /\ hasActiveListeners \in BOOLEAN
    BY <1>4, WakePolls DEF TypeOK
  <2>2. \A j \in Loops \ {i} : loops'[j] = loops[j] /\ requests'[j] = requests[j]
    BY <1>0, <2>1, SentBy DEF Polled
  <2>3. loops'[i].step # "idle" /\ (hasActiveListeners => loops'[i].step # "stopped")
    BY <2>1 DEF Polled
  <2>4. hasActiveListeners <=> listening' # {}
    BY <2>1 DEF Counted, listeners
  <2> QED
    BY <1>0, <2>1, <2>2, <2>3, <2>4, Kept DEF listeners
<1>5. ASSUME NEW g \in Getters, GetOperation(g) PROVE Started' /\ LatestLoopServesListeners'
  <2>1. g \in Callers /\ g \notin Loops
    BY CallersAssumption DEF Callers
  <2>2. Send(g) /\ UNCHANGED loops /\ UNCHANGED listeners
    BY <1>5 DEF GetOperation
  <2>3. \A j \in Loops : requests'[j] = requests[j]
    BY <1>0, <2>1, <2>2, SentBy
  <2> QED
    BY <1>0, <2>2, <2>3, Kept DEF listeners
<1>6. ASSUME NEW c \in Callers, requests[c].step # "none", UNCHANGED <<loops, listeners>>,
             \A d \in Callers \ {c} : requests'[d] = requests[d]
      PROVE  Started' /\ LatestLoopServesListeners'
  BY <1>0, <1>6, Kept DEF listeners
<1>7. ASSUME NEW c \in Callers, ServerAnswers(c) PROVE Started' /\ LatestLoopServesListeners'
  BY <1>6, <1>7 DEF ServerAnswers, TypeOK
<1>8. ASSUME NEW c \in Callers, Answered(c) PROVE Started' /\ LatestLoopServesListeners'
  <2>1. \A d \in Loops : d # c => requests'[d] = requests[d] /\ loops'[d] = loops[d]
    BY <1>0, <1>8, AnsweredCases DEF TypeOK
  <2>2. c \in Loops => loops[c].step # "idle" /\ loops'[c].step \notin {"idle", "stopped"}
    BY <1>0, <1>8, AnsweredCases
  <2>3. UNCHANGED listeners
    BY <1>8, AnsweredCases
  <2> QED
    BY <1>0, <2>1, <2>2, <2>3, Kept DEF listeners
<1>9. ASSUME NEW c \in Callers, Rejected(c) PROVE Started' /\ LatestLoopServesListeners'
  <2>1. \A d \in Loops : d # c => requests'[d] = requests[d] /\ loops'[d] = loops[d]
    BY <1>0, <1>9, RejectedCases DEF TypeOK
  <2>2. c \in Loops => loops[c].step # "idle" /\ loops'[c].step \notin {"idle", "stopped"}
    BY <1>0, <1>9, RejectedCases
  <2>3. UNCHANGED listeners
    BY <1>9, RejectedCases
  <2> QED
    BY <1>0, <2>1, <2>2, <2>3, Kept DEF listeners
<1>10. CASE Tick
  <2>1. \A j \in Loops : loops'[j].step = loops[j].step /\ requests'[j] = requests[j]
    BY <1>10, TickCases
  <2>2. UNCHANGED listeners
    BY <1>10, TickCases
  <2> QED
    BY <1>0, <2>1, <2>2, Kept DEF listeners
<1>11. CASE Emit \/ ServerProgresses \/ UNCHANGED vars
  BY <1>1, <1>11 DEF Emit, ServerProgresses, vars, polls, listeners
<1>12. ASSUME NEW end \in Ends, ServerEnds(end) PROVE Started' /\ LatestLoopServesListeners'
  BY <1>1, <1>12 DEF ServerEnds, polls, listeners
<1>13. ASSUME Cancel PROVE Started' /\ LatestLoopServesListeners'
  BY <1>6, <1>13 DEF Cancel, Called, TypeOK
<1>14. ASSUME NEW c \in Callers, RpcLost(c) PROVE Started' /\ LatestLoopServesListeners'
  <2>1. requests[c].step # "none" /\ UNCHANGED <<loops, listeners>>
    BY <1>14, LostCases
  <2>2. \A d \in Callers \ {c} : requests'[d] = requests[d]
    BY <1>14, LostCases DEF TypeOK
  <2> QED
    BY <1>6, <2>1, <2>2
<1> QED
  BY <1>2, <1>3, <1>4, <1>5, <1>7, <1>8, <1>9, <1>10, <1>11, <1>12, <1>13, <1>14 DEF Next

LEMMA ServedInvariant == Spec => []LatestLoopServesListeners
<1>1. Init => Called /\ Started /\ LatestLoopServesListeners
  BY StartedInit DEF Init, Called, LatestLoopServesListeners
<1>2. TypeOK /\ Counted /\ Called /\ Started /\ LatestLoopServesListeners /\ [Next]_vars
          => Called' /\ Started' /\ LatestLoopServesListeners'
  BY CalledStep, ServedStep
<1> QED
  BY <1>1, <1>2, Invariant, PTL DEF Spec

(* While somebody listens, the loop started last has not given up.          *)
THEOREM ListenersAreServed == Spec => []LatestLoopServesListeners
  BY ServedInvariant

LEMMA PollStep ==
    TypeOK /\ Counted /\ [Next]_vars
        => \A i \in Loops : requests[i].step # "sent" /\ requests'[i].step = "sent"
                               => listening' # {}
<1> SUFFICES ASSUME TypeOK, Counted, [Next]_vars,
                    NEW i \in Loops, requests[i].step # "sent", requests'[i].step = "sent",
                    listening' = {}
             PROVE  FALSE
  OBVIOUS
<1>0. i \in Callers /\ requests \in [Callers -> Requests] /\ i \notin Getters
  BY CallersAssumption DEF TypeOK, Callers
<1>1. ASSUME NEW u \in Listeners, Listen(u) PROVE FALSE
  BY <1>1 DEF Listen
<1>2. ASSUME NEW j \in Loops, Wake(j) PROVE FALSE
  <2>1. UNCHANGED requests
    <3>1. Polled(j, hasActiveListeners) /\ UNCHANGED listeners
      BY <1>2, WakePolls
    <3>2. ~hasActiveListeners
      BY <3>1 DEF listeners, Counted
    <3> QED
      BY <3>1, <3>2 DEF Polled
  <2> QED
    BY <2>1
<1>3. ASSUME NEW g \in Getters, GetOperation(g) PROVE FALSE
  BY <1>0, <1>3 DEF GetOperation, Send
<1>4. ASSUME NEW c \in Callers, ServerAnswers(c) \/ Answered(c) \/ Rejected(c) \/ RpcLost(c)
      PROVE  FALSE
  BY <1>0, <1>4 DEF ServerAnswers, Answered, Rejected, RpcLost
<1>5. CASE Cancel
  BY <1>0, <1>5 DEF Cancel
<1>6. CASE UNCHANGED requests
  BY <1>6
<1>7. ASSUME NEW u \in Listeners, Unlisten(u) PROVE FALSE
  BY <1>6, <1>7 DEF Unlisten, polls
<1>8. CASE Emit \/ ServerProgresses \/ Tick \/ UNCHANGED vars
  BY <1>6, <1>8 DEF Emit, ServerProgresses, Tick, vars, polls
<1>9. ASSUME NEW end \in Ends, ServerEnds(end) PROVE FALSE
  BY <1>6, <1>9 DEF ServerEnds, polls
<1> QED
  BY <1>1, <1>2, <1>3, <1>4, <1>5, <1>7, <1>8, <1>9 DEF Next

(* No poll is sent while nobody listens.                                    *)
THEOREM PollsAreListenedTo == Spec => NoPollWithoutListeners
<1>1. TypeOK /\ Counted /\ [Next]_vars
          => [\A i \in Loops : requests[i].step # "sent" /\ requests'[i].step = "sent"
                                  => listening' # {}]_vars
  BY PollStep
<1> QED
  BY <1>1, Invariant, PTL DEF Spec, NoPollWithoutListeners

-----------------------------------------------------------------------------
(* Truth.  What the client knows of the operation was so on the server and  *)
(* still is, since an operation that has ended changes no more; and an      *)
(* event is of a loop that was started, whose timeout, once over, stays so. *)
TrueOn(s, op) == op.metadata =< s.metadata /\ (Done(op) => s.end = op.end)

Informed ==
    /\ TrueOn(server, latestResponse)
    /\ \A c \in Callers : requests[c].step = "served" => TrueOn(server, requests[c].answer)

EventTrue(e) ==
    /\ loops[e.loop].step # "idle"
    /\ \/ e.name = "complete" /\ server.end \in {"response", "empty"} /\ e.what = server.end
       \/ e.name = "error" /\ e.what = "error" /\ server.end = "error"
       \/ TellsTimeout(e) /\ loops[e.loop].left = 0
       \/ e.name = "progress" /\ e.metadata =< server.metadata

EventsTrue == \A e \in ToSet(immediates) : EventTrue(e)

(* The server only moves on.                                                *)
LEMMA ServerMoves ==
    ASSUME TypeOK, [Next]_vars
    PROVE  /\ server.metadata =< server'.metadata
           /\ Done(server) => server'.end = server.end
<1>0. server \in Snapshots /\ server.metadata \in Nat
  BY LoopsType DEF TypeOK, Snapshots
<1>1. CASE ServerProgresses
  BY <1>0, <1>1 DEF ServerProgresses, Snapshots
<1>2. ASSUME NEW end \in Ends, ServerEnds(end)
      PROVE  server.metadata =< server'.metadata /\ ~Done(server)
  BY <1>0, <1>2 DEF ServerEnds, Snapshots
<1>3. CASE UNCHANGED server
  BY <1>0, <1>3
<1>4. ASSUME NEW u \in Listeners, Listen(u) \/ Unlisten(u) PROVE UNCHANGED server
  BY <1>4 DEF Listen, Unlisten
<1>5. ASSUME NEW i \in Loops, Wake(i) PROVE UNCHANGED server
  BY <1>5 DEF Wake
<1>6. ASSUME NEW g \in Getters, GetOperation(g) PROVE UNCHANGED server
  BY <1>6 DEF GetOperation
<1>7. ASSUME NEW c \in Callers, ServerAnswers(c) \/ Answered(c) \/ Rejected(c) \/ RpcLost(c)
      PROVE  UNCHANGED server
  BY <1>7 DEF ServerAnswers, Answered, Rejected, RpcLost
<1>8. Cancel \/ Emit \/ Tick \/ UNCHANGED vars => UNCHANGED server
  BY DEF Cancel, Emit, Tick, vars
<1> QED
  BY <1>1, <1>2, <1>3, <1>4, <1>5, <1>6, <1>7, <1>8 DEF Next

LEMMA TrueStays ==
    ASSUME TypeOK, TypeOK', [Next]_vars
    PROVE  \A op \in Snapshots : TrueOn(server, op) => TrueOn(server', op)
<1> SUFFICES ASSUME NEW op \in Snapshots, TrueOn(server, op) PROVE TrueOn(server', op)
  OBVIOUS
<1>1. op.metadata \in Nat /\ server.metadata \in Nat /\ server'.metadata \in Nat
  BY LoopsType DEF TypeOK, Snapshots
<1>2. op.metadata =< server.metadata /\ (Done(op) => server.end = op.end)
  BY DEF TrueOn
<1>3. op.metadata =< server'.metadata /\ (Done(op) => server'.end = op.end)
  BY <1>1, <1>2, ServerMoves DEF Done
<1> QED
  BY <1>3 DEF TrueOn

(* A known operation is told of truly.                                      *)
LEMMA TellsTrue ==
    ASSUME NEW op, TrueOn(server', op), NEW e \in Events, Tells(e, op),
           loops'[e.loop].step # "idle"
    PROVE  EventTrue(e)'
  BY DEF TrueOn, Tells, EventTrue, Done

(* The events that are there stay true if no loop becomes idle or gets time. *)
LEMMA EventsKeep ==
    ASSUME TypeOK, TypeOK', EventsTrue, [Next]_vars,
           NEW e \in Events, EventTrue(e),
           loops'[e.loop].step # "idle", loops[e.loop].left = 0 => loops'[e.loop].left = 0
    PROVE  EventTrue(e)'
<1>1. /\ server.metadata \in Nat /\ server'.metadata \in Nat /\ e.metadata \in Nat
  BY LoopsType DEF TypeOK, Snapshots, Events
<1>2. e.metadata =< server.metadata => e.metadata =< server'.metadata
  BY <1>1, ServerMoves
<1>3. Done(server) => server'.end = server.end
  BY ServerMoves
<1>4. server.end \in {"response", "empty", "error"} => server'.end = server.end
  BY <1>3 DEF Done
<1> QED
  BY <1>2, <1>4 DEF EventTrue, TellsTimeout

(* What stays true while neither what is known nor the requests change.     *)
LEMMA InformedKeep ==
    ASSUME TypeOK, TypeOK', Informed, [Next]_vars, TrueOn(server', latestResponse'),
           \A c \in Callers : requests'[c].step = "served" => requests'[c] = requests[c]
    PROVE  Informed'
<1>1. ASSUME NEW c \in Callers, requests'[c].step = "served"
      PROVE  TrueOn(server', requests'[c].answer)
  <2>1. requests'[c] = requests[c]
    BY <1>1
  <2>2. requests[c].answer \in Snapshots /\ TrueOn(server, requests[c].answer)
    BY <1>1, <2>1 DEF Informed, TypeOK, Requests
  <2> QED
    BY <2>1, <2>2, TrueStays
<1> QED
  BY <1>1 DEF Informed

LEMMA LatestTrue ==
    ASSUME TypeOK, TypeOK', Informed, [Next]_vars
    PROVE  TrueOn(server', latestResponse)
  BY TrueStays DEF Informed, TypeOK

LEMMA EventsStay ==
    ASSUME TypeOK, TypeOK', EventsTrue, [Next]_vars,
           \A i \in Loops : loops[i].step # "idle" => loops'[i].step # "idle",
           \A i \in Loops : loops[i].step # "idle" /\ loops[i].left = 0 => loops'[i].left = 0
    PROVE  \A e \in ToSet(immediates) : EventTrue(e)'
<1> SUFFICES ASSUME NEW e \in ToSet(immediates) PROVE EventTrue(e)'
  OBVIOUS
<1>1. e \in Events /\ e.loop \in Loops
  <2>1. e \in Events
    BY DEF TypeOK, ToSet
  <2> QED
    BY <2>1 DEF Events
<1>2. EventTrue(e) /\ loops[e.loop].step # "idle"
  BY DEF EventsTrue, EventTrue
<1> QED
  BY <1>1, <1>2, EventsKeep

LEMMA PolledTruth ==
    ASSUME TypeOK, TypeOK', Informed, EventsTrue, [Next]_vars,
           NEW i \in Loops, NEW active, Polled(i, active),
           loops[i].step = "idle" \/ (loops[i].left = 0 => loops'[i].left = 0)
    PROVE  Informed' /\ EventsTrue'
<1>1. UNCHANGED <<server, latestResponse>> /\ TrueOn(server', latestResponse)
  BY LatestTrue DEF Polled
<1>2. Informed'
  <2>1. ASSUME NEW c \in Callers, requests'[c].step = "served" PROVE requests'[c] = requests[c]
    BY <2>1 DEF Polled, Send, TypeOK
  <2> QED
    BY <1>1, <2>1, InformedKeep
<1>3. \A e \in ToSet(immediates) : EventTrue(e)'
  BY EventsStay DEF Polled
<1>4. ASSUME NEW e \in ToSet(immediates') PROVE EventTrue(e)'
  <2>1. e \in Events
    BY DEF TypeOK, ToSet
  <2>2. CASE e.loop = i /\ Tells(e, latestResponse)
    <3>1. loops'[e.loop].step # "idle"
      BY <2>2 DEF Polled
    <3> QED
      BY <1>1, <2>1, <2>2, <3>1, TellsTrue
  <2>3. CASE e.loop = i /\ TellsTimeout(e) /\ loops'[i].left = 0
    BY <2>3 DEF EventTrue, TellsTimeout, Polled
  <2> QED
    BY <1>3, <2>2, <2>3 DEF Polled
<1> QED
  BY <1>2, <1>4 DEF EventsTrue

LEMMA TruthStep ==
    TypeOK /\ TypeOK' /\ Started /\ Informed /\ EventsTrue /\ [Next]_vars
        => Informed' /\ EventsTrue'
<1> SUFFICES ASSUME TypeOK, TypeOK', Started, Informed, EventsTrue, [Next]_vars
             PROVE  Informed' /\ EventsTrue'
  OBVIOUS
<1>0. /\ requests \in [Callers -> Requests] /\ TrueOn(server', latestResponse)
      /\ \A i \in Loops : i \in Callers /\ (requests[i].step # "none" => loops[i].step # "idle")
  BY LatestTrue DEF Started, Callers, TypeOK
<1>1. ASSUME UNCHANGED <<latestResponse, loops>>, ToSet(immediates') \subseteq ToSet(immediates),
             \A c \in Callers : requests'[c].step = "served" => requests'[c] = requests[c]
      PROVE  Informed' /\ EventsTrue'
  <2>1. Informed'
    BY <1>0, <1>1, InformedKeep
  <2>2. \A e \in ToSet(immediates) : EventTrue(e)'
    BY <1>1, EventsStay
  <2> QED
    BY <1>1, <2>1, <2>2 DEF EventsTrue
<1>2. ASSUME NEW u \in Listeners, Listen(u) PROVE Informed' /\ EventsTrue'
  <2>1. CASE UNCHANGED <<server, latestResponse, polls, events>>
    BY <1>1, <2>1 DEF polls, events
  <2>2. CASE \E i \in Loops : loops[i].step = "idle" /\ Polled(i, TRUE)
    BY <2>2, PolledTruth
  <2> QED
    BY <1>2, <2>1, <2>2, ListenPolls
<1>3. ASSUME NEW u \in Listeners, Unlisten(u) PROVE Informed' /\ EventsTrue'
  BY <1>1, <1>3 DEF Unlisten, polls, events
<1>4. ASSUME NEW i \in Loops, Wake(i) PROVE Informed' /\ EventsTrue'
  BY <1>4, WakePolls, PolledTruth
<1>5. ASSUME NEW g \in Getters, GetOperation(g) PROVE Informed' /\ EventsTrue'
  <2>1. \A c \in Callers : requests'[c].step = "served" => requests'[c] = requests[c]
    BY <1>0, <1>5 DEF GetOperation, Send
  <2> QED
    BY <1>1, <1>5, <2>1 DEF GetOperation, events
<1>6. ASSUME NEW c \in Callers, ServerAnswers(c) PROVE Informed' /\ EventsTrue'
  <2>1. /\ requests' = [requests EXCEPT ![c] = [step |-> "served", answer |-> server]]
        /\ UNCHANGED <<server, latestResponse, loops, immediates>>
    BY <1>6 DEF ServerAnswers, events
  <2>2. TrueOn(server, server)
    BY LoopsType DEF TypeOK, Snapshots, TrueOn
  <2>3. Informed'
    <3>1. ASSUME NEW d \in Callers, requests'[d].step = "served"
          PROVE  TrueOn(server', requests'[d].answer)
      <4>1. CASE d = c
        BY <1>0, <2>1, <2>2, <4>1
      <4>2. CASE d # c
        BY <1>0, <2>1, <3>1, <4>2 DEF Informed
      <4> QED
        BY <4>1, <4>2
    <3> QED
      BY <1>0, <2>1, <3>1 DEF Informed
  <2>4. \A e \in ToSet(immediates) : EventTrue(e)'
    BY <2>1, EventsStay
  <2> QED
    BY <2>1, <2>3, <2>4 DEF EventsTrue
<1>7. ASSUME NEW c \in Callers, Answered(c) PROVE Informed' /\ EventsTrue'
  <2>1. latestResponse' \in Snapshots /\ TrueOn(server', latestResponse')
    <3>1. requests[c].answer \in Snapshots /\ TrueOn(server, requests[c].answer)
      BY <1>7, AnsweredCases DEF Informed
    <3> QED
      BY <1>7, <3>1, AnsweredCases
  <2>2. Informed'
    <3>1. \A d \in Callers : requests'[d].step = "served" => requests'[d] = requests[d]
      BY <1>0, <1>7, AnsweredCases
    <3> QED
      BY <2>1, <3>1, InformedKeep
  <2>3. c \in Loops => loops[c].step # "idle"
    BY <1>0, <1>7, AnsweredCases
  <2>4. \A e \in ToSet(immediates) : EventTrue(e)'
    BY <1>7, <2>3, AnsweredCases, EventsStay
  <2>5. ASSUME NEW e \in ToSet(immediates') PROVE EventTrue(e)'
    <3>1. e \in Events
      BY DEF TypeOK, ToSet
    <3>2. CASE e.loop = c /\ c \in Loops /\ Tells(e, latestResponse')
      <4>1. loops'[e.loop].step # "idle"
        BY <1>7, <3>2, AnsweredCases
      <4> QED
        BY <2>1, <3>1, <3>2, <4>1 DEF TrueOn, Tells, EventTrue, Done
    <3> QED
      BY <1>7, <2>4, <3>2, AnsweredCases
  <2> QED
    BY <2>2, <2>5 DEF EventsTrue
<1>8. ASSUME NEW c \in Callers, Rejected(c) PROVE Informed' /\ EventsTrue'
  <2>1. UNCHANGED <<latestResponse, immediates>>
    BY <1>8, RejectedCases DEF events
  <2>2. \A d \in Callers : requests'[d].step = "served" => requests'[d] = requests[d]
    BY <1>0, <1>8, RejectedCases
  <2>3. Informed'
    BY <1>0, <2>1, <2>2, InformedKeep
  <2>4. \A e \in ToSet(immediates) : EventTrue(e)'
    BY <1>0, <1>8, RejectedCases, EventsStay
  <2> QED
    BY <2>1, <2>3, <2>4 DEF EventsTrue
<1>9. CASE Tick
  <2>1. UNCHANGED <<latestResponse, immediates, requests>>
    BY <1>9, TickCases DEF events
  <2>2. Informed'
    BY <1>0, <2>1, InformedKeep
  <2>3. \A e \in ToSet(immediates) : EventTrue(e)'
    BY <1>9, TickCases, EventsStay
  <2> QED
    BY <2>1, <2>2, <2>3 DEF EventsTrue
<1>10. CASE Cancel
  <2>1. \A c \in Callers : requests'[c].step = "served" => requests'[c] = requests[c]
    BY <1>0, <1>10 DEF Cancel
  <2> QED
    BY <1>1, <1>10, <2>1 DEF Cancel, events
<1>11. CASE Emit
  <2>1. ToSet(immediates') \subseteq ToSet(immediates)
    BY <1>11, MembersOfTail DEF Emit, TypeOK
  <2> QED
    BY <1>1, <1>11, <2>1 DEF Emit, polls
<1>12. CASE ServerProgresses \/ UNCHANGED vars
  BY <1>1, <1>12 DEF ServerProgresses, vars, polls, events
<1>13. ASSUME NEW end \in Ends, ServerEnds(end) PROVE Informed' /\ EventsTrue'
  BY <1>1, <1>13 DEF ServerEnds, polls, events
<1>14. ASSUME NEW c \in Callers, RpcLost(c) PROVE Informed' /\ EventsTrue'
  <2>1. UNCHANGED <<server, latestResponse, immediates, loops>>
    BY <1>14, LostCases DEF events
  <2>2. \A d \in Callers : requests'[d].step = "served" => requests'[d] = requests[d]
    BY <1>0, <1>14, LostCases
  <2> QED
    BY <1>1, <2>1, <2>2
<1> QED
  BY <1>2, <1>3, <1>4, <1>5, <1>6, <1>7, <1>8, <1>9, <1>10, <1>11, <1>12, <1>13, <1>14 DEF Next

LEMMA TruthInit == Init => Informed /\ EventsTrue
<1> SUFFICES ASSUME Init PROVE Informed /\ EventsTrue
  OBVIOUS
<1>1. server.metadata = 0 /\ latestResponse = server
  BY DEF Init
<1>2. \A c \in Callers : requests[c].step # "served"
  BY DEF Init
<1>3. ToSet(immediates) = {}
  BY DEF Init, ToSet
<1> QED
  BY <1>1, <1>2, <1>3 DEF Informed, TrueOn, EventsTrue

LEMMA EventsTrueIsEndings == TypeOK /\ EventsTrue => EndingsAreTrue
<1> SUFFICES ASSUME TypeOK, EventsTrue, NEW event \in ToSet(immediates)
             PROVE  CASE event.name = "complete" -> server.end \in {"response", "empty"}
                                                    /\ event.what = server.end
                      [] event.name = "error"    -> \/ event.what = "error" /\ server.end = "error"
                                                    \/ event.what = "DEADLINE_EXCEEDED"
                                                       /\ TotalTimeout > 0
                                                       /\ loops[event.loop].left = 0
                      [] event.name = "progress" -> event.metadata =< server.metadata
  BY DEF EndingsAreTrue
<1>1. EventTrue(event)
  BY DEF EventsTrue
<1> QED
  BY <1>1 DEF EventTrue, TellsTimeout

(* No event tells of an end, or of metadata, that the operation does not    *)
(* have, nor of a timeout before the loop's time is over, in whatever order *)
(* the answers of loops and users arrive.                                   *)
THEOREM EventsTellTheTruth == Spec => []EndingsAreTrue
<1>1. TypeOK /\ TypeOK' /\ Counted /\ Called /\ Started /\ LatestLoopServesListeners
        /\ Informed /\ EventsTrue /\ [Next]_vars
          => Called' /\ Started' /\ LatestLoopServesListeners' /\ Informed' /\ EventsTrue'
  BY CalledStep, ServedStep, TruthStep
<1>2. Init => Called /\ Started /\ LatestLoopServesListeners
  BY StartedInit DEF Init, Called, LatestLoopServesListeners
<1> QED
  BY <1>1, <1>2, TruthInit, Invariant, EventsTrueIsEndings, PTL DEF Spec

-----------------------------------------------------------------------------
(* The order of a loop's events.  What a loop has seen bounds the events it *)
(* has given to setImmediate, and never falls behind what it saw before: an *)
(* answer to its own RPC was taken from the server after the RPC was sent,  *)
(* and a cached answer is used only when it is the last one.                *)

InOrder(s, last) ==
    \A n \in DOMAIN s :
        /\ last[s[n].loop] < Rank(s[n])
        /\ \A m \in 1 .. n - 1 : s[m].loop = s[n].loop => Rank(s[m]) < Rank(s[n])

AtMost(s, last, i, k) ==
    last[i] =< k /\ \A n \in DOMAIN s : s[n].loop = i => Rank(s[n]) =< k

FinalKnown ==
    /\ Done(latestResponse) => latestResponse = server
    /\ \A c \in Callers : requests[c].step = "served" /\ Done(requests[c].answer)
                             => requests[c].answer = server

PollsOwnTheirRpc ==
    \A i \in Loops : requests[i].step \in {"sent", "cancelled", "served"}
                        => loops[i].step = "polling"

SeenIsPast ==
    \A i \in Loops :
        /\ loops[i].previousMetadata =< server.metadata
        /\ loops[i].step = "idle" => loops[i].previousMetadata = 0
        /\ requests[i].step = "served" => loops[i].previousMetadata =< requests[i].answer.metadata

EventsBehind ==
    \A i \in Loops : loops[i].step \in {"idle", "polling", "sleeping"}
                        => AtMost(immediates, lastEmitted, i, loops[i].previousMetadata)

LEMMA RankType ==
    ASSUME NEW e \in Events
    PROVE  Rank(e) \in Nat /\ Rank(e) =< MaxMetadata + 1 /\ e.loop \in Loops
  BY LoopsType DEF Events, Rank

(* An event that tells of more than was known of keeps the order.           *)
LEMMA InOrderAppend ==
    ASSUME NEW s \in Seq(Events), NEW last \in [Loops -> 0 .. MaxMetadata + 1], InOrder(s, last),
           NEW i \in Loops, NEW k \in Nat, AtMost(s, last, i, k),
           NEW e \in Events, e.loop = i, k < Rank(e)
    PROVE  /\ InOrder(Append(s, e), last)
           /\ AtMost(Append(s, e), last, i, Rank(e))
           /\ \A j \in Loops \ {i} : \A l \in Nat :
                 AtMost(s, last, j, l) => AtMost(Append(s, e), last, j, l)
<1> DEFINE t == Append(s, e)
           N == Len(s)
<1>1. /\ N \in Nat /\ DOMAIN s = 1 .. N /\ DOMAIN t = 1 .. N + 1
      /\ \A n \in 1 .. N : t[n] = s[n] /\ s[n] \in Events
      /\ t[N + 1] = e
  OBVIOUS
<1>2. \A n \in 1 .. N : Rank(s[n]) \in Nat /\ s[n].loop \in Loops
  BY <1>1, RankType
<1>3. Rank(e) \in Nat /\ last[i] \in Nat
  BY RankType, LoopsType
<1> HIDE DEF t, N
<1>4. \A n \in 1 .. N + 1 : n \in 1 .. N \/ n = N + 1
  BY <1>1
<1>5. AtMost(t, last, i, Rank(e))
  <2>1. last[i] =< Rank(e)
    <3>1. last[i] =< k
      BY DEF AtMost
    <3> QED
      BY ONLY <1>3, <3>1, k \in Nat, k < Rank(e)
  <2>2. ASSUME NEW n \in 1 .. N, t[n].loop = i PROVE Rank(t[n]) =< Rank(e)
    <3>1. Rank(s[n]) =< k /\ t[n] = s[n]
      BY <1>1, <2>2 DEF AtMost
    <3>2. Rank(s[n]) =< Rank(e)
      BY ONLY <1>2, <1>3, <3>1, k \in Nat, k < Rank(e), n \in 1 .. N
    <3> QED
      BY <3>1, <3>2
  <2>3. Rank(t[N + 1]) =< Rank(e)
    BY ONLY <1>1, <1>3
  <2> QED
    BY <1>1, <1>4, <2>1, <2>2, <2>3 DEF AtMost
<1>6. ASSUME NEW n \in 1 .. N
      PROVE  /\ last[t[n].loop] < Rank(t[n])
             /\ \A m \in 1 .. n - 1 : t[m].loop = t[n].loop => Rank(t[m]) < Rank(t[n])
  <2>1. \A m \in 1 .. n - 1 : m \in 1 .. N
    BY <1>1
  <2> QED
    BY <1>1, <2>1 DEF InOrder
<1>7. /\ last[e.loop] < Rank(e)
      /\ \A m \in 1 .. (N + 1) - 1 : t[m].loop = e.loop => Rank(t[m]) < Rank(e)
  <2>1. \A m \in 1 .. (N + 1) - 1 : m \in 1 .. N
    BY <1>1
  <2> QED
    <3>1. last[e.loop] =< k /\ k < Rank(e) /\ last[e.loop] \in Nat
      BY <1>3 DEF AtMost
    <3>2. \A m \in 1 .. N : s[m].loop = i => Rank(s[m]) =< k
      BY <1>1 DEF AtMost
    <3>3. \A m \in 1 .. N : s[m].loop = i => Rank(s[m]) < Rank(e)
      BY <1>2, <1>3, <3>1, <3>2
    <3> QED
      BY <1>1, <1>3, <2>1, <3>1, <3>3
<1>8. InOrder(t, last)
  BY <1>1, <1>4, <1>6, <1>7 DEF InOrder
<1>9. \A j \in Loops \ {i} : \A l \in Nat : AtMost(s, last, j, l) => AtMost(t, last, j, l)
  BY <1>1, <1>4 DEF AtMost
<1> QED
  BY <1>5, <1>8, <1>9 DEF t

(* What the turn of loop i leaves of order.                                 *)
KeepsOrder(i) ==
    /\ InOrder(immediates', lastEmitted)
    /\ \A j \in Loops \ {i} : \A l \in Nat :
          AtMost(immediates, lastEmitted, j, l) => AtMost(immediates', lastEmitted, j, l)
    /\ loops'[i].step \in {"polling", "sleeping"} =>
          AtMost(immediates', lastEmitted, i, loops'[i].previousMetadata)
    /\ loops'[i].step # "idle"

LEMMA HandleAnswerKeepsOrder ==
    ASSUME TypeOK, NEW i \in Loops, NEW loop \in Loop, NEW op \in Snapshots,
           HandleAnswer(i, loop, op), loop.previousMetadata =< op.metadata,
           InOrder(immediates, lastEmitted),
           AtMost(immediates, lastEmitted, i, loop.previousMetadata)
    PROVE  KeepsOrder(i) /\ loops'[i].previousMetadata =< op.metadata
<1> DEFINE progressed == op.end \in {"running", "empty"} /\ Progressed(loop, op)
           e1 == Event(i, "progress", op.end, op.metadata)
           progress == IF progressed THEN <<e1>> ELSE <<>>
           seen == [loop EXCEPT !.previousMetadata = IF progressed THEN op.metadata ELSE @]
           asleep == [seen EXCEPT !.step = "sleeping", !.wait = loop.delay]
           s1 == immediates \o progress
           k1 == IF progressed THEN op.metadata ELSE loop.previousMetadata
<1>1. /\ loops \in [Loops -> Loop] /\ immediates \in Seq(Events)
      /\ lastEmitted \in [Loops -> 0 .. MaxMetadata + 1]
      /\ op.metadata \in 0 .. MaxMetadata /\ op.end \in Ends \cup {"running"}
      /\ loop.previousMetadata \in 0 .. MaxMetadata /\ MaxMetadata \in Nat
      /\ op.metadata \in Nat /\ loop.previousMetadata \in Nat /\ 0 \in 0 .. MaxMetadata
  BY LoopsType DEF TypeOK, Snapshots, Loop
<1>2. e1 \in Events /\ e1.loop = i /\ Rank(e1) = op.metadata
  <2>1. op.end \in Ends \cup {"DEADLINE_EXCEEDED", "running"}
    BY <1>1
  <2> QED
    <3>1. "progress" \in {"complete", "error", "progress"}
      OBVIOUS
    <3>2. e1 \in Events /\ e1.loop = i /\ e1.name = "progress" /\ e1.metadata = op.metadata
      <4>1. op.metadata \in 0 .. MaxMetadata
        BY <1>1
      <4> QED
        BY ONLY <2>1, <3>1, <4>1, EventType, i \in Loops
    <3> HIDE DEF e1
    <3> QED
      BY <3>2 DEF Rank
<1>3. /\ k1 \in Nat /\ k1 =< MaxMetadata /\ k1 =< op.metadata
      /\ progressed => loop.previousMetadata < Rank(e1)
  BY <1>1, <1>2 DEF Progressed
<1>4. asleep.step = "sleeping" /\ asleep.previousMetadata = k1
  BY DEF Loop
<1>5. /\ s1 \in Seq(Events) /\ InOrder(s1, lastEmitted)
      /\ AtMost(s1, lastEmitted, i, k1)
      /\ \A j \in Loops \ {i} : \A l \in Nat :
            AtMost(immediates, lastEmitted, j, l) => AtMost(s1, lastEmitted, j, l)
  <2>1. CASE progressed
    <3>1. s1 = Append(immediates, e1)
      BY <1>1, <1>2, <2>1
    <3>2. k1 = Rank(e1) /\ loop.previousMetadata < Rank(e1)
      BY <1>2, <1>3, <2>1
    <3> HIDE DEF s1, e1, k1
    <3>3. s1 \in Seq(Events)
      BY <1>1, <1>2, <3>1
    <3> QED
      BY <1>1, <1>2, <3>1, <3>2, <3>3, InOrderAppend
  <2>2. CASE ~progressed
    <3>1. s1 = immediates
      BY <1>1, <2>2
    <3>2. k1 = loop.previousMetadata
      BY <2>2
    <3> HIDE DEF s1, k1
    <3> QED
      BY <1>1, <3>1, <3>2
  <2> QED
    BY <2>1, <2>2
<1>6. ASSUME NEW e0 \in Events, e0.loop = i, Rank(e0) = MaxMetadata + 1,
             NEW s \in Seq(Events), InOrder(s, lastEmitted),
             NEW k \in Nat, k =< MaxMetadata, AtMost(s, lastEmitted, i, k),
             \A j \in Loops \ {i} : \A l \in Nat :
                AtMost(immediates, lastEmitted, j, l) => AtMost(s, lastEmitted, j, l),
             immediates' = Append(s, e0), loops' = [loops EXCEPT ![i] = Over(loop, "ended")]
      PROVE  KeepsOrder(i) /\ loops'[i].previousMetadata =< op.metadata
  <2>1. loops'[i].step = "ended" /\ loops'[i].previousMetadata = 0
    BY <1>1, <1>6 DEF Over, IdleLoop
  <2>2. k < Rank(e0)
    BY <1>1, <1>6
  <2>3. /\ InOrder(immediates', lastEmitted)
        /\ \A j \in Loops \ {i} : \A l \in Nat :
              AtMost(s, lastEmitted, j, l) => AtMost(immediates', lastEmitted, j, l)
    BY <1>1, <1>6, <2>2, InOrderAppend
  <2> QED
    BY <1>1, <1>6, <2>1, <2>3 DEF KeepsOrder
<1>7. CASE /\ op.end = "error"
           /\ loops' = [loops EXCEPT ![i] = Over(loop, "ended")]
           /\ immediates' = Append(immediates, Event(i, "error", "error", 0))
  <2> DEFINE e0 == Event(i, "error", "error", 0)
  <2>1. e0 \in Events /\ e0.loop = i /\ Rank(e0) = MaxMetadata + 1
    BY <1>1, EventType DEF Ends, Rank
  <2> HIDE DEF e0
  <2>2. immediates' = Append(immediates, e0) /\ loops' = [loops EXCEPT ![i] = Over(loop, "ended")]
    BY <1>7 DEF e0
  <2> QED
    <3>1. loop.previousMetadata =< MaxMetadata
      BY <1>1
    <3>2. \A j \in Loops \ {i} : \A l \in Nat :
            AtMost(immediates, lastEmitted, j, l) => AtMost(immediates, lastEmitted, j, l)
      OBVIOUS
    <3> QED
      BY <1>1, <1>6, <2>1, <2>2, <3>1, <3>2
<1>8. CASE /\ op.end = "running"
           /\ loops' = [loops EXCEPT ![i] = asleep]
           /\ immediates' = s1
  <2>1. loops'[i] = asleep
    BY <1>1, <1>8
  <2> HIDE DEF asleep, s1, k1
  <2> QED
    BY <1>3, <1>4, <1>5, <1>8, <2>1 DEF KeepsOrder
<1>9. CASE /\ op.end \in {"response", "empty"}
           /\ loops' = [loops EXCEPT ![i] = Over(loop, "ended")]
           /\ immediates' = s1 \o <<Event(i, "complete", op.end, 0)>>
  <2> DEFINE e0 == Event(i, "complete", op.end, 0)
  <2>1. e0 \in Events /\ e0.loop = i /\ Rank(e0) = MaxMetadata + 1
    BY <1>1, <1>9, EventType DEF Ends, Rank
  <2> HIDE DEF e0, s1, k1
  <2>2. immediates' = Append(s1, e0) /\ loops' = [loops EXCEPT ![i] = Over(loop, "ended")]
    BY <1>5, <1>9, <2>1 DEF e0
  <2> QED
    BY <1>3, <1>5, <1>6, <2>1, <2>2
<1> QED
  BY <1>7, <1>8, <1>9 DEF HandleAnswer

LEMMA RetryKeepsOrder ==
    ASSUME TypeOK, NEW i \in Loops, NEW loop \in Loop, NEW active \in BOOLEAN,
           Retry(i, loop, active), loop.previousMetadata =< server.metadata,
           Done(latestResponse) => latestResponse = server,
           InOrder(immediates, lastEmitted),
           AtMost(immediates, lastEmitted, i, loop.previousMetadata)
    PROVE  /\ KeepsOrder(i) /\ loops'[i].previousMetadata =< server.metadata
           /\ \/ requests' = requests
              \/ /\ requests' = [requests EXCEPT ![i] = [step |-> "sent"]]
                 /\ loops'[i].step = "polling"
<1>1. /\ loops \in [Loops -> Loop] /\ immediates \in Seq(Events)
      /\ lastEmitted \in [Loops -> 0 .. MaxMetadata + 1]
      /\ server.metadata \in Nat /\ latestResponse \in Snapshots
      /\ loop.previousMetadata \in Nat /\ loop.previousMetadata =< MaxMetadata
      /\ MaxMetadata \in Nat /\ 0 \in 0 .. MaxMetadata
  BY LoopsType DEF TypeOK, Snapshots, Loop
<1>2. \A step : /\ Over(loop, step).step = step
               /\ Over(loop, step).previousMetadata = 0
  BY DEF Over, IdleLoop
<1>3. CASE /\ loops' = [loops EXCEPT ![i] = Over(loop, "stopped")]
           /\ UNCHANGED <<requests, currentCall, immediates>>
  <2>1. loops'[i] = Over(loop, "stopped")
    BY <1>1, <1>3
  <2> QED
    BY <1>1, <1>2, <1>3, <2>1 DEF KeepsOrder
<1>4. CASE /\ loops' = [loops EXCEPT ![i] = Over(loop, "ended")]
           /\ immediates' = Append(immediates, Event(i, "error", "DEADLINE_EXCEEDED", 0))
           /\ UNCHANGED <<requests, currentCall>>
  <2> DEFINE e0 == Event(i, "error", "DEADLINE_EXCEEDED", 0)
  <2>1. e0 \in Events /\ e0.loop = i /\ Rank(e0) = MaxMetadata + 1
    <3>1. "DEADLINE_EXCEEDED" \in Ends \cup {"DEADLINE_EXCEEDED", "running"}
          /\ "error" \in {"complete", "error", "progress"}
      OBVIOUS
    <3>2. e0 \in Events /\ e0.loop = i /\ e0.name = "error"
      <4>1. 0 \in 0 .. MaxMetadata
        BY <1>1
      <4> QED
        BY ONLY <3>1, <4>1, EventType, i \in Loops
    <3> HIDE DEF e0
    <3> QED
      BY <3>2 DEF Rank
  <2>2. immediates' = Append(immediates, e0)
    BY <1>4
  <2> HIDE DEF e0
  <2>3. loop.previousMetadata < Rank(e0)
    BY <1>1, <2>1
  <2>4. /\ InOrder(immediates', lastEmitted)
        /\ \A j \in Loops \ {i} : \A l \in Nat :
              AtMost(immediates, lastEmitted, j, l) => AtMost(immediates', lastEmitted, j, l)
    BY <1>1, <2>1, <2>2, <2>3, InOrderAppend
  <2>5. loops'[i] = Over(loop, "ended")
    BY <1>1, <1>4
  <2> QED
    BY <1>1, <1>2, <1>4, <2>4, <2>5 DEF KeepsOrder
<1>5. CASE Done(latestResponse) /\ HandleAnswer(i, loop, latestResponse)
           /\ UNCHANGED <<requests, currentCall>>
  <2>1. latestResponse = server /\ loop.previousMetadata =< latestResponse.metadata
    BY <1>5
  <2>2. KeepsOrder(i) /\ loops'[i].previousMetadata =< latestResponse.metadata
    BY <1>1, <1>5, <2>1, HandleAnswerKeepsOrder
  <2> QED
    BY <1>5, <2>1, <2>2
<1>6. CASE /\ loops' = [loops EXCEPT ![i] = [loop EXCEPT !.step = "polling"]]
           /\ Send(i)
           /\ UNCHANGED immediates
  <2>1. /\ loops'[i] = [loop EXCEPT !.step = "polling"]
        /\ requests' = [requests EXCEPT ![i] = [step |-> "sent"]]
    BY <1>1, <1>6 DEF Send
  <2>2. loops'[i].step = "polling" /\ loops'[i].previousMetadata = loop.previousMetadata
    BY <2>1 DEF Loop
  <2> QED
    BY <1>6, <2>1, <2>2 DEF KeepsOrder
<1> QED
  BY <1>3, <1>4, <1>5, <1>6 DEF Retry

-----------------------------------------------------------------------------
Ordered ==
    /\ FinalKnown
    /\ PollsOwnTheirRpc
    /\ SeenIsPast
    /\ EventsBehind
    /\ InOrder(immediates, lastEmitted)

LEMMA DoneStays ==
    ASSUME TypeOK, [Next]_vars
    PROVE  Done(server) => server' = server
<1>1. CASE ServerProgresses
  BY <1>1 DEF ServerProgresses
<1>2. ASSUME NEW end \in Ends, ServerEnds(end) PROVE ~Done(server)
  BY <1>2 DEF ServerEnds
<1>3. ASSUME NEW u \in Listeners, Listen(u) \/ Unlisten(u) PROVE UNCHANGED server
  BY <1>3 DEF Listen, Unlisten
<1>4. ASSUME NEW i \in Loops, Wake(i) PROVE UNCHANGED server
  BY <1>4 DEF Wake
<1>5. ASSUME NEW g \in Getters, GetOperation(g) PROVE UNCHANGED server
  BY <1>5 DEF GetOperation
<1>6. ASSUME NEW c \in Callers, ServerAnswers(c) \/ Answered(c) \/ Rejected(c) \/ RpcLost(c)
      PROVE  UNCHANGED server
  BY <1>6 DEF ServerAnswers, Answered, Rejected, RpcLost
<1>7. Cancel \/ Emit \/ Tick \/ UNCHANGED vars => UNCHANGED server
  BY DEF Cancel, Emit, Tick, vars
<1> QED
  BY <1>1, <1>2, <1>3, <1>4, <1>5, <1>6, <1>7 DEF Next

(* What was final, and what was seen, stays so while no RPC is served.      *)
LEMMA FinalKept ==
    ASSUME TypeOK, FinalKnown, [Next]_vars,
           latestResponse' = latestResponse
             \/ \E c \in Callers : requests[c].step = "served" /\ latestResponse' = requests[c].answer,
           \A c \in Callers : requests'[c].step = "served" => requests'[c] = requests[c]
    PROVE  FinalKnown'
<1>1. ASSUME NEW op, Done(op) => op = server
      PROVE  Done(op) => op = server'
  BY <1>1, DoneStays
<1>2. Done(latestResponse)' => (latestResponse = server)'
  BY <1>1 DEF FinalKnown, Done
<1>3. ASSUME NEW c \in Callers, requests'[c].step = "served"
      PROVE  Done(requests'[c].answer) => requests'[c].answer = server'
  BY <1>1, <1>3 DEF FinalKnown
<1> QED
  BY <1>2, <1>3 DEF FinalKnown, Done

(* A turn of loop i in which it answers for itself.                         *)
LEMMA TurnKeepsOrder ==
    ASSUME TypeOK, TypeOK', Ordered, [Next]_vars, NEW i \in Loops, KeepsOrder(i),
           \A j \in Loops \ {i} : loops'[j] = loops[j] /\ requests'[j] = requests[j],
           loops'[i].previousMetadata =< server.metadata,
           UNCHANGED <<server, lastEmitted>>,
           FinalKnown', requests'[i].step # "served",
           requests'[i].step \in {"sent", "cancelled"} => loops'[i].step = "polling"
    PROVE  Ordered'
<1>1. PollsOwnTheirRpc'
  BY DEF Ordered, PollsOwnTheirRpc
<1>2. SeenIsPast'
  BY DEF Ordered, SeenIsPast, KeepsOrder
<1>3. ASSUME NEW j \in Loops, loops'[j].step \in {"idle", "polling", "sleeping"}
      PROVE  AtMost(immediates', lastEmitted', j, loops'[j].previousMetadata)
  <2>1. CASE j = i
    BY <1>3, <2>1 DEF KeepsOrder
  <2>2. CASE j # i
    <3>1. /\ loops'[j] = loops[j] /\ loops[j] \in Loop
          /\ AtMost(immediates, lastEmitted, j, loops[j].previousMetadata)
      BY <1>3, <2>2 DEF Ordered, EventsBehind, TypeOK
    <3>2. loops[j].previousMetadata \in Nat
      BY <3>1, LoopsType DEF Loop
    <3> QED
      BY <2>2, <3>1, <3>2 DEF KeepsOrder
  <2> QED
    BY <2>1, <2>2
<1>4. InOrder(immediates', lastEmitted')
  BY DEF KeepsOrder
<1> QED
  BY <1>1, <1>2, <1>3, <1>4 DEF Ordered, EventsBehind

(* A step that changes nothing of the loops or their events.                *)
LEMMA QuietKeepsOrder ==
    ASSUME TypeOK, TypeOK', Ordered, [Next]_vars,
           \A i \in Loops : /\ loops'[i].step = loops[i].step
                            /\ loops'[i].previousMetadata = loops[i].previousMetadata
                            /\ requests'[i].step \in {"sent", "cancelled", "served"} =>
                                  requests[i].step \in {"sent", "cancelled", "served"}
                            /\ requests'[i].step = "served" => requests'[i] = requests[i],
           UNCHANGED <<immediates, lastEmitted>>, FinalKnown'
    PROVE  Ordered'
<1>1. PollsOwnTheirRpc'
  BY DEF Ordered, PollsOwnTheirRpc
<1>2. SeenIsPast'
  <2> SUFFICES ASSUME NEW i \in Loops
               PROVE  /\ loops'[i].previousMetadata =< server'.metadata
                      /\ loops'[i].step = "idle" => loops'[i].previousMetadata = 0
                      /\ requests'[i].step = "served" =>
                            loops'[i].previousMetadata =< requests'[i].answer.metadata
    BY DEF SeenIsPast
  <2>1. loops[i].previousMetadata =< server.metadata /\ server.metadata =< server'.metadata
    BY ServerMoves DEF Ordered, SeenIsPast
  <2>2. loops[i].previousMetadata \in Nat /\ server.metadata \in Nat /\ server'.metadata \in Nat
    BY LoopsType DEF TypeOK, Loop, Snapshots
  <2>3. loops[i].previousMetadata =< server'.metadata
    BY <2>1, <2>2
  <2> QED
    BY <2>3 DEF Ordered, SeenIsPast
<1>3. EventsBehind'
  BY DEF Ordered, EventsBehind
<1> QED
  BY <1>1, <1>2, <1>3 DEF Ordered

LEMMA EmitKeepsOrder ==
    ASSUME TypeOK, TypeOK', Ordered, Emit
    PROVE  /\ InOrder(immediates', lastEmitted')
           /\ \A i \in Loops : \A k \in Nat :
                 AtMost(immediates, lastEmitted, i, k) => AtMost(immediates', lastEmitted', i, k)
<1> DEFINE N == Len(immediates)
           event == Head(immediates)
           rest == Tail(immediates)
<1>1. /\ N \in Nat \ {0} /\ DOMAIN immediates = 1 .. N /\ DOMAIN rest = 1 .. N - 1
      /\ event = immediates[1] /\ event \in Events
      /\ \A n \in 1 .. N - 1 : rest[n] = immediates[n + 1] /\ n + 1 \in 1 .. N
  BY DEF Emit, TypeOK
<1>2. \A n \in 1 .. N : immediates[n] \in Events
  BY DEF TypeOK
<1>3. /\ immediates' = rest
      /\ lastEmitted' = [lastEmitted EXCEPT ![event.loop] = Rank(event)]
      /\ lastEmitted \in [Loops -> 0 .. MaxMetadata + 1]
  BY DEF Emit, TypeOK
<1>4. event.loop \in Loops /\ Rank(event) \in Nat
  BY <1>1, RankType
<1>5. InOrder(immediates, lastEmitted)
  BY DEF Ordered
<1> HIDE DEF N, event, rest
<1>6. ASSUME NEW n \in 1 .. N - 1
      PROVE  /\ lastEmitted'[rest[n].loop] < Rank(rest[n])
             /\ \A m \in 1 .. n - 1 : rest[m].loop = rest[n].loop => Rank(rest[m]) < Rank(rest[n])
  <2>1. /\ n + 1 \in 1 .. N /\ rest[n] = immediates[n + 1]
        /\ immediates[n + 1].loop \in Loops
    BY <1>1, <1>2, RankType
  <2>2. /\ lastEmitted[rest[n].loop] < Rank(rest[n])
        /\ \A m \in 1 .. (n + 1) - 1 :
              immediates[m].loop = rest[n].loop => Rank(immediates[m]) < Rank(rest[n])
    BY <1>1, <1>5, <2>1 DEF InOrder
  <2>3. \A m \in 1 .. n - 1 : m + 1 \in 1 .. (n + 1) - 1 /\ rest[m] = immediates[m + 1]
    BY <1>1
  <2>4. 1 \in 1 .. (n + 1) - 1
    OBVIOUS
  <2>5. event.loop = rest[n].loop => Rank(event) < Rank(rest[n])
    BY <1>1, <2>2, <2>4
  <2>6. lastEmitted'[rest[n].loop] < Rank(rest[n])
    BY <1>3, <1>4, <2>1, <2>2, <2>5
  <2>7. \A m \in 1 .. n - 1 : rest[m].loop = rest[n].loop => Rank(rest[m]) < Rank(rest[n])
    BY <2>2, <2>3
  <2> QED
    BY <2>6, <2>7
<1>7. ASSUME NEW i \in Loops, NEW k \in Nat, AtMost(immediates, lastEmitted, i, k)
      PROVE  AtMost(rest, lastEmitted', i, k)
  <2>1. event.loop = i => Rank(event) =< k
    BY <1>1, <1>7 DEF AtMost
  <2>2. lastEmitted'[i] =< k
    BY <1>3, <1>4, <1>7, <2>1 DEF AtMost
  <2>3. \A n \in 1 .. N - 1 : rest[n].loop = i => Rank(rest[n]) =< k
    BY <1>1, <1>7 DEF AtMost
  <2> QED
    BY <1>1, <2>2, <2>3 DEF AtMost
<1> QED
  BY <1>1, <1>3, <1>6, <1>7 DEF InOrder

LEMMA TickKeepsSeen ==
    ASSUME TypeOK, Tick, NEW i \in Loops
    PROVE  loops'[i].step = loops[i].step /\ loops'[i].previousMetadata = loops[i].previousMetadata
<1>1. loops[i] \in Loop
  BY DEF TypeOK
<1>2. loops'[i] = IF ~Live(loops[i]) THEN loops[i]
                  ELSE [loops[i] EXCEPT !.wait = Max({@ - 1, 0}), !.left = Max({@ - 1, 0})]
  BY DEF Tick
<1> QED
  BY <1>1, <1>2 DEF Loop

LEMMA OrderedStep ==
    TypeOK /\ TypeOK' /\ Called /\ Informed /\ Ordered /\ [Next]_vars => Ordered'
<1> SUFFICES ASSUME TypeOK, TypeOK', Called, Informed, Ordered, [Next]_vars PROVE Ordered'
  OBVIOUS
<1>0. /\ requests \in [Callers -> Requests] /\ loops \in [Loops -> Loop]
      /\ \A i \in Loops : i \in Callers
      /\ FinalKnown /\ InOrder(immediates, lastEmitted)
  BY DEF Ordered, Callers, TypeOK
<1>1. ASSUME NEW i \in Loops, NEW loop \in Loop, NEW active \in BOOLEAN, Retry(i, loop, active),
             loop.previousMetadata =< server.metadata,
             AtMost(immediates, lastEmitted, i, loop.previousMetadata),
             loops[i].step # "polling", UNCHANGED <<server, latestResponse, lastEmitted>>
      PROVE  Ordered'
  <2>1. /\ KeepsOrder(i) /\ loops'[i].previousMetadata =< server.metadata
        /\ \/ requests' = requests
           \/ /\ requests' = [requests EXCEPT ![i] = [step |-> "sent"]]
              /\ loops'[i].step = "polling"
    BY <1>0, <1>1, RetryKeepsOrder DEF FinalKnown
  <2>2. \A j \in Loops \ {i} : loops'[j] = loops[j]
    BY <1>1, RetryCases
  <2>3. requests[i].step \notin {"sent", "cancelled", "served"}
    BY <1>1 DEF Ordered, PollsOwnTheirRpc
  <2>4. \A c \in Callers : requests'[c].step = "served" => requests'[c] = requests[c]
    BY <1>0, <2>1
  <2>5. FinalKnown'
    BY <1>0, <1>1, <2>4, FinalKept
  <2>6. /\ \A j \in Loops \ {i} : requests'[j] = requests[j]
        /\ requests'[i].step # "served"
        /\ requests'[i].step \in {"sent", "cancelled"} => loops'[i].step = "polling"
    BY <1>0, <2>1, <2>3
  <2> QED
    BY <1>1, <2>1, <2>2, <2>5, <2>6, TurnKeepsOrder
<1>2. ASSUME \A i \in Loops : /\ loops'[i].step = loops[i].step
                              /\ loops'[i].previousMetadata = loops[i].previousMetadata,
             \A c \in Callers : /\ requests'[c].step \in {"sent", "cancelled", "served"} =>
                                      c \in Getters \/ requests[c].step \in {"sent", "cancelled", "served"}
                                /\ requests'[c].step = "served" => requests'[c] = requests[c],
             UNCHANGED <<immediates, lastEmitted>>,
             latestResponse' = latestResponse
               \/ \E c \in Callers : requests[c].step = "served" /\ latestResponse' = requests[c].answer
      PROVE  Ordered'
  <2>1. FinalKnown'
    BY <1>0, <1>2, FinalKept
  <2>2. \A i \in Loops : i \notin Getters
    BY CallersAssumption
  <2> QED
    BY <1>0, <1>2, <2>1, <2>2, QuietKeepsOrder
<1>3. ASSUME NEW u \in Listeners, Listen(u) PROVE Ordered'
  <2>1. CASE hasActiveListeners
    BY <1>2, <1>3, <2>1 DEF Listen, polls
  <2>2. CASE ~hasActiveListeners
    <3> DEFINE started == [step |-> "polling", delay |-> InitialDelay, left |-> TotalTimeout,
                           wait |-> 0, previousMetadata |-> latestResponse.metadata]
    <3>1. started \in Loop /\ started.previousMetadata = latestResponse.metadata
      BY StartedType
    <3>2. PICK i \in Loops : loops[i].step = "idle" /\ Retry(i, started, TRUE)
      BY <1>3, <2>2 DEF Listen
    <3> HIDE DEF started
    <3>3. UNCHANGED <<server, latestResponse, lastEmitted>>
      BY <1>3 DEF Listen
    <3>4. loops[i].previousMetadata = 0 /\ AtMost(immediates, lastEmitted, i, 0)
      BY <3>2 DEF Ordered, SeenIsPast, EventsBehind
    <3>5. latestResponse.metadata \in Nat
      BY LoopsType DEF TypeOK, Snapshots
    <3>6. AtMost(immediates, lastEmitted, i, latestResponse.metadata)
      <4>1. \A n \in DOMAIN immediates : immediates[n] \in Events
        BY DEF TypeOK
      <4>2. \A n \in DOMAIN immediates : Rank(immediates[n]) \in Nat
        BY <4>1, RankType
      <4>3. lastEmitted[i] \in Nat
        BY LoopsType DEF TypeOK
      <4> QED
        BY <3>4, <3>5, <4>2, <4>3 DEF AtMost
    <3>7. latestResponse.metadata =< server.metadata
      BY DEF Informed, TrueOn
    <3> QED
      BY <1>1, <3>1, <3>2, <3>3, <3>6, <3>7
  <2> QED
    BY <2>1, <2>2
<1>4. ASSUME NEW u \in Listeners, Unlisten(u) PROVE Ordered'
  BY <1>2, <1>4 DEF Unlisten, polls, events
<1>5. ASSUME NEW i \in Loops, Wake(i) PROVE Ordered'
  <2> DEFINE woken == [loops[i] EXCEPT !.delay = Min({@ * DelayMultiplier, MaxDelay})]
  <2>1. woken \in Loop /\ woken.previousMetadata = loops[i].previousMetadata
    <3>1. loops[i] \in Loop
      BY <1>0
    <3> QED
      BY <3>1, WokenType DEF Loop
  <2>2. /\ Retry(i, woken, hasActiveListeners) /\ loops[i].step = "sleeping"
        /\ UNCHANGED <<server, latestResponse, lastEmitted>>
    BY <1>5 DEF Wake
  <2> HIDE DEF woken
  <2>3. loops[i].previousMetadata =< server.metadata
        /\ AtMost(immediates, lastEmitted, i, loops[i].previousMetadata)
    BY <2>2 DEF Ordered, SeenIsPast, EventsBehind
  <2>4. hasActiveListeners \in BOOLEAN
    BY DEF TypeOK
  <2> QED
    BY <1>1, <2>1, <2>2, <2>3, <2>4
<1>6. ASSUME NEW g \in Getters, GetOperation(g) PROVE Ordered'
  <2>1. requests' = [requests EXCEPT ![g] = [step |-> "sent"]] /\ g \in Callers
    BY <1>6 DEF GetOperation, Send, Callers
  <2>2. UNCHANGED <<latestResponse, loops, immediates, lastEmitted>>
    BY <1>6 DEF GetOperation, events
  <2> QED
    BY <1>0, <1>2, <2>1, <2>2
<1>7. ASSUME NEW c \in Callers, ServerAnswers(c) PROVE Ordered'
  <2>1. /\ requests' = [requests EXCEPT ![c] = [step |-> "served", answer |-> server]]
        /\ requests[c].step = "sent"
        /\ UNCHANGED <<server, latestResponse, loops, immediates, lastEmitted>>
    BY <1>7 DEF ServerAnswers, events
  <2>2. requests'[c].step = "served" /\ requests'[c].answer = server
        /\ \A d \in Callers \ {c} : requests'[d] = requests[d]
    BY <1>0, <2>1
  <2>3. FinalKnown'
    BY <1>0, <2>1, <2>2 DEF FinalKnown
  <2>4. PollsOwnTheirRpc'
    BY <1>0, <2>1, <2>2 DEF Ordered, PollsOwnTheirRpc
  <2>5. SeenIsPast'
    BY <1>0, <2>1, <2>2 DEF Ordered, SeenIsPast
  <2> QED
    BY <2>1, <2>3, <2>4, <2>5 DEF Ordered, EventsBehind
<1>8. ASSUME NEW c \in Callers, Answered(c) PROVE Ordered'
  <2>1. /\ requests[c].step = "served" /\ latestResponse' = requests[c].answer
        /\ latestResponse' \in Snapshots
        /\ requests' = [requests EXCEPT ![c] = [step |-> "over"]]
        /\ UNCHANGED <<server, lastEmitted>>
        /\ \A j \in Loops : j # c => loops'[j] = loops[j]
    BY <1>8, AnsweredCases
  <2>2. requests'[c].step = "over" /\ \A d \in Callers \ {c} : requests'[d] = requests[d]
    BY <1>0, <2>1
  <2>3. FinalKnown'
    BY <1>0, <2>1, <2>2, FinalKept
  <2>4. CASE c \in Loops
    <3>1. HandleAnswer(c, loops[c], requests[c].answer)
      BY <1>8, <2>4, CallersAssumption DEF Answered
    <3>2. loops[c].step = "polling" /\ loops[c] \in Loop
      BY <1>0, <2>1, <2>4 DEF Ordered, PollsOwnTheirRpc
    <3>3. /\ loops[c].previousMetadata =< requests[c].answer.metadata
          /\ AtMost(immediates, lastEmitted, c, loops[c].previousMetadata)
      BY <2>1, <2>4, <3>2 DEF Ordered, SeenIsPast, EventsBehind
    <3>4. KeepsOrder(c) /\ loops'[c].previousMetadata =< requests[c].answer.metadata
      BY <1>0, <2>1, <2>4, <3>1, <3>2, <3>3, HandleAnswerKeepsOrder
    <3>5. loops'[c].previousMetadata =< server.metadata
      <4>1. requests[c].answer.metadata =< server.metadata
        BY <2>1 DEF Informed, TrueOn
      <4>2. /\ requests[c].answer.metadata \in Nat /\ server.metadata \in Nat
            /\ loops'[c].previousMetadata \in Nat
        <5>1. requests[c].answer \in Snapshots /\ server \in Snapshots /\ loops'[c] \in Loop
          BY <2>1, <2>4 DEF TypeOK
        <5>2. \A n \in 0 .. MaxMetadata : n \in Nat
          BY LoopsType
        <5> QED
          BY <5>1, <5>2 DEF Snapshots, Loop
      <4> QED
        BY <3>4, <4>1, <4>2
    <3> QED
      BY <1>0, <2>1, <2>2, <2>3, <2>4, <3>4, <3>5, TurnKeepsOrder
  <2>5. CASE c \notin Loops
    <3>1. UNCHANGED <<loops, immediates>>
      BY <1>8, <2>5 DEF Answered
    <3> QED
      BY <1>2, <2>1, <2>2, <3>1
  <2> QED
    BY <2>4, <2>5
<1>9. ASSUME NEW c \in Callers, Rejected(c) PROVE Ordered'
  <2>1. /\ requests' = [requests EXCEPT ![c] = [step |-> "over"]]
        /\ UNCHANGED <<server, latestResponse, immediates, lastEmitted>>
        /\ \A j \in Loops : j # c => loops'[j] = loops[j]
    BY <1>9, RejectedCases DEF events
  <2>2. requests'[c].step = "over" /\ \A d \in Callers \ {c} : requests'[d] = requests[d]
    BY <1>0, <2>1
  <2>3. FinalKnown'
    BY <1>0, <2>1, <2>2, FinalKept
  <2>4. CASE c \in Loops
    <3>1. loops'[c] = Over(loops[c], "lost")
      BY <1>0, <1>9, <2>4 DEF Rejected
    <3>2. loops'[c].step = "lost" /\ loops'[c].previousMetadata = 0
      BY <3>1 DEF Over, IdleLoop
    <3>3. KeepsOrder(c)
      BY <1>0, <2>1, <3>2 DEF KeepsOrder
    <3>4. 0 =< server.metadata
      BY LoopsType DEF TypeOK, Snapshots
    <3> QED
      BY <1>0, <2>1, <2>2, <2>3, <2>4, <3>2, <3>3, <3>4, TurnKeepsOrder
  <2>5. CASE c \notin Loops
    BY <1>2, <2>1, <2>2, <2>5
  <2> QED
    BY <2>4, <2>5
<1>10. CASE Cancel
  <2>1. /\ requests' = [requests EXCEPT ![currentCall] = [step |-> "cancelled"]]
        /\ UNCHANGED <<latestResponse, loops, immediates, lastEmitted>>
    BY <1>10 DEF Cancel, events
  <2>2. currentCall \in Callers /\ requests[currentCall].step \in {"sent", "cancelled", "served"}
    BY <1>10 DEF Cancel, Called, TypeOK
  <2> QED
    BY <1>0, <1>2, <2>1, <2>2
<1>11. CASE Emit
  <2>1. UNCHANGED <<server, latestResponse, loops, requests>>
    BY <1>11 DEF Emit, polls
  <2>2. FinalKnown' /\ PollsOwnTheirRpc' /\ SeenIsPast'
    BY <2>1 DEF Ordered, FinalKnown, PollsOwnTheirRpc, SeenIsPast
  <2>3. EventsBehind'
    <3>1. ASSUME NEW i \in Loops, loops[i].step \in {"idle", "polling", "sleeping"}
          PROVE  AtMost(immediates', lastEmitted', i, loops[i].previousMetadata)
      <4>1. loops[i].previousMetadata \in Nat
        BY <1>0, LoopsType DEF Loop
      <4> QED
        BY <1>11, <3>1, <4>1, EmitKeepsOrder DEF Ordered, EventsBehind
    <3> QED
      BY <2>1, <3>1 DEF EventsBehind
  <2> QED
    BY <1>11, <2>2, <2>3, EmitKeepsOrder DEF Ordered
<1>12. CASE ServerProgresses \/ UNCHANGED vars
  BY <1>2, <1>12 DEF ServerProgresses, vars, polls, events
<1>13. ASSUME NEW end \in Ends, ServerEnds(end) PROVE Ordered'
  BY <1>2, <1>13 DEF ServerEnds, polls, events
<1>14. CASE Tick
  BY <1>2, <1>14, TickKeepsSeen DEF Tick, events
<1>15. ASSUME NEW c \in Callers, RpcLost(c) PROVE Ordered'
  <2>1. /\ requests' = [requests EXCEPT ![c] = [step |-> "lost"]]
        /\ requests[c].step \in {"sent", "cancelled"}
        /\ UNCHANGED <<latestResponse, loops, immediates, lastEmitted>>
    BY <1>15, LostCases DEF events
  <2> QED
    BY <1>0, <1>2, <2>1
<1> QED
  BY <1>3, <1>4, <1>5, <1>6, <1>7, <1>8, <1>9, <1>10, <1>11, <1>12, <1>13, <1>14, <1>15 DEF Next

LEMMA OrderedInit == Init => Ordered
<1> SUFFICES ASSUME Init PROVE Ordered
  OBVIOUS
<1>1. /\ server.metadata = 0 /\ latestResponse = server /\ immediates = <<>>
      /\ \A c \in Callers : requests[c].step = "none"
      /\ \A i \in Loops : loops[i] = IdleLoop /\ lastEmitted[i] = 0
  BY DEF Init
<1>2. \A i \in Loops : i \in Callers /\ loops[i].previousMetadata = 0
  BY <1>1 DEF Callers, IdleLoop
<1>3. FinalKnown /\ PollsOwnTheirRpc
  BY <1>1, <1>2 DEF FinalKnown, PollsOwnTheirRpc
<1>4. SeenIsPast
  BY <1>1, <1>2 DEF SeenIsPast
<1>5. EventsBehind
  BY <1>1, <1>2 DEF EventsBehind, AtMost
<1>6. InOrder(immediates, lastEmitted)
  BY <1>1 DEF InOrder
<1> QED
  BY <1>3, <1>4, <1>5, <1>6 DEF Ordered

(* The events that a polling loop gives to setImmediate come in the order   *)
(* of the metadata they tell of, the end is the last of them, and none      *)
(* comes behind one that has been emitted, whichever answers overtake       *)
(* which and whoever else polls, cancels or stops listening.                *)
THEOREM LoopsReportInOrder == Spec => []LoopEventsInOrder
<1>1. TypeOK /\ TypeOK' /\ Counted /\ Called /\ Started /\ LatestLoopServesListeners
        /\ Informed /\ EventsTrue /\ Ordered /\ [Next]_vars
          => Called' /\ Started' /\ LatestLoopServesListeners' /\ Informed' /\ EventsTrue'
             /\ Ordered'
  BY CalledStep, ServedStep, TruthStep, OrderedStep
<1>2. Init => Called /\ Started /\ LatestLoopServesListeners
  BY StartedInit DEF Init, Called, LatestLoopServesListeners
<1>3. Ordered => LoopEventsInOrder
  BY DEF Ordered, InOrder, LoopEventsInOrder
<1> QED
  BY <1>1, <1>2, <1>3, TruthInit, OrderedInit, Invariant, PTL DEF Spec

=============================================================================
