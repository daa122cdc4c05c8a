---------------------------- MODULE ApiCall_proofs ----------------------------
(***************************************************************************)
(* Theorems about ApiCall, for every setting a call can be made with, every *)
(* backoff, any number of pages and any error codes.                        *)
(***************************************************************************)
EXTENDS ApiCall, TLAPS

-----------------------------------------------------------------------------
(* The least and the greatest of a few numbers.                             *)

MaxOf(a, b) == IF a >= b THEN a ELSE b

LEMMA MaxOfTwo ==
    ASSUME NEW a \in Int, NEW b \in Int PROVE Max({a, b}) = MaxOf(a, b)
<1>1. MaxOf(a, b) \in {a, b} /\ \A y \in {a, b} : MaxOf(a, b) >= y
  BY DEF MaxOf
<1>2. \A x \in {a, b} : (\A y \in {a, b} : x >= y) => x = MaxOf(a, b)
  BY DEF MaxOf
<1> QED
  BY <1>1, <1>2 DEF Max

LEMMA MinOfTwo ==
    ASSUME NEW a \in Int, NEW b \in Int
    PROVE  Min({a, b}) \in {a, b} /\ Min({a, b}) =< a /\ Min({a, b}) =< b
<1>1. \E x \in {a, b} : \A y \in {a, b} : x =< y
  OBVIOUS
<1> QED
  BY <1>1 DEF Min

LEMMA MinOfThree ==
    ASSUME NEW a \in Int, NEW b \in Int, NEW c \in Int
    PROVE  /\ Min({a, b, c}) \in {a, b, c}
           /\ Min({a, b, c}) =< a /\ Min({a, b, c}) =< b /\ Min({a, b, c}) =< c
<1>1. \E x \in {a, b, c} : \A y \in {a, b, c} : x =< y
  OBVIOUS
<1> QED
  BY <1>1 DEF Min

LEMMA MaxOfThree ==
    ASSUME NEW a \in Int, NEW b \in Int, NEW c \in Int
    PROVE  Max({a, b, c}) = MaxOf(a, MaxOf(b, c))
<1> DEFINE m == MaxOf(a, MaxOf(b, c))
<1>1. m \in {a, b, c} /\ \A y \in {a, b, c} : m >= y
  BY DEF MaxOf
<1>2. \A x \in {a, b, c} : (\A y \in {a, b, c} : x >= y) => x = m
  BY DEF MaxOf
<1> HIDE DEF m
<1>3. Max({a, b, c}) = m
  BY <1>1, <1>2 DEF Max
<1> QED
  BY <1>3 DEF m

LEMMA ProductPositive ==
    ASSUME NEW a \in Nat \ {0}, NEW b \in Nat \ {0} PROVE a * b \in Nat \ {0}
  BY SMT

LEMMA ProductNatural ==
    ASSUME NEW a \in Nat, NEW b \in Nat PROVE a * b \in Nat
  BY SMT

-----------------------------------------------------------------------------
(* What the actions have in common: the loop ends, an attempt is started,   *)
(* or the transport goes on with one.                                       *)

Steps == {"none", "grpc", "auth", "fetch", "body", "answered", "lost"}

Rpcs == [step : Steps, deadline : Int, cancelled : BOOLEAN, answer : Outcomes \cup {"none"}]

Ended ==
    /\ phase' = "finished" /\ rpc' = NoRpc
    /\ \E outcome \in Outcomes : queue' = Append(queue, outcome)
    /\ completed' \in BOOLEAN
    /\ completed => completed'
    /\ Paged => completed' = completed
    /\ retries' \in {retries, retries + 1}

(* The attempt of a closed client is lost at once if nobody looks at it.    *)
Attempted(d, t) ==
    /\ phase' = "calling" /\ rpc' \in Rpcs
    /\ rpc'.step \in {"grpc", "auth", "lost"}
    /\ ~rpc'.cancelled
    /\ \/ rpc'.step # "lost" /\ rpc'.deadline = now + t
       \/ rpc'.step = "lost" /\ settings.retryCodes = {} /\ Paged
    /\ settings.transport = "grpc" => rpc'.step \in {"grpc", "lost"}
    /\ settings.transport # "grpc" => rpc'.step # "grpc"
    /\ ~Expired(d)
    /\ UNCHANGED <<queue, completed>>
    /\ retries' = retries + 1

LEMMA SettingsType ==
    ASSUME TypeOK
    PROVE  /\ settings.pages \in Nat /\ settings.totalTimeout \in Nat
           /\ settings.maxRetries \in Int
           /\ settings.retryCodes \subseteq Codes \cup {"DEADLINE_EXCEEDED", "CANCELLED"}
           /\ settings.transport \in {"grpc", "fallback"}
           /\ settings.style \in {"callback", "promise"}
           /\ settings.timeoutMultiplier \in Nat /\ settings.maxTimeout \in Nat
           /\ Paged \in BOOLEAN
  BY SettingsAssumption DEF TypeOK, TypeOfSettings, Unset, Paged

LEMMA NoRpcType == NoRpc \in Rpcs
  BY DEF NoRpc, Rpcs, Steps

(* The record of a new attempt.                                             *)
LEMMA NewRpc ==
    ASSUME NEW s \in Steps, NEW d \in Int
    PROVE  /\ [NoRpc EXCEPT !.step = s, !.deadline = d] \in Rpcs
           /\ [NoRpc EXCEPT !.step = s, !.deadline = d].step = s
           /\ [NoRpc EXCEPT !.step = s, !.deadline = d].deadline = d
           /\ [NoRpc EXCEPT !.step = s, !.deadline = d].cancelled = FALSE
           /\ [NoRpc EXCEPT !.step = s] \in Rpcs
           /\ [NoRpc EXCEPT !.step = s].step = s
           /\ [NoRpc EXCEPT !.step = s].cancelled = FALSE
<1>1. NoRpc.cancelled = FALSE
  BY DEF NoRpc
<1> QED
  BY <1>1, NoRpcType DEF Rpcs

LEMMA FinishEnds ==
    ASSUME TypeOK, NEW outcome \in Outcomes, Finish(outcome), rpc' = NoRpc,
           retries' \in {retries, retries + 1}
    PROVE  Ended
  BY SettingsType DEF Finish, Ended, TypeOK

LEMMA RepeatCases ==
    ASSUME TypeOK, rpc = NoRpc, NEW d \in Int, NEW t \in Int, Repeat(d, t)
    PROVE  Ended \/ Attempted(d, t)
<1>1. CASE /\ Finish("DEADLINE_EXCEEDED")
           /\ UNCHANGED <<rpc, retries>>
  BY <1>1, FinishEnds DEF Outcomes
<1>2. CASE Send(t) /\ ~Expired(d)
  <2>1. CASE terminated
    <3>1. SendClosed
      BY <1>2, <2>1 DEF Send
    <3>2. CASE Finish("CLOSED") /\ rpc' = NoRpc
      BY <3>1, <3>2, FinishEnds DEF SendClosed, Outcomes
    <3>3. CASE /\ ~Paged /\ phase' = "finished" /\ queue' = Append(queue, "CLOSED")
               /\ rpc' = NoRpc /\ UNCHANGED completed
      BY <3>1, <3>3 DEF SendClosed, Ended, Outcomes, TypeOK
    <3>4. CASE /\ settings.retryCodes = {} /\ Paged /\ phase' = "calling"
               /\ rpc' = [NoRpc EXCEPT !.step = "lost"] /\ UNCHANGED <<completed, queue>>
      <4>1. rpc' \in Rpcs /\ rpc'.step = "lost" /\ ~rpc'.cancelled
        BY <3>4, NewRpc DEF Steps
      <4> QED
        BY <1>2, <3>1, <3>4, <4>1 DEF SendClosed, Attempted
    <3> QED
      BY <3>1, <3>2, <3>3, <3>4 DEF SendClosed
  <2>2. CASE ~terminated
    <3>1. SendOpen(t)
      BY <1>2, <2>2 DEF Send
    <3>2. /\ rpc' \in Rpcs /\ rpc'.deadline = now + t /\ ~rpc'.cancelled
          /\ rpc'.step = IF settings.transport = "grpc" THEN "grpc" ELSE "auth"
      <4>1. now + t \in Int
        BY DEF TypeOK
      <4> DEFINE s == IF settings.transport = "grpc" THEN "grpc" ELSE "auth"
      <4>2. rpc' = [NoRpc EXCEPT !.step = s, !.deadline = now + t] /\ s \in Steps
        BY <3>1 DEF SendOpen, Steps
      <4> DEFINE d2 == now + t
                 r == [NoRpc EXCEPT !.step = s, !.deadline = d2]
      <4> HIDE DEF s, d2
      <4>3. s \in Steps /\ d2 \in Int
        BY <4>1, <4>2 DEF d2
      <4>4. r \in Rpcs /\ r.step = s /\ r.deadline = d2 /\ r.cancelled = FALSE
        BY ONLY <4>3, NewRpc
      <4>5. rpc' = r
        BY <4>2 DEF d2
      <4> HIDE DEF r
      <4> QED
        BY <4>4, <4>5 DEF s, d2
    <3> QED
      BY <1>2, <3>1, <3>2 DEF SendOpen, Attempted
  <2> QED
    BY <2>1, <2>2
<1> QED
  BY <1>1, <1>2 DEF Repeat

LEMMA InvokeCases ==
    ASSUME TypeOK, rpc = NoRpc, Invoke
    PROVE  /\ Ended \/ Attempted(deadline', timeout)
           /\ deadline' = IF settings.totalTimeout > 0 /\ settings.retryCodes # {}
                          THEN now + settings.totalTimeout ELSE 0
           /\ cancelFunc' = ~Paged /\ callbacks' = callbacks
<1>1. /\ deadline' = IF settings.totalTimeout > 0 /\ settings.retryCodes # {}
                      THEN now + settings.totalTimeout ELSE 0
      /\ cancelFunc' = ~Paged /\ callbacks' = callbacks
      /\ \/ Finish("INVALID_ARGUMENT") /\ UNCHANGED <<rpc, retries>>
         \/ Repeat(deadline', timeout)
  BY DEF Invoke
<1>2. deadline' \in Int /\ timeout \in Int
  BY <1>1, SettingsType DEF TypeOK
<1>3. CASE Finish("INVALID_ARGUMENT") /\ UNCHANGED <<rpc, retries>>
  BY <1>1, <1>3, FinishEnds DEF Outcomes
<1>4. CASE Repeat(deadline', timeout)
  BY <1>1, <1>2, <1>4, RepeatCases
<1> QED
  BY <1>1, <1>3, <1>4

(* The transport decides the answer, gets one step further, or loses it.    *)
LEMMA TransportCases ==
    ASSUME TypeOK, Grpc \/ Fallback
    PROVE  /\ rpc' \in Rpcs
           /\ rpc.step \in {"grpc", "auth", "fetch", "body"}
           /\ rpc'.step \in {"fetch", "body", "answered", "lost"}
           /\ rpc.step = "grpc" => rpc'.step = "answered"
           /\ rpc.step # "grpc" => rpc'.step # "grpc"
           /\ rpc'.deadline = rpc.deadline /\ rpc'.cancelled = rpc.cancelled
           /\ rpc'.step = "answered" => /\ rpc'.answer \in Outcomes
                                        /\ rpc.cancelled => rpc'.answer = "CANCELLED"
           /\ UNCHANGED <<settings, now, terminated, phase, delay, timeout, deadline,
                          retries, wake, page, ongoing, history>>
<1>1. rpc \in Rpcs
  BY DEF TypeOK, Rpcs, Steps
<1>2. ASSUME NEW outcome \in Outcomes, GrpcDecides(outcome)
      PROVE  /\ rpc.step = "grpc" /\ rpc.cancelled => outcome = "CANCELLED"
             /\ Settled(outcome)
  BY <1>2 DEF GrpcDecides
<1>3. ASSUME NEW outcome \in Outcomes, Settled(outcome)
      PROVE  /\ rpc' \in Rpcs /\ rpc'.step = "answered" /\ rpc'.answer = outcome
             /\ rpc'.deadline = rpc.deadline /\ rpc'.cancelled = rpc.cancelled
  BY <1>1, <1>3 DEF Settled, Rpcs, Steps
<1>4. ASSUME NEW s \in Steps, rpc' = [rpc EXCEPT !.step = s]
      PROVE  /\ rpc' \in Rpcs /\ rpc'.step = s
             /\ rpc'.deadline = rpc.deadline /\ rpc'.cancelled = rpc.cancelled
  BY <1>1, <1>4 DEF Rpcs
<1>5. CASE Grpc
  BY <1>2, <1>3, <1>5 DEF Grpc, GrpcDecides
<1>6. CASE FallbackAdvances("auth", "fetch") \/ FallbackAdvances("fetch", "body")
  BY <1>4, <1>6 DEF FallbackAdvances, Steps
<1>7. ASSUME NEW outcome \in Codes \cup {"response", "BODY_FAILED"}, FallbackDecodes(outcome)
      PROVE  /\ rpc.step = "body" /\ ~rpc.cancelled /\ outcome \in Outcomes
             /\ Settled(outcome)
  BY <1>7 DEF FallbackDecodes, Outcomes
<1>8. CASE \E outcome \in Codes \cup {"response", "BODY_FAILED"} : FallbackDecodes(outcome)
  BY <1>3, <1>7, <1>8 DEF FallbackDecodes
<1>9. CASE FallbackLost
  BY <1>4, <1>9 DEF FallbackLost, Steps
<1> QED
  BY <1>5, <1>6, <1>8, <1>9 DEF Fallback

(* The invariants below are inductive together, in the order given.         *)

-----------------------------------------------------------------------------
(* Where the call is.  An attempt is under way in exactly one phase; a page *)
(* is asked for only while there are pages left; before the call and before *)
(* every page no attempt has been counted.                                  *)
Shape ==
    /\ phase = "calling" <=> rpc.step # "none"
    /\ phase # "calling" => rpc = NoRpc
    /\ rpc.step = "answered" => rpc.answer \in Outcomes
    /\ phase \in {"paging", "crashed"} => Paged
    /\ phase = "paging" => page < settings.pages
    /\ phase \in {"created", "paging"} => retries = 0 /\ ~cancelFunc
    /\ phase = "created" => page = 0
    /\ phase \in {"calling", "sleeping"} => cancelFunc = ~Paged
    /\ cancelFunc => ~Paged
    /\ phase # "finished" => queue = <<>>

Sound == TypeOK /\ Shape

LEMMA SoundInit == Init => Sound
<1> SUFFICES ASSUME Init PROVE Sound
  OBVIOUS
<1>1. rpc \in Rpcs
  BY NoRpcType DEF Init
<1>2. settings \in Settings /\ settings.pages \in Nat
  BY SettingsAssumption DEF Init, TypeOfSettings
<1>3. delay \in Nat /\ timeout \in Int
  BY BackoffAssumption DEF Init
<1>4. queue \in Seq(Outcomes) /\ callbacks \in Seq(Outcomes)
  BY DEF Init
<1>5. TypeOK
  <2>1. page \in 0 .. settings.pages /\ phase \in Phases /\ cancelledIn \in Phases \cup {"none"}
    BY <1>2 DEF Init, Phases
  <2>2. /\ now = 1 /\ deadline = 0 /\ retries = 0 /\ wake = 0 /\ attempts = 0
        /\ terminated = FALSE /\ completed = FALSE /\ cancelFunc = FALSE
    BY DEF Init
  <2> QED
    BY <1>1, <1>2, <1>3, <1>4, <2>1, <2>2 DEF TypeOK, Rpcs, Steps
<1>6. Shape
  BY DEF Init, Shape, NoRpc
<1> QED
  BY <1>5, <1>6 DEF Sound

(* A reported outcome, an attempt or an end have their types.               *)
LEMMA AppendOutcome ==
    ASSUME NEW s \in Seq(Outcomes), NEW outcome \in Outcomes
    PROVE  Append(s, outcome) \in Seq(Outcomes)
  OBVIOUS

LEMMA CasesType ==
    ASSUME TypeOK, NEW d, NEW t, Ended \/ Attempted(d, t)
    PROVE  /\ rpc' \in Rpcs /\ phase' \in Phases /\ queue' \in Seq(Outcomes)
           /\ completed' \in BOOLEAN /\ retries' \in Nat
<1>1. CASE Ended
  <2>1. queue' \in Seq(Outcomes)
    BY <1>1, AppendOutcome DEF Ended, TypeOK
  <2> QED
    BY <1>1, <2>1, NoRpcType DEF Ended, TypeOK, Phases
<1>2. CASE Attempted(d, t)
  BY <1>2 DEF Attempted, TypeOK, Phases
<1> QED
  BY <1>1, <1>2

(* The types, when the retry loop is invoked, and what it leaves alone.     *)
LEMMA InvokeSound ==
    ASSUME Sound, phase \in {"created", "paging"}, Invoke,
           UNCHANGED <<settings, now, terminated, delay, timeout, wake, history>>,
           page' \in 0 .. settings.pages
    PROVE  Sound'
<1>1. TypeOK /\ Shape /\ rpc = NoRpc
  BY DEF Sound, Shape
<1>2. /\ Ended \/ Attempted(deadline', timeout)
      /\ deadline' \in Nat /\ cancelFunc' = ~Paged /\ callbacks' = callbacks
  BY <1>1, InvokeCases, SettingsType DEF TypeOK
<1>3. rpc' \in Rpcs /\ phase' \in Phases /\ queue' \in Seq(Outcomes)
      /\ completed' \in BOOLEAN /\ retries' \in Nat
  BY <1>1, <1>2, CasesType
<1>4. TypeOK'
  BY <1>1, <1>2, <1>3 DEF TypeOK, Rpcs, Steps, Paged, history
<1>5. Shape'
  <2>1. CASE Ended
    BY <1>1, <1>2, <2>1 DEF Ended, Shape, NoRpc, Paged
  <2>2. CASE Attempted(deadline', timeout)
    BY <1>1, <1>2, <2>2 DEF Attempted, Shape, Paged
  <2> QED
    BY <1>2, <2>1, <2>2
<1> QED
  BY <1>4, <1>5 DEF Sound

LEMMA SoundStep == Sound /\ [Next]_vars => Sound'
<1> SUFFICES ASSUME Sound, [Next]_vars PROVE Sound'
  OBVIOUS
<1>0. TypeOK /\ Shape
  BY DEF Sound
<1>1. ASSUME Start PROVE Sound'
  <2>1. CASE Invoke /\ UNCHANGED page
    BY <1>0, <1>1, <2>1, InvokeSound DEF Start, TypeOK
  <2>2. CASE ~Invoke
    <3>1. /\ UNCHANGED <<settings, now, rpc, delay, timeout, deadline, retries, wake, page,
                         terminated, completed, cancelFunc, queue, history>>
          /\ callbacks' \in {callbacks, Append(callbacks, "STUB_FAILED")}
          /\ phase' \in {"finished", "paging"} /\ (phase' = "paging" => Paged)
          /\ phase = "created"
      BY <1>1, <2>2 DEF Start, ongoing
    <3>2. TypeOK'
      <4>1. callbacks' \in Seq(Outcomes)
        BY <1>0, <3>1, AppendOutcome DEF TypeOK, Outcomes
      <4> QED
        BY <1>0, <3>1, <4>1 DEF TypeOK, history, Phases
    <3>3. Shape'
      BY <1>0, <3>1, SettingsType DEF Shape, Paged, NoRpc
    <3> QED
      BY <3>2, <3>3 DEF Sound
  <2> QED
    BY <1>1, <2>1, <2>2 DEF Start
<1>2. ASSUME StubFails PROVE Sound'
  <2>1. TypeOK'
    BY <1>0, <1>2 DEF TypeOK, StubFails, history, Outcomes, Phases
  <2>2. Shape'
    BY <1>0, <1>2 DEF Shape, StubFails, Paged, NoRpc
  <2> QED
    BY <2>1, <2>2 DEF Sound
<1>3. ASSUME NextPage PROVE Sound'
  <2>1. page' \in 0 .. settings.pages /\ phase = "paging"
    BY <1>0, <1>3, SettingsType DEF NextPage, Shape, TypeOK
  <2>2. CASE Invoke
    BY <1>3, <2>1, <2>2, InvokeSound DEF NextPage
  <2>3. CASE phase' = "crashed" /\ UNCHANGED <<rpc, deadline, retries, ongoing>>
    <3>1. TypeOK'
      BY <1>0, <1>3, <2>1, <2>3 DEF TypeOK, NextPage, history, ongoing, Phases
    <3>2. Shape'
      BY <1>0, <1>3, <2>1, <2>3 DEF Shape, NextPage, ongoing, Paged, NoRpc
    <3> QED
      BY <3>1, <3>2 DEF Sound
  <2> QED
    BY <1>3, <2>2, <2>3 DEF NextPage
<1>4. ASSUME Close PROVE Sound'
  <2>1. TypeOK'
    BY <1>0, <1>4 DEF TypeOK, Close, loop, ongoing, history
  <2>2. Shape'
    BY <1>0, <1>4 DEF Shape, Close, loop, ongoing, Paged
  <2> QED
    BY <2>1, <2>2 DEF Sound
<1>5. ASSUME Cancel PROVE Sound'
  <2>1. /\ phase' \in {phase, "finished"} /\ (phase' # phase => phase = "sleeping")
        /\ \/ rpc' = rpc
           \/ phase = "calling" /\ phase' = phase /\ rpc' = [rpc EXCEPT !.cancelled = TRUE]
        /\ queue' \in {queue, Append(queue, "CANCELLED")}
        /\ phase' # "finished" => queue' = queue
        /\ callbacks' \in {callbacks, Append(callbacks, "CANCELLED")}
        /\ UNCHANGED <<settings, now, terminated, delay, timeout, deadline, retries, wake,
                       page, cancelFunc>>
        /\ completed' = TRUE /\ attempts' = retries
        /\ cancelledIn' \in Phases \cup {"answered"}
    BY <1>0, <1>5 DEF Cancel, CancelLoop, TypeOK
  <2>2. /\ rpc' \in Rpcs /\ rpc'.step = rpc.step /\ rpc'.answer = rpc.answer
        /\ phase # "calling" => rpc' = rpc
    BY <1>0, <2>1 DEF TypeOK, Rpcs, Steps
  <2>3. TypeOK'
    <3>1. callbacks' \in Seq(Outcomes) /\ queue' \in Seq(Outcomes)
      BY <1>0, <2>1, AppendOutcome DEF TypeOK, Outcomes
    <3> QED
      BY <1>0, <2>1, <2>2, <3>1 DEF TypeOK, Rpcs, Steps, Phases
  <2>4. Shape'
    BY <1>0, <2>1, <2>2 DEF Shape, Paged, NoRpc
  <2> QED
    BY <2>3, <2>4 DEF Sound
<1>6. ASSUME Grpc \/ Fallback PROVE Sound'
  <2>1. TypeOK'
    BY <1>0, <1>6, TransportCases DEF TypeOK, Rpcs, Steps, history, ongoing
  <2>2. Shape'
    <3>1. phase = "calling"
      BY <1>0, <1>6, TransportCases DEF Shape
    <3> QED
      BY <1>0, <1>6, <3>1, TransportCases DEF Shape, ongoing, Paged
  <2> QED
    BY <2>1, <2>2 DEF Sound
<1>7. ASSUME Answer PROVE Sound'
  <2>1. rpc.step = "answered" /\ rpc.answer \in Outcomes /\ Received(rpc.answer) /\ phase = "calling"
    BY <1>0, <1>7 DEF Answer, Shape
  <2>2. /\ rpc' = NoRpc /\ rpc' \in Rpcs /\ NoRpc.step = "none"
        /\ UNCHANGED <<settings, now, terminated, delay, timeout, deadline, page, cancelFunc,
                       callbacks, history>>
    BY <2>1, NoRpcType DEF Received, NoRpc
  <2>3. CASE /\ rpc.answer = "response" /\ page < settings.pages /\ phase' = "paging" /\ retries' = 0
             /\ UNCHANGED <<completed, queue, wake>>
    <3>1. TypeOK'
      BY <1>0, <2>2, <2>3 DEF TypeOK, Rpcs, Steps, history, Phases
    <3>2. Paged /\ ~cancelFunc
      BY <1>0, <2>1, <2>3, SettingsType DEF Paged, Shape, TypeOK
    <3>3. Shape'
      BY <1>0, <2>1, <2>2, <2>3, <3>2 DEF Shape, Paged
    <3> QED
      BY <3>1, <3>3 DEF Sound
  <2>4. CASE Finish(rpc.answer) /\ UNCHANGED <<wake, retries>>
    <3>1. Ended
      BY <1>0, <2>1, <2>2, <2>4, FinishEnds
    <3>2. TypeOK'
      BY <1>0, <2>2, <2>4, <3>1 DEF Ended, TypeOK, Rpcs, Steps, history, Phases
    <3>3. Shape'
      BY <1>0, <2>2, <2>4, <3>1 DEF Ended, Shape, Paged
    <3> QED
      BY <3>2, <3>3 DEF Sound
  <2>5. CASE /\ phase' = "sleeping" /\ \E sleep \in 1 .. Max({1, delay}) : wake' = now + sleep
             /\ UNCHANGED <<completed, queue, retries>>
    <3>1. TypeOK'
      <4>1. wake' \in Nat
        BY <1>0, <2>5 DEF TypeOK
      <4> QED
        BY <1>0, <2>2, <2>5, <4>1 DEF TypeOK, Rpcs, Steps, history, Phases
    <3>2. Shape'
      BY <1>0, <2>1, <2>2, <2>5 DEF Shape, Paged
    <3> QED
      BY <3>1, <3>2 DEF Sound
  <2> QED
    BY <2>1, <2>3, <2>4, <2>5 DEF Received
<1>8. ASSUME Wake PROVE Sound'
  <2>1. /\ phase = "sleeping" /\ rpc = NoRpc
        /\ delay' = Min({delay * DelayMultiplier, MaxDelay})
        /\ timeout' = NextTimeout /\ Repeat(deadline, NextTimeout)
        /\ UNCHANGED <<settings, now, terminated, deadline, wake, page, cancelFunc, callbacks, history>>
    BY <1>0, <1>8 DEF Wake, Shape
  <2>2. delay' \in Nat
    <3>1. delay * DelayMultiplier \in Nat /\ MaxDelay \in Nat
      BY <1>0, BackoffAssumption DEF TypeOK
    <3> QED
      BY <2>1, <3>1, MinOfTwo
  <2>3. NextTimeout \in Int
    <3> DEFINE left == IF deadline > 0 THEN deadline - now ELSE 0
               grown == timeout * settings.timeoutMultiplier
               max == settings.maxTimeout
    <3>1. grown \in Int /\ max \in Int /\ left \in Int
      BY <1>0, SettingsType DEF TypeOK
    <3>2. NextTimeout = Min({grown, max, left})
      BY DEF NextTimeout
    <3> HIDE DEF left, grown, max
    <3>3. NextTimeout \in {grown, max, left}
      BY ONLY <3>1, <3>2, MinOfThree
    <3> QED
      BY <3>1, <3>3
  <2>4. Ended \/ Attempted(deadline, NextTimeout)
    <3>1. deadline \in Int
      BY <1>0 DEF TypeOK
    <3> QED
      BY <1>0, <2>1, <2>3, <3>1, RepeatCases
  <2>5. TypeOK'
    <3>1. rpc' \in Rpcs /\ phase' \in Phases /\ queue' \in Seq(Outcomes)
          /\ completed' \in BOOLEAN /\ retries' \in Nat
      BY <1>0, <2>4, CasesType
    <3> QED
      BY <1>0, <2>1, <2>2, <2>3, <3>1 DEF TypeOK, Rpcs, Steps, history
  <2>6. Shape'
    <3>1. CASE Ended
      BY <1>0, <2>1, <3>1 DEF Ended, Shape, NoRpc, Paged
    <3>2. CASE Attempted(deadline, NextTimeout)
      BY <1>0, <2>1, <3>2 DEF Attempted, Shape, Paged
    <3> QED
      BY <2>4, <3>1, <3>2
  <2> QED
    BY <2>5, <2>6 DEF Sound
<1>9. ASSUME Deliver PROVE Sound'
  <2>1. TypeOK'
    BY <1>0, <1>9 DEF TypeOK, Deliver, loop, history
  <2>2. Shape'
    BY <1>0, <1>9 DEF Shape, Deliver, loop, Paged
  <2> QED
    BY <2>1, <2>2 DEF Sound
<1>10. ASSUME Tick PROVE Sound'
  <2>1. TypeOK'
    BY <1>0, <1>10 DEF TypeOK, Tick, loop, ongoing, history
  <2>2. Shape'
    BY <1>0, <1>10 DEF Shape, Tick, loop, ongoing, Paged
  <2> QED
    BY <2>1, <2>2 DEF Sound
<1>11. CASE UNCHANGED vars
  BY <1>0, <1>11 DEF Sound, TypeOK, Shape, vars, loop, ongoing, history, Paged
<1> QED
  BY <1>1, <1>2, <1>3, <1>4, <1>5, <1>6, <1>7, <1>8, <1>9, <1>10, <1>11 DEF Next

LEMMA SoundInvariant == Spec => []Sound
  BY SoundInit, SoundStep, PTL DEF Spec

(* The variables always have their types; in particular no page is asked    *)
(* for beyond the last, and nothing but an outcome is reported.             *)
THEOREM TypeCorrect == Spec => []TypeOK
  BY SoundInvariant, PTL DEF Sound

-----------------------------------------------------------------------------
(* What has been reported.  The counts of ReportedOnce are not inductive:   *)
(* which second report can still come depends on who knows of the cancel.   *)
Reports == callbacks \o queue

Reported ==
    /\ cancelledIn # "none" => completed /\ settings.style = "promise"
    /\ completed /\ (Paged \/ phase = "created") => cancelledIn # "none"
    /\ phase # "finished" =>
          Reports = IF cancelledIn # "none" /\ ~cancelFunc THEN <<"CANCELLED">> ELSE <<>>
    /\ phase = "finished" =>
          \/ Len(Reports) = 1
          \/ Len(Reports) = 2 /\ cancelledIn # "none" /\ ~cancelFunc

LEMMA EmptyConcat ==
    ASSUME NEW S, NEW s \in Seq(S) PROVE s \o <<>> = s
  OBVIOUS

LEMMA MoveHead ==
    ASSUME NEW S, NEW s \in Seq(S), NEW q \in Seq(S), q # <<>>
    PROVE  Append(s, Head(q)) \o Tail(q) = s \o q
  OBVIOUS

LEMMA LenOfConcat ==
    ASSUME NEW S, NEW s \in Seq(S), NEW q \in Seq(S), NEW x \in S
    PROVE  /\ Len(s \o q) \in Nat
           /\ Len(s \o Append(q, x)) = Len(s \o q) + 1
           /\ Len(Append(s, x) \o q) = Len(s \o q) + 1
           /\ Append(s, x) = s \o <<x>>
  OBVIOUS

(* An outcome that is appended, at either end of the queue.                 *)
LEMMA OneMore ==
    ASSUME TypeOK, NEW outcome \in Outcomes,
           \/ queue' = Append(queue, outcome) /\ callbacks' = callbacks
           \/ callbacks' = Append(callbacks, outcome) /\ queue' = queue
    PROVE  /\ Len(Reports) \in Nat /\ Len(Reports') = Len(Reports) + 1
           /\ queue = <<>> /\ callbacks = <<>> => Reports' = <<outcome>>
<1>1. queue \in Seq(Outcomes) /\ callbacks \in Seq(Outcomes)
  BY DEF TypeOK
<1>2. Len(Reports) \in Nat /\ Len(Reports') = Len(Reports) + 1
  <2>1. /\ Len(callbacks \o queue) \in Nat
        /\ Len(callbacks \o Append(queue, outcome)) = Len(callbacks \o queue) + 1
        /\ Len(Append(callbacks, outcome) \o queue) = Len(callbacks \o queue) + 1
    BY <1>1, LenOfConcat
  <2>2. Reports' = callbacks' \o queue'
    BY DEF Reports
  <2>3. CASE queue' = Append(queue, outcome) /\ callbacks' = callbacks
    BY <2>1, <2>2, <2>3 DEF Reports
  <2>4. CASE callbacks' = Append(callbacks, outcome) /\ queue' = queue
    BY <2>1, <2>2, <2>4 DEF Reports
  <2> QED
    BY <2>3, <2>4
<1>3. queue = <<>> /\ callbacks = <<>> => Reports' = <<outcome>>
  <2>1. Append(<<>>, outcome) = <<outcome>> /\ <<outcome>> \o <<>> = <<outcome>>
        /\ <<>> \o <<outcome>> = <<outcome>>
    OBVIOUS
  <2> QED
    BY <2>1 DEF Reports
<1> QED
  BY <1>2, <1>3

(* Where nothing is queued, the reports are the callbacks.                  *)
LEMMA NothingQueued ==
    ASSUME Sound, phase # "finished"
    PROVE  Reports = callbacks
<1>1. queue = <<>> /\ callbacks \in Seq(Outcomes)
  BY DEF Sound, Shape, TypeOK
<1> QED
  BY <1>1, EmptyConcat DEF Reports

LEMMA SameReports ==
    ASSUME UNCHANGED <<callbacks, queue>> PROVE Reports' = Reports
  BY DEF Reports

(* The end of the loop is one more report.                                  *)
LEMMA EndReports ==
    ASSUME Sound, Reported, phase # "finished", Ended, callbacks' = callbacks,
           UNCHANGED <<settings, history>>,
           cancelFunc' = ~Paged, ~Paged => cancelledIn = "none" \/ cancelFunc
    PROVE  Reported'
<1>1. PICK outcome \in Outcomes : queue' = Append(queue, outcome)
  BY DEF Ended
<1>2. Len(Reports) \in Nat /\ Len(Reports') = Len(Reports) + 1
  BY <1>1, OneMore DEF Sound
<1>3. Len(<<>>) = 0 /\ Len(<<"CANCELLED">>) = 1
  OBVIOUS
<1>4. Len(Reports') = 1 \/ (Len(Reports') = 2 /\ cancelledIn # "none" /\ Paged)
  <2>1. Reports = <<>> \/ (Reports = <<"CANCELLED">> /\ cancelledIn # "none" /\ ~cancelFunc)
    BY DEF Reported
  <2> HIDE DEF Reports
  <2>2. CASE Reports = <<>>
    BY <1>2, <1>3, <2>2
  <2>3. CASE Reports = <<"CANCELLED">> /\ cancelledIn # "none" /\ Paged
    BY <1>2, <1>3, <2>3
  <2> QED
    BY <2>1, <2>2, <2>3
<1> QED
  BY <1>4, SettingsType DEF Reported, Ended, Paged, history, Sound

LEMMA AttemptReports ==
    ASSUME Sound, Reported, phase # "finished", NEW d, NEW t, Attempted(d, t),
           callbacks' = callbacks, UNCHANGED <<settings, history>>,
           cancelFunc' = ~Paged, ~Paged => cancelledIn = "none" \/ cancelFunc
    PROVE  Reported'
<1>1. Reports' = Reports
  BY SameReports DEF Attempted
<1>2. Paged => ~cancelFunc
  BY DEF Sound, Shape
<1> QED
  BY <1>1, <1>2, SettingsType DEF Reported, Attempted, Paged, history, Sound

LEMMA ReportedStep == Sound /\ Reported /\ [Next]_vars => Reported'
<1> SUFFICES ASSUME Sound, Reported, [Next]_vars PROVE Reported'
  OBVIOUS
<1>0. TypeOK /\ Shape /\ Len(<<>>) = 0 /\ Len(<<"CANCELLED">>) = 1
  BY DEF Sound
<1>1. ASSUME phase \in {"created", "paging"}, Invoke, phase = "created" => ~completed,
             UNCHANGED <<settings, history>>
      PROVE  Reported'
  <2>1. rpc = NoRpc /\ ~cancelFunc
    BY <1>0, <1>1 DEF Shape
  <2>2. /\ Ended \/ Attempted(deadline', timeout)
        /\ cancelFunc' = ~Paged /\ callbacks' = callbacks
    BY <1>0, <1>1, <2>1, InvokeCases
  <2>3. ~Paged => cancelledIn = "none"
    BY <1>0, <1>1 DEF Shape, Reported
  <2> QED
    BY <1>1, <2>2, <2>3, EndReports, AttemptReports
<1>2. ASSUME Start PROVE Reported'
  <2>1. CASE Invoke /\ ~completed
    BY <1>1, <1>2, <2>1 DEF Start
  <2>2. CASE completed /\ ~Paged /\ phase' = "finished" /\ UNCHANGED ongoing
    <3>1. Reports' = Reports /\ Reports = <<"CANCELLED">>
      BY <1>0, <1>2, <2>2, SameReports DEF Start, ongoing, Reported, Shape
    <3> QED
      BY <1>0, <1>2, <2>2, <3>1 DEF Start, Reported, ongoing, history, Paged
  <2>3. CASE /\ ~completed /\ ~Paged /\ phase' = "finished"
             /\ callbacks' = Append(callbacks, "STUB_FAILED") /\ UNCHANGED <<completed, cancelFunc, queue>>
    <3>1. Reports = <<>>
      BY <1>0, <1>2, <2>3 DEF Start, Reported
    <3>2. Len(Reports') = 1
      BY <1>0, <2>3, <3>1, OneMore DEF Outcomes
    <3> QED
      BY <1>0, <1>2, <2>3, <3>2 DEF Start, Reported, history, Paged
  <2>4. CASE Paged /\ phase' = "paging" /\ UNCHANGED ongoing
    <3>1. Reports' = Reports
      BY <2>4, SameReports DEF ongoing
    <3> QED
      BY <1>0, <1>2, <2>4, <3>1 DEF Start, Reported, ongoing, history, Paged
  <2> QED
    BY <1>2, <2>1, <2>2, <2>3, <2>4 DEF Start
<1>3. ASSUME StubFails PROVE Reported'
  <2>1. Len(Reports') = Len(Reports) + 1
    BY <1>0, <1>3, OneMore DEF StubFails, Outcomes
  <2>2. Reports = (IF cancelledIn # "none" THEN <<"CANCELLED">> ELSE <<>>) /\ ~cancelFunc
    BY <1>0, <1>3 DEF StubFails, Reported, Shape
  <2>3. Len(Reports') = 1 \/ (Len(Reports') = 2 /\ cancelledIn # "none")
    BY <1>0, <2>1, <2>2
  <2> QED
    BY <1>0, <1>3, <2>2, <2>3 DEF StubFails, Reported, history, Paged
<1>4. ASSUME NextPage PROVE Reported'
  <2>1. CASE Invoke
    BY <1>1, <1>4, <2>1 DEF NextPage
  <2>2. CASE phase' = "crashed" /\ UNCHANGED ongoing
    <3>1. Reports' = Reports
      BY <2>2, SameReports DEF ongoing
    <3> QED
      BY <1>4, <2>2, <3>1 DEF NextPage, Reported, ongoing, history, Paged
  <2> QED
    BY <1>4, <2>1, <2>2 DEF NextPage
<1>5. ASSUME Close PROVE Reported'
  <2>1. Reports' = Reports
    BY <1>5, SameReports DEF Close, ongoing
  <2> QED
    BY <1>5, <2>1 DEF Close, Reported, loop, ongoing, history, Paged
<1>6. ASSUME Cancel PROVE Reported'
  <2>1. /\ settings.style = "promise" /\ ~completed /\ completed' = TRUE /\ cancelledIn = "none"
        /\ cancelledIn' # "none" /\ UNCHANGED <<settings, cancelFunc>>
    BY <1>0, <1>6 DEF Cancel, Reported, TypeOK, Phases
  <2>2. CASE ~cancelFunc /\ phase # "finished"
    <3>1. /\ callbacks' = Append(callbacks, "CANCELLED") /\ UNCHANGED <<phase, queue>>
      BY <1>6, <2>2 DEF Cancel
    <3>2. Reports = <<>> /\ callbacks = <<>> /\ queue = <<>>
      BY <1>0, <2>1, <2>2, NothingQueued DEF Reported, Shape
    <3>3. Reports' = <<"CANCELLED">>
      BY <1>0, <3>1, <3>2, OneMore DEF Outcomes
    <3> QED
      BY <2>1, <2>2, <3>1, <3>3 DEF Reported
  <2>3. CASE ~cancelFunc /\ phase = "finished"
    <3>1. /\ callbacks' = Append(callbacks, "CANCELLED") /\ UNCHANGED <<phase, queue>>
      BY <1>6, <2>3 DEF Cancel
    <3>2. Len(Reports') = Len(Reports) + 1
      BY <1>0, <3>1, OneMore DEF Outcomes
    <3>3. Len(Reports) = 1
      BY <2>1, <2>3 DEF Reported
    <3> QED
      BY <2>1, <2>3, <3>1, <3>2, <3>3 DEF Reported
  <2>4. CASE cancelFunc /\ UNCHANGED <<phase, queue>>
    <3>1. Reports' = Reports
      BY <1>6, <2>4, SameReports DEF Cancel
    <3> QED
      BY <2>1, <2>4, <3>1 DEF Reported
  <2>5. CASE cancelFunc /\ phase = "sleeping" /\ phase' = "finished"
             /\ queue' = Append(queue, "CANCELLED") /\ callbacks' = callbacks
    <3>1. Reports = <<>> /\ Len(Reports') = Len(Reports) + 1
      BY <1>0, <2>1, <2>5, OneMore DEF Reported, Outcomes
    <3> QED
      BY <1>0, <2>1, <2>5, <3>1 DEF Reported
  <2> QED
    BY <1>6, <2>2, <2>3, <2>4, <2>5 DEF Cancel, CancelLoop
<1>7. ASSUME Grpc \/ Fallback PROVE Reported'
  <2>1. UNCHANGED <<settings, phase, ongoing, history>>
    BY <1>0, <1>7, TransportCases
  <2>2. Reports' = Reports
    BY <2>1, SameReports DEF ongoing
  <2> QED
    BY <2>1, <2>2 DEF Reported, ongoing, history, Paged
<1>8. ASSUME Answer PROVE Reported'
  <2>1. /\ rpc.answer \in Outcomes /\ Received(rpc.answer) /\ phase = "calling"
        /\ cancelFunc = ~Paged /\ rpc' = NoRpc
        /\ callbacks' = callbacks /\ UNCHANGED <<settings, cancelFunc, history>>
    BY <1>0, <1>8 DEF Answer, Shape, Received
  <2>2. CASE phase' \in {"paging", "sleeping"} /\ UNCHANGED <<completed, queue>>
    <3>1. Reports' = Reports
      BY <2>1, <2>2, SameReports
    <3> QED
      BY <2>1, <2>2, <3>1 DEF Reported, history, Paged
  <2>3. CASE Finish(rpc.answer) /\ retries' = retries
    <3>1. Ended
      BY <1>0, <2>1, <2>3, FinishEnds
    <3> QED
      BY <2>1, <3>1, EndReports
  <2> QED
    BY <2>1, <2>2, <2>3 DEF Received
<1>9. ASSUME Wake PROVE Reported'
  <2>1. /\ phase = "sleeping" /\ rpc = NoRpc /\ cancelFunc = ~Paged
        /\ Repeat(deadline, NextTimeout) /\ deadline \in Int /\ timeout' = NextTimeout
        /\ UNCHANGED <<settings, cancelFunc, callbacks, history>>
    BY <1>0, <1>9 DEF Wake, Shape, TypeOK
  <2>2. NextTimeout \in Int
    <3>1. TypeOK'
      BY <1>9, SoundStep DEF Next, Sound
    <3> QED
      BY <2>1, <3>1 DEF TypeOK
  <2>3. Ended \/ Attempted(deadline, NextTimeout)
    BY <1>0, <2>1, <2>2, RepeatCases
  <2> QED
    BY <2>1, <2>3, EndReports, AttemptReports
<1>10. ASSUME Deliver PROVE Reported'
  <2>1. Reports' = Reports
    <3>1. queue \in Seq(Outcomes) /\ callbacks \in Seq(Outcomes) /\ queue # <<>>
          /\ callbacks' = Append(callbacks, Head(queue)) /\ queue' = Tail(queue)
      BY <1>0, <1>10 DEF Deliver, TypeOK
    <3> QED
      BY <3>1, MoveHead DEF Reports
  <2> QED
    BY <1>10, <2>1 DEF Deliver, Reported, loop, history, Paged
<1>11. ASSUME Tick PROVE Reported'
  <2>1. Reports' = Reports
    BY <1>11, SameReports DEF Tick, ongoing
  <2> QED
    BY <1>11, <2>1 DEF Tick, Reported, loop, ongoing, history, Paged
<1>12. CASE UNCHANGED vars
  <2>1. Reports' = Reports
    BY <1>12, SameReports DEF vars, ongoing
  <2> QED
    BY <1>12, <2>1 DEF vars, Reported, loop, ongoing, history, Paged
<1> QED
  BY <1>2, <1>3, <1>4, <1>5, <1>6, <1>7, <1>8, <1>9, <1>10, <1>11, <1>12 DEF Next

LEMMA ReportedImpliesOnce == Sound /\ Reported => ReportedOnce
<1> SUFFICES ASSUME Sound, Reported PROVE ReportedOnce
  OBVIOUS
<1>0. Len(<<>>) = 0 /\ Len(<<"CANCELLED">>) = 1 /\ Reports = callbacks \o queue
  BY DEF Reports
<1>1. Len(Reports) =< IF settings.style = "callback" \/ cancelFunc THEN 1 ELSE 2
  BY <1>0 DEF Reported
<1>2. phase = "finished" => Reports # <<>>
  BY <1>0 DEF Reported
<1>3. phase \in {"paging", "calling", "sleeping"} =>
         Reports = IF Paged /\ cancelledIn # "none" THEN <<"CANCELLED">> ELSE <<>>
  BY DEF Reported, Sound, Shape
<1> QED
  BY <1>0, <1>1, <1>2, <1>3 DEF ReportedOnce

LEMMA ReportedInvariant == Spec => []Reported
<1>1. Init => Reported
  BY EmptyConcat DEF Init, Reported, Reports
<1> QED
  BY <1>1, ReportedStep, SoundInvariant, PTL DEF Spec

(* The user hears of a call once, whatever the pages, retries, timers and   *)
(* cancels: a callback never twice, and nothing before the call has ended.  *)
THEOREM ReportsComeOnce == Spec => []ReportedOnce
  BY SoundInvariant, ReportedInvariant, ReportedImpliesOnce, PTL

-----------------------------------------------------------------------------
(* What a cancel has done, by where it found the call.                      *)
CancelReportedFirst ==
    cancelledIn = "created" \/ (Paged /\ cancelledIn \notin {"none", "finished"}) =>
        callbacks # <<>> /\ callbacks[1] = "CANCELLED"

CancelledBefore == phase \in {"created", "finished"} /\ retries = 0 /\ attempts = 0

CancelledAsleep == phase = "finished" /\ Reports = <<"CANCELLED">> /\ retries = attempts

CancelledAttempt ==
    /\ retries = attempts
    /\ phase = "calling" => /\ rpc.cancelled
                            /\ rpc.step = "answered" => rpc.answer = "CANCELLED"
    /\ phase \in {"calling", "finished"}
    /\ Reports \in {<<>>, <<"CANCELLED">>}

CancelKept ==
    /\ CancelReportedFirst
    /\ ~Paged => /\ cancelledIn = "created" => CancelledBefore
                 /\ cancelledIn = "sleeping" => CancelledAsleep
                 /\ cancelledIn = "calling" /\ "CANCELLED" \notin settings.retryCodes =>
                       CancelledAttempt

(* Callbacks are never taken back.                                          *)
LEMMA FirstCallback ==
    ASSUME NEW s \in Seq(Outcomes), s # <<>>, NEW x \in Outcomes
    PROVE  Append(s, x) # <<>> /\ Append(s, x)[1] = s[1]
  OBVIOUS

LEMMA CallbacksGrow ==
    ASSUME Sound, [Next]_vars
    PROVE  callbacks' = callbacks \/ \E x \in Outcomes : callbacks' = Append(callbacks, x)
<1>0. TypeOK
  BY DEF Sound
<1>1. CASE Grpc \/ Fallback
  BY <1>0, <1>1, TransportCases DEF ongoing
<1>2. ASSUME Deliver PROVE \E x \in Outcomes : callbacks' = Append(callbacks, x)
  <2>1. queue \in Seq(Outcomes) /\ queue # <<>>
    BY <1>0, <1>2 DEF Deliver, TypeOK
  <2>2. Head(queue) \in Outcomes
    BY <2>1
  <2> QED
    BY <1>2, <2>2 DEF Deliver
<1>3. ASSUME Start PROVE callbacks' = callbacks \/ callbacks' = Append(callbacks, "STUB_FAILED")
  BY <1>3 DEF Start, Invoke, ongoing
<1>4. ASSUME NextPage PROVE callbacks' = callbacks
  BY <1>4 DEF NextPage, Invoke, ongoing
<1>5. ASSUME Cancel PROVE callbacks' = callbacks \/ callbacks' = Append(callbacks, "CANCELLED")
  BY <1>5 DEF Cancel
<1>6. ASSUME StubFails PROVE callbacks' = Append(callbacks, "STUB_FAILED")
  BY <1>6 DEF StubFails
<1>7. ASSUME Close \/ Answer \/ Wake \/ Tick \/ UNCHANGED vars PROVE callbacks' = callbacks
  BY <1>7 DEF Close, Answer, Received, Wake, Tick, vars, ongoing
<1> QED
  BY <1>1, <1>2, <1>3, <1>4, <1>5, <1>6, <1>7 DEF Next, Outcomes

(* After the end only reports are delivered, and a cancel may still come.   *)
LEMMA FinishedStays ==
    ASSUME Sound, phase = "finished", [Next]_vars, ~Cancel
    PROVE  phase' = "finished" /\ Reports' = Reports /\ UNCHANGED <<settings, retries, history>>
<1>0. TypeOK /\ rpc = NoRpc /\ rpc.step = "none"
  BY DEF Sound, Shape, NoRpc
<1>1. ~Start /\ ~StubFails /\ ~NextPage /\ ~Close /\ ~Answer /\ ~Wake /\ ~Tick
  BY <1>0 DEF Start, StubFails, NextPage, Close, Answer, Wake, Tick
<1>2. ~(Grpc \/ Fallback)
  BY <1>0, TransportCases
<1>3. ASSUME Deliver
      PROVE  phase' = "finished" /\ Reports' = Reports /\ UNCHANGED <<settings, retries, history>>
  <2>1. queue \in Seq(Outcomes) /\ callbacks \in Seq(Outcomes) /\ queue # <<>>
        /\ callbacks' = Append(callbacks, Head(queue)) /\ queue' = Tail(queue)
    BY <1>0, <1>3 DEF Deliver, TypeOK
  <2>2. Reports' = Reports
    BY <2>1, MoveHead DEF Reports
  <2> QED
    BY <1>3, <2>2 DEF Deliver, loop
<1>4. CASE UNCHANGED vars
  BY <1>4, SameReports DEF vars, loop, ongoing
<1> QED
  BY <1>1, <1>2, <1>3, <1>4 DEF Next

(* The step of the cancel itself.                                           *)
LEMMA CancelStep == Sound /\ Reported /\ Cancel => CancelKept'
<1> SUFFICES ASSUME Sound, Reported, Cancel PROVE CancelKept'
  OBVIOUS
<1>0. TypeOK /\ Shape /\ settings' = settings /\ Paged' = Paged
  BY DEF Sound, Cancel, Paged
<1>1. /\ cancelledIn = "none" /\ attempts' = retries /\ retries' = retries
      /\ cancelledIn' = IF rpc.step = "answered" THEN "answered" ELSE phase
      /\ phase # "crashed" /\ phase # "finished" => Reports = <<>> /\ callbacks = <<>> /\ queue = <<>>
  BY <1>0, NothingQueued DEF Cancel, Reported, Shape
<1>2. ASSUME ~cancelFunc, phase # "finished"
      PROVE  callbacks' # <<>> /\ callbacks'[1] = "CANCELLED"
  <2>1. callbacks' = Append(<<>>, "CANCELLED")
    BY <1>1, <1>2 DEF Cancel
  <2> QED
    BY <2>1
<1>3. CancelReportedFirst'
  <2>1. cancelledIn' = "created" => phase = "created" /\ ~cancelFunc
    BY <1>0, <1>1 DEF Shape
  <2>2. Paged /\ cancelledIn' \notin {"none", "finished"} => phase # "finished" /\ ~cancelFunc
    BY <1>0, <1>1 DEF Shape, NoRpc
  <2> QED
    BY <1>0, <1>2, <2>1, <2>2 DEF CancelReportedFirst
<1>4. ASSUME ~Paged, cancelledIn' = "created" PROVE CancelledBefore'
  <2>1. phase = "created" /\ retries = 0 /\ ~cancelFunc
    BY <1>0, <1>1, <1>4 DEF Shape
  <2> QED
    BY <1>1, <2>1 DEF CancelledBefore, Cancel
<1>5. ASSUME ~Paged, cancelledIn' = "sleeping" PROVE CancelledAsleep'
  <2>1. phase = "sleeping" /\ cancelFunc
    BY <1>0, <1>1, <1>5, SettingsType DEF Shape
  <2>2. phase' = "finished" /\ queue' = Append(queue, "CANCELLED") /\ callbacks' = callbacks
    BY <2>1 DEF Cancel, CancelLoop
  <2>3. Reports' = <<"CANCELLED">>
    BY <1>0, <1>1, <2>1, <2>2, OneMore DEF Outcomes
  <2> QED
    BY <1>1, <2>2, <2>3 DEF CancelledAsleep
<1>6. ASSUME ~Paged, cancelledIn' = "calling" PROVE CancelledAttempt'
  <2>1. phase = "calling" /\ rpc.step # "answered" /\ cancelFunc
    BY <1>0, <1>1, <1>6, SettingsType DEF Shape
  <2>2. phase' = phase /\ rpc' = [rpc EXCEPT !.cancelled = TRUE] /\ UNCHANGED <<queue, callbacks>>
    BY <2>1 DEF Cancel, CancelLoop
  <2>3. rpc'.cancelled /\ rpc'.step # "answered"
    BY <1>0, <2>1, <2>2 DEF TypeOK
  <2>4. Reports' = <<>>
    BY <1>1, <2>1, <2>2, SameReports
  <2> QED
    BY <1>1, <2>1, <2>2, <2>3, <2>4 DEF CancelledAttempt
<1> QED
  BY <1>0, <1>3, <1>4, <1>5, <1>6 DEF CancelKept

(* A cancelled attempt ends with CANCELLED, unless that is to be retried.   *)
LEMMA AttemptStep ==
    ASSUME Sound, Reported, CancelledAttempt, ~Paged, [Next]_vars, ~Cancel,
           cancelledIn = "calling", "CANCELLED" \notin settings.retryCodes
    PROVE  CancelledAttempt'
<1>0. TypeOK /\ Shape /\ completed
  BY DEF Sound, Reported
<1>1. CASE phase = "finished"
  BY <1>1, FinishedStays DEF CancelledAttempt, history
<1>2. CASE phase = "calling"
  <2>0. /\ rpc.cancelled /\ (rpc.step = "answered" => rpc.answer = "CANCELLED")
        /\ retries = attempts /\ rpc.step # "none" /\ queue = <<>> /\ Reports = <<>>
    BY <1>0, <1>2, SettingsType DEF CancelledAttempt, Shape, Reported
  <2>1. ASSUME Grpc \/ Fallback PROVE CancelledAttempt'
    <3>1. Reports' = Reports
      BY <1>0, <2>1, TransportCases, SameReports DEF ongoing
    <3> QED
      BY <1>0, <1>2, <2>0, <2>1, <3>1, TransportCases DEF CancelledAttempt, history
  <2>2. ASSUME Answer PROVE CancelledAttempt'
    <3>1. Received("CANCELLED")
      BY <2>0, <2>2 DEF Answer
    <3>2. Finish("CANCELLED") /\ UNCHANGED <<retries, callbacks, attempts>>
      BY <3>1 DEF Received, history
    <3>3. Reports' = <<"CANCELLED">>
      <4>1. callbacks = <<>>
        BY <1>2, <2>0, NothingQueued
      <4> QED
        BY <1>0, <2>0, <3>2, <4>1, OneMore DEF Finish, Outcomes
    <3> QED
      BY <2>0, <3>2, <3>3 DEF CancelledAttempt, Finish
  <2>3. ASSUME Tick PROVE CancelledAttempt'
    BY <1>2, <2>0, <2>3, SameReports DEF Tick, CancelledAttempt, loop, ongoing, history
  <2>4. CASE UNCHANGED vars
    BY <1>2, <2>0, <2>4, SameReports DEF vars, CancelledAttempt, loop, ongoing, history
  <2>5. ~Start /\ ~StubFails /\ ~NextPage /\ ~Close /\ ~Wake /\ ~Deliver
    BY <1>2, <2>0 DEF Start, StubFails, NextPage, Close, Wake, Deliver
  <2> QED
    BY <2>1, <2>2, <2>3, <2>4, <2>5 DEF Next
<1> QED
  BY <1>1, <1>2 DEF CancelledAttempt

(* A call cancelled before its start ends without an attempt.               *)
LEMMA BeforeStep ==
    ASSUME Sound, Reported, CancelledBefore, ~Paged, [Next]_vars, ~Cancel, cancelledIn = "created"
    PROVE  CancelledBefore'
<1>0. TypeOK /\ Shape /\ completed
  BY DEF Sound, Reported
<1>1. CASE phase = "finished"
  BY <1>1, FinishedStays DEF CancelledBefore, history
<1>2. CASE phase = "created"
  <2>1. ASSUME Start PROVE CancelledBefore'
    BY <1>0, <2>1 DEF Start, CancelledBefore, history
  <2>2. ASSUME StubFails PROVE CancelledBefore'
    BY <2>2 DEF StubFails, CancelledBefore, history
  <2>3. ASSUME Close PROVE CancelledBefore'
    BY <1>2, <2>3 DEF Close, CancelledBefore, loop, history
  <2>4. CASE UNCHANGED vars
    BY <2>4 DEF vars, CancelledBefore, loop, history
  <2>5. rpc.step = "none" /\ queue = <<>>
    BY <1>0, <1>2 DEF Shape
  <2>6. ~NextPage /\ ~Answer /\ ~Wake /\ ~Tick /\ ~Deliver
    BY <1>2, <2>5 DEF NextPage, Answer, Wake, Tick, Deliver
  <2>7. ~(Grpc \/ Fallback)
    BY <1>0, <2>5, TransportCases
  <2> QED
    BY <2>1, <2>2, <2>3, <2>4, <2>6, <2>7 DEF Next
<1> QED
  BY <1>1, <1>2 DEF CancelledBefore

LEMMA CancelKeptStep == Sound /\ Reported /\ CancelKept /\ [Next]_vars => CancelKept'
<1> SUFFICES ASSUME Sound, Reported, CancelKept, [Next]_vars, ~Cancel PROVE CancelKept'
  BY CancelStep
<1>0. TypeOK
  BY DEF Sound
<1>1. settings' = settings /\ cancelledIn' = cancelledIn /\ attempts' = attempts /\ Paged' = Paged
  <2>1. CASE Grpc \/ Fallback
    BY <1>0, <2>1, TransportCases DEF history, Paged
  <2> QED
    BY <2>1 DEF Next, Start, StubFails, NextPage, Close, Answer, Received, Wake, Deliver, Tick,
                vars, history, Paged
<1>2. CancelReportedFirst'
  <2>1. callbacks # <<>> => callbacks' # <<>> /\ callbacks'[1] = callbacks[1]
    <3>1. callbacks \in Seq(Outcomes)
      BY <1>0 DEF TypeOK
    <3> QED
      BY <3>1, CallbacksGrow, FirstCallback
  <2> QED
    BY <1>1, <2>1 DEF CancelKept, CancelReportedFirst
<1>3. ~Paged /\ cancelledIn = "sleeping" => CancelledAsleep'
  BY <1>1, FinishedStays DEF CancelKept, CancelledAsleep
<1> QED
  BY <1>1, <1>2, <1>3, AttemptStep, BeforeStep DEF CancelKept

LEMMA CancelKeptInvariant == Spec => []CancelKept
<1>1. Init => CancelKept
  BY DEF Init, CancelKept, CancelReportedFirst
<1> QED
  BY <1>1, CancelKeptStep, SoundInvariant, ReportedInvariant, PTL DEF Spec

LEMMA CancelKeptIsFinal == CancelKept => CancelIsFinal
  BY DEF CancelKept, CancelReportedFirst, CancelledBefore, CancelledAsleep, CancelledAttempt,
         CancelIsFinal, Reports

(* A cancel is final, but for the two exceptions the property names, with   *)
(* any transport, client, retry codes and backoff.                          *)
THEOREM CancelsAreFinal == Spec => []CancelIsFinal
  BY CancelKeptInvariant, CancelKeptIsFinal, PTL

-----------------------------------------------------------------------------
(* Time.  With a total timeout every attempt, and every backoff, is bounded *)
(* by when the call must be over; this has to be known together with the    *)
(* bounds on the delay and the timeout that the pages before have left.     *)
Total == settings.totalTimeout > 0 /\ settings.retryCodes # {}

(* Neither the multiplier nor the maximum of the timeouts is null.          *)
Scaled == settings.timeoutMultiplier > 0 /\ settings.maxTimeout > 0

LongestDelay == MaxOf(1, MaxOf(InitialDelay, MaxDelay))

LongestTimeout == MaxOf(InitialTimeout, settings.maxTimeout)

(* When an attempt must be over: the first, or a retry.                     *)
Over == MaxOf(deadline, deadline - settings.totalTimeout + LongestTimeout)

Backoff ==
    /\ now >= 1
    /\ delay =< LongestDelay /\ timeout =< LongestTimeout
    /\ deadline > 0 => Total
    /\ Total /\ phase # "finished" => timeout >= 0
    /\ Total /\ phase # "finished" /\ Scaled => timeout > 0

(* A total timeout that counts has been set by the first attempt.           *)
Counted == Total /\ phase \in {"calling", "sleeping"} => deadline > 0

RetryFits == deadline > 0 /\ phase = "calling" /\ retries > 1 => rpc.deadline =< deadline

OverInTime ==
    deadline > 0 /\ settings.transport = "grpc" =>
        /\ phase = "calling" => rpc.step \in {"grpc", "answered"} /\ now =< Over
        /\ rpc.step = "grpc" => now =< rpc.deadline /\ rpc.deadline =< Over
        /\ phase = "sleeping" => now =< wake /\ wake =< Over + LongestDelay

Timed == Backoff /\ Counted /\ RetryFits /\ OverInTime

LEMMA Longest ==
    ASSUME TypeOK
    PROVE  /\ LongestDelay \in Nat \ {0} /\ LongestTimeout \in Nat \ {0}
           /\ InitialDelay =< LongestDelay /\ MaxDelay =< LongestDelay /\ 1 =< LongestDelay
           /\ InitialTimeout =< LongestTimeout /\ settings.maxTimeout =< LongestTimeout
  BY BackoffAssumption, SettingsType DEF LongestDelay, LongestTimeout, MaxOf

LEMMA LongestNext ==
    /\ LongestDelay' = LongestDelay
    /\ settings' = settings => LongestTimeout' = LongestTimeout /\ Total' = Total /\ Scaled' = Scaled
  BY DEF LongestDelay, LongestTimeout, MaxOf, Total, Scaled

LEMMA OverType ==
    ASSUME TypeOK
    PROVE  /\ Over \in Int /\ deadline =< Over
           /\ deadline - settings.totalTimeout + LongestTimeout =< Over
  BY SettingsType, Longest DEF Over, MaxOf, TypeOK

LEMMA OverTypeNext ==
    ASSUME TypeOK, TypeOK', settings' = settings
    PROVE  /\ Over' \in Int /\ deadline' =< Over'
           /\ deadline' - settings'.totalTimeout + LongestTimeout =< Over'
<1>1. deadline' \in Nat /\ settings'.totalTimeout \in Nat
  BY SettingsType DEF TypeOK
<1>2. LongestTimeout \in Nat /\ LongestTimeout' = LongestTimeout
  BY Longest, LongestNext
<1> DEFINE retry == deadline' - settings'.totalTimeout + LongestTimeout
<1>3. Over' = MaxOf(deadline', retry)
  BY <1>2 DEF Over
<1>4. retry \in Int
  BY <1>1, <1>2
<1> QED
  BY <1>1, <1>3, <1>4 DEF MaxOf

(* An attempt that starts with the deadline `deadline'` and timeout `t`.    *)
LEMMA TimedAttempt ==
    ASSUME TypeOK, TypeOK', Backoff', Counted', NEW t \in Int, Attempted(deadline', t),
           now' = now, settings' = settings,
           t >= 0, now + t =< Over',
           deadline' > 0 /\ retries' > 1 => now + t =< deadline'
    PROVE  Timed'
<1>1. CASE rpc'.step = "lost"
  <2>1. ~Total'
    BY <1>1 DEF Attempted, Total
  <2>2. ~(deadline' > 0)
    BY <2>1 DEF Backoff
  <2> QED
    BY <2>2 DEF Timed, RetryFits, OverInTime
<1>2. CASE rpc'.step # "lost" /\ rpc'.deadline = now + t
  <2>1. RetryFits'
    BY <1>2 DEF RetryFits
  <2>2. now' \in Nat /\ now' =< now + t /\ now' =< Over' /\ Over' \in Int
    <3>1. now \in Nat /\ now' = now
      BY DEF TypeOK
    <3>2. Over' \in Int
      BY OverTypeNext
    <3> QED
      BY <3>1, <3>2
  <2>3. phase' = "calling" /\ rpc'.step \in {"grpc", "auth"}
        /\ (settings'.transport = "grpc" => rpc'.step = "grpc")
    BY <1>2 DEF Attempted
  <2>4. OverInTime'
    BY <1>2, <2>2, <2>3 DEF OverInTime
  <2> QED
    BY <2>1, <2>4 DEF Timed
<1> QED
  BY <1>1, <1>2 DEF Attempted

(* A call that is in no attempt and no backoff.                             *)
LEMMA TimedAtRest ==
    ASSUME Shape', Backoff', phase' \notin {"calling", "sleeping"}
    PROVE  Timed'
<1>1. rpc'.step = "none"
  BY DEF Shape, NoRpc
<1> QED
  BY <1>1 DEF Timed, Counted, RetryFits, OverInTime

LEMMA TimedInvoke ==
    ASSUME Sound, Sound', Timed, phase \in {"created", "paging"}, Invoke,
           UNCHANGED <<settings, now, delay, timeout>>
    PROVE  Timed'
<1>1. TypeOK /\ TypeOK' /\ Shape /\ Shape' /\ rpc = NoRpc /\ retries = 0
  BY DEF Sound, Shape
<1>2. /\ Ended \/ Attempted(deadline', timeout)
      /\ deadline' = IF Total THEN now + settings.totalTimeout ELSE 0
  BY <1>1, InvokeCases DEF Total
<1>3. Backoff'
  BY <1>1, <1>2, LongestNext DEF Timed, Backoff, Total, Ended, Attempted
<1>4. CASE Ended
  BY <1>1, <1>3, <1>4, TimedAtRest DEF Ended
<1>5. CASE Attempted(deadline', timeout) /\ ~Total
  BY <1>2, <1>3, <1>5 DEF Timed, Counted, Total, RetryFits, OverInTime
<1>6. CASE Attempted(deadline', timeout) /\ Total
  <2>1. timeout \in Int /\ now \in Nat /\ settings.totalTimeout \in Nat /\ LongestTimeout \in Nat
    BY <1>1, SettingsType, Longest DEF TypeOK
  <2>2. timeout >= 0 /\ timeout =< LongestTimeout
    BY <1>1, <1>6, <2>1 DEF Timed, Backoff
  <2>3. deadline' - settings'.totalTimeout + LongestTimeout = now + LongestTimeout
    BY <1>2, <1>6, <2>1
  <2>4. Over' \in Int /\ deadline' - settings'.totalTimeout + LongestTimeout =< Over'
    BY <1>1, OverTypeNext
  <2>5. now + timeout =< Over'
    BY <2>1, <2>2, <2>3, <2>4
  <2>6. retries' = 1
    BY <1>1, <1>6 DEF Attempted
  <2> QED
    BY <1>1, <1>2, <1>3, <1>6, <2>1, <2>2, <2>5, <2>6, TimedAttempt DEF Counted, Total
<1> QED
  BY <1>2, <1>4, <1>5, <1>6

LEMMA TimedWake ==
    ASSUME Sound, Sound', Timed, Wake
    PROVE  Timed'
<1>1. TypeOK /\ TypeOK' /\ Shape /\ Shape' /\ rpc = NoRpc
  BY DEF Sound, Shape, Wake
<1> DEFINE left == IF deadline > 0 THEN deadline - now ELSE 0
<1>2. /\ delay \in Nat /\ timeout \in Int /\ deadline \in Nat /\ now \in Nat
      /\ DelayMultiplier \in Nat /\ settings.timeoutMultiplier \in Nat
      /\ MaxDelay \in Nat /\ settings.maxTimeout \in Nat
  BY <1>1, BackoffAssumption, SettingsType DEF TypeOK
<1>20. left \in Int
  BY <1>2
<1> DEFINE MaxTimeout == settings.maxTimeout
           grown == timeout * settings.timeoutMultiplier
<1>3. delay * DelayMultiplier \in Int /\ grown \in Int /\ MaxTimeout \in Nat
  BY <1>2
<1>14. NextTimeout = Min({grown, MaxTimeout, left})
  BY DEF NextTimeout
<1>15. Scaled => settings.timeoutMultiplier > 0 /\ MaxTimeout > 0
  BY DEF Scaled
<1>16. MaxTimeout =< LongestTimeout
  BY <1>1, Longest
<1>17. timeout >= 0 => grown >= 0
  BY <1>2, ProductNatural
<1>18. timeout > 0 /\ Scaled => grown > 0
  BY <1>2, <1>15, ProductPositive
<1> HIDE DEF left, grown, MaxTimeout
<1>4. delay' =< MaxDelay
  <2> DEFINE later == delay * DelayMultiplier
  <2>1. delay' = Min({later, MaxDelay})
    BY DEF Wake
  <2>2. later \in Int /\ MaxDelay \in Int
    BY <1>2, <1>3
  <2> HIDE DEF later
  <2> QED
    BY ONLY <2>1, <2>2, MinOfTwo
<1>6. /\ NextTimeout \in {grown, MaxTimeout, left}
      /\ NextTimeout =< MaxTimeout /\ NextTimeout =< left /\ NextTimeout \in Int
  <2>1. /\ NextTimeout \in {grown, MaxTimeout, left}
        /\ NextTimeout =< MaxTimeout /\ NextTimeout =< left
    <3>1. grown \in Int /\ MaxTimeout \in Int /\ left \in Int
      BY <1>3, <1>20
    <3> QED
      BY ONLY <1>14, <3>1, MinOfThree
  <2> QED
    BY <1>3, <1>20, <2>1
<1>7. Ended \/ Attempted(deadline, NextTimeout)
  <2>1. Repeat(deadline, NextTimeout)
    BY DEF Wake
  <2> QED
    BY <1>1, <1>2, <1>6, <2>1, RepeatCases
<1>8. /\ phase = "sleeping" /\ timeout' = NextTimeout
      /\ UNCHANGED <<settings, now, deadline>>
  BY DEF Wake
<1>9. deadline > 0 => Total
  BY DEF Timed, Backoff
<1>10. delay' =< LongestDelay' /\ timeout' =< LongestTimeout'
  <2>1. delay' \in Int /\ timeout' \in Int
    BY <1>1 DEF TypeOK
  <2>2. LongestDelay \in Nat /\ LongestTimeout \in Nat /\ MaxDelay =< LongestDelay
    BY <1>1, Longest
  <2> QED
    BY <1>2, <1>3, <1>4, <1>6, <1>8, <1>16, <2>1, <2>2, LongestNext
<1>19. Total' = Total /\ Scaled' = Scaled
  BY <1>8, LongestNext
<1>11. CASE Ended
  <2>1. Backoff'
    BY <1>8, <1>9, <1>10, <1>11, <1>19 DEF Timed, Backoff, Ended
  <2> QED
    BY <1>1, <1>11, <2>1, TimedAtRest DEF Ended
<1>12. CASE Attempted(deadline, NextTimeout) /\ deadline > 0
  <2>1. left > 0 /\ now + left = deadline
    BY <1>2, <1>12 DEF Attempted, Expired, left
  <2>2. timeout >= 0 /\ (Scaled => timeout > 0)
    BY <1>8, <1>9, <1>12 DEF Timed, Backoff
  <2>4. NextTimeout >= 0 /\ (Scaled => NextTimeout > 0)
    BY <1>2, <1>3, <1>6, <1>15, <1>17, <1>18, <2>1, <2>2
  <2>5. Backoff'
    BY <1>8, <1>9, <1>10, <1>19, <2>4 DEF Timed, Backoff
  <2>6. now + NextTimeout =< deadline'
    BY <1>2, <1>6, <1>8, <1>20, <2>1
  <2>7. now + NextTimeout =< Over'
    <3>1. Over' \in Int /\ deadline' =< Over'
      BY <1>1, <1>8, OverTypeNext
    <3> QED
      BY <1>2, <1>6, <1>8, <2>6, <3>1
  <2>8. Attempted(deadline', NextTimeout)
    BY <1>8, <1>12
  <2> QED
    BY ONLY <1>1, <1>6, <1>8, <1>12, <2>4, <2>5, <2>6, <2>7, <2>8, TimedAttempt DEF Counted
<1>13. CASE Attempted(deadline, NextTimeout) /\ ~(deadline > 0)
  <2>1. ~Total
    BY <1>8, <1>13 DEF Timed, Counted
  <2>2. Backoff'
    BY <1>8, <1>10, <1>13, <1>19, <2>1 DEF Timed, Backoff
  <2> QED
    BY <1>8, <1>13, <1>19, <2>1, <2>2 DEF Timed, Counted, RetryFits, OverInTime
<1> QED
  BY <1>7, <1>11, <1>12, <1>13

(* The callback of an attempt is called: the loop ends, goes on with the    *)
(* next page, or sleeps for a while that is part of the delay.              *)
LEMMA TimedAnswer ==
    ASSUME Sound, Sound', Timed, Answer
    PROVE  Timed'
<1>1. TypeOK /\ TypeOK' /\ Shape'
  BY DEF Sound
<1>2. /\ UNCHANGED <<settings, now, delay, timeout, deadline>>
      /\ phase = "calling" /\ rpc' = NoRpc
      /\ \/ phase' \in {"finished", "paging"}
         \/ phase' = "sleeping" /\ \E sleep \in 1 .. Max({1, delay}) : wake' = now + sleep
  BY DEF Answer, Received, Finish, Sound, Shape
<1>3. Backoff'
  BY <1>2, LongestNext DEF Timed, Backoff
<1>4. CASE phase' \in {"finished", "paging"}
  BY <1>1, <1>3, <1>4, TimedAtRest
<1>5. CASE phase' = "sleeping"
  <2>1. PICK sleep \in 1 .. Max({1, delay}) : wake' = now + sleep
    BY <1>2, <1>5
  <2>10. delay \in Nat /\ now \in Nat
    BY <1>1 DEF TypeOK
  <2>11. Max({1, delay}) = MaxOf(1, delay)
    BY <2>10, MaxOfTwo
  <2>2. sleep \in Nat /\ sleep =< MaxOf(1, delay) /\ MaxOf(1, delay) \in Nat
    BY <2>1, <2>10, <2>11 DEF MaxOf
  <2>3. /\ Over' = Over /\ Over \in Int
        /\ LongestDelay' = LongestDelay /\ LongestDelay \in Nat /\ 1 =< LongestDelay
    BY <1>1, <1>2, OverType, Longest, LongestNext DEF Over
  <2>4. MaxOf(1, delay) =< LongestDelay
    BY <2>3 DEF Timed, Backoff, MaxOf
  <2>5. deadline > 0 /\ settings.transport = "grpc" => now =< Over
    BY <1>2 DEF Timed, OverInTime
  <2>6. deadline > 0 /\ settings.transport = "grpc" =>
            now' =< wake' /\ wake' =< Over' + LongestDelay
    BY <1>2, <2>1, <2>2, <2>3, <2>4, <2>5, <2>10
  <2>7. rpc'.step = "none"
    BY <1>2 DEF NoRpc
  <2>8. OverInTime'
    BY <1>2, <1>5, <2>3, <2>6, <2>7 DEF OverInTime
  <2>9. Counted' /\ RetryFits'
    BY <1>2, <1>5 DEF Timed, Counted, RetryFits, Total
  <2> QED
    BY <1>3, <2>8, <2>9 DEF Timed
<1> QED
  BY <1>2, <1>4, <1>5

LEMMA TimedTick ==
    ASSUME Sound, Timed, Tick
    PROVE  Timed'
<1>1. /\ UNCHANGED <<settings, phase, rpc, delay, timeout, deadline, retries, wake>>
      /\ now' = now + 1
      /\ phase = "sleeping" => now < wake
      /\ rpc.step = "grpc" => now < rpc.deadline
      /\ rpc.step # "answered"
  BY DEF Tick, loop
<1>2. /\ now \in Nat /\ wake \in Nat /\ rpc.deadline \in Int
  BY DEF Sound, TypeOK
<1>3. Over' = Over /\ Over \in Int /\ LongestDelay' = LongestDelay /\ LongestTimeout' = LongestTimeout
  BY <1>1, OverType, LongestNext DEF Over, Sound
<1>4. Backoff' /\ Counted' /\ RetryFits'
  BY <1>1, <1>2, <1>3, LongestNext DEF Timed, Backoff, Counted, RetryFits
<1>5. OverInTime'
  <2>1. SUFFICES ASSUME deadline > 0, settings.transport = "grpc" PROVE OverInTime'
    BY <1>1 DEF OverInTime
  <2>2. phase = "calling" => rpc.step = "grpc"
    BY <1>1, <2>1 DEF Timed, OverInTime
  <2>3. rpc.step = "grpc" => now + 1 =< rpc.deadline /\ rpc.deadline =< Over
    BY <1>1, <1>2, <2>1 DEF Timed, OverInTime
  <2>4. phase = "sleeping" => now + 1 =< wake /\ wake =< Over + LongestDelay
    BY <1>1, <1>2, <2>1 DEF Timed, OverInTime
  <2>5. rpc.step = "grpc" => now + 1 =< Over
    BY <1>2, <1>3, <2>3
  <2> QED
    BY <1>1, <1>3, <2>2, <2>3, <2>4, <2>5 DEF OverInTime
<1> QED
  BY <1>4, <1>5 DEF Timed

(* What neither starts an attempt nor lets time pass.                       *)
LEMMA TimedStill ==
    ASSUME Sound, Timed,
           UNCHANGED <<settings, now, delay, timeout, deadline, retries, wake>>,
           phase' = phase, rpc'.deadline = rpc.deadline,
           rpc.step = rpc'.step \/ (rpc'.step # "grpc" /\ (rpc.step = "grpc" => rpc'.step = "answered")),
           rpc.step = "answered" => rpc'.step = "answered"
    PROVE  Timed'
<1>1. Over' = Over /\ LongestDelay' = LongestDelay /\ LongestTimeout' = LongestTimeout
  BY LongestNext DEF Over
<1>2. Backoff' /\ Counted' /\ RetryFits'
  BY <1>1, LongestNext DEF Timed, Backoff, Counted, RetryFits
<1>3. OverInTime'
  BY <1>1 DEF Timed, OverInTime
<1> QED
  BY <1>2, <1>3 DEF Timed

LEMMA TimedStep == Sound /\ Sound' /\ Timed /\ [Next]_vars => Timed'
<1> SUFFICES ASSUME Sound, Sound', Timed, [Next]_vars PROVE Timed'
  OBVIOUS
<1>0. TypeOK /\ Shape /\ Shape' /\ rpc \in Rpcs
  BY DEF Sound, TypeOK, Rpcs, Steps
<1>1. ASSUME phase' \notin {"calling", "sleeping"}, UNCHANGED <<settings, now, delay, timeout, deadline>>,
             phase' = "finished" \/ phase # "finished"
      PROVE  Timed'
  <2>1. Backoff'
    BY <1>1, LongestNext DEF Timed, Backoff
  <2> QED
    BY <1>0, <1>1, <2>1, TimedAtRest
<1>2. CASE Start
  <2>1. CASE Invoke
    BY <1>2, <2>1, TimedInvoke DEF Start
  <2>2. CASE ~Invoke
    BY <1>1, <1>2, <2>2 DEF Start
  <2> QED
    BY <2>1, <2>2
<1>3. CASE StubFails
  BY <1>1, <1>3 DEF StubFails
<1>4. CASE NextPage
  <2>1. CASE Invoke
    BY <1>4, <2>1, TimedInvoke DEF NextPage
  <2>2. CASE ~Invoke
    BY <1>1, <1>4, <2>2 DEF NextPage
  <2> QED
    BY <2>1, <2>2
<1>5. CASE Cancel
  <2>1. UNCHANGED <<settings, now, delay, timeout, deadline, retries, wake>>
    BY <1>5 DEF Cancel
  <2>2. CASE UNCHANGED <<phase, rpc>>
    BY <2>1, <2>2, TimedStill
  <2>3. CASE phase = "sleeping" /\ phase' = "finished"
    BY <1>1, <2>1, <2>3
  <2>4. CASE UNCHANGED phase /\ rpc' = [rpc EXCEPT !.cancelled = TRUE]
    <3>1. rpc'.step = rpc.step /\ rpc'.deadline = rpc.deadline
      BY <1>0, <2>4 DEF Rpcs
    <3> QED
      BY <2>1, <2>4, <3>1, TimedStill
  <2> QED
    BY <1>5, <2>2, <2>3, <2>4 DEF Cancel, CancelLoop
<1>6. CASE Close \/ Deliver \/ UNCHANGED vars
  BY <1>6, TimedStill DEF Close, Deliver, vars, loop
<1>7. CASE Grpc \/ Fallback
  BY <1>0, <1>7, TransportCases, TimedStill
<1>8. CASE Answer
  BY <1>8, TimedAnswer
<1>9. CASE Wake
  BY <1>9, TimedWake
<1>10. CASE Tick
  BY <1>10, TimedTick
<1> QED
  BY <1>2, <1>3, <1>4, <1>5, <1>6, <1>7, <1>8, <1>9, <1>10 DEF Next

LEMMA TimedInit == Init => Timed
<1> SUFFICES ASSUME Init PROVE Timed
  OBVIOUS
<1>1. InitialTimeout > 0
  BY BackoffAssumption
<1>2. now = 1 /\ phase = "created" /\ deadline = 0 /\ retries = 0
      /\ delay = InitialDelay /\ timeout = InitialTimeout
  BY DEF Init
<1>3. LongestDelay \in Nat /\ InitialDelay =< LongestDelay /\ InitialTimeout =< LongestTimeout
  BY SoundInit, Longest DEF Sound
<1> QED
  BY <1>1, <1>2, <1>3, BackoffAssumption DEF Timed, Backoff, Counted, RetryFits, OverInTime

LEMMA TimedInvariant == Spec => []Timed
<1>1. Sound /\ Timed /\ [Next]_vars => Timed'
  BY SoundStep, TimedStep
<1> QED
  BY <1>1, TimedInit, SoundInvariant, PTL DEF Spec

(* The first attempt of a call has the timeout it was configured with: a    *)
(* page that is asked for again, or is not the first, is counted as such.   *)
Initial ==
    \/ phase = "created"
    \/ phase = "paging" /\ page = 0
    \/ phase = "calling" /\ retries = 1 /\ page =< 1

FirstTimeout ==
    /\ phase \in {"calling", "sleeping"} => retries >= 1 /\ (Paged => page >= 1)
    /\ Initial => timeout = InitialTimeout

LEMMA FirstTimeoutStep == Sound /\ Sound' /\ FirstTimeout /\ [Next]_vars => FirstTimeout'
<1> SUFFICES ASSUME Sound, Sound', FirstTimeout, [Next]_vars PROVE FirstTimeout'
  OBVIOUS
<1>0. TypeOK /\ Shape /\ retries \in Nat /\ page \in Nat
  BY SettingsType DEF Sound, TypeOK
<1>1. ASSUME UNCHANGED <<settings, page, timeout, retries>>,
             phase' \in {phase, "finished"} \/ (phase = "created" /\ phase' = "paging")
      PROVE  FirstTimeout'
  BY <1>1 DEF FirstTimeout, Initial, Paged
<1>2. ASSUME phase \in {"created", "paging"}, Invoke, UNCHANGED <<settings, timeout>>,
             \/ phase = "created" /\ page' = page /\ ~Paged
             \/ phase = "paging" /\ page' = page + 1
      PROVE  FirstTimeout'
  <2>1. rpc = NoRpc /\ retries = 0
    BY <1>0, <1>2 DEF Shape
  <2>2. Ended \/ Attempted(deadline', timeout)
    BY <1>0, <1>2, <2>1, InvokeCases
  <2>3. CASE Ended
    BY <2>3 DEF Ended, FirstTimeout, Initial
  <2>4. CASE Attempted(deadline', timeout)
    <3>1. phase' = "calling" /\ retries' = 1
      BY <2>1, <2>4 DEF Attempted
    <3>2. page' =< 1 => Initial
      BY <1>0, <1>2 DEF Initial
    <3> QED
      BY <1>0, <1>2, <3>1, <3>2 DEF FirstTimeout, Initial, Paged
  <2> QED
    BY <2>2, <2>3, <2>4
<1>3. CASE Start
  <2>1. CASE Invoke /\ ~Paged
    BY <1>2, <1>3, <2>1 DEF Start
  <2>2. CASE ~(Invoke /\ ~Paged)
    BY <1>1, <1>3, <2>2 DEF Start
  <2> QED
    BY <2>1, <2>2
<1>4. CASE StubFails
  BY <1>1, <1>4 DEF StubFails
<1>5. CASE NextPage
  <2>1. CASE Invoke
    BY <1>2, <1>5, <2>1 DEF NextPage
  <2>2. CASE ~Invoke
    BY <1>5, <2>2 DEF NextPage, FirstTimeout, Initial
  <2> QED
    BY <2>1, <2>2
<1>6. CASE Cancel
  BY <1>1, <1>6 DEF Cancel, CancelLoop
<1>7. CASE Close \/ Deliver \/ Tick \/ UNCHANGED vars
  BY <1>1, <1>7 DEF Close, Deliver, Tick, vars, loop
<1>8. CASE Grpc \/ Fallback
  BY <1>0, <1>1, <1>8, TransportCases
<1>9. CASE Answer
  <2>1. phase = "calling" /\ UNCHANGED <<settings, timeout, page>>
        /\ \/ phase' = "paging" /\ page < settings.pages
           \/ phase' = "finished"
           \/ phase' = "sleeping" /\ retries' = retries
    BY <1>0, <1>9 DEF Answer, Received, Finish, Shape
  <2>2. phase' = "paging" => page' >= 1
    BY <1>0, <2>1, SettingsType DEF FirstTimeout, Paged
  <2> QED
    BY <1>0, <2>1, <2>2 DEF FirstTimeout, Initial, Paged
<1>10. CASE Wake
  <2>1. /\ phase = "sleeping" /\ rpc = NoRpc /\ UNCHANGED <<settings, page>>
        /\ Repeat(deadline, NextTimeout) /\ deadline \in Int /\ timeout' = NextTimeout
    BY <1>0, <1>10 DEF Wake, Shape, TypeOK
  <2>2. NextTimeout \in Int
    BY <2>1 DEF Sound, TypeOK
  <2>3. Ended \/ Attempted(deadline, NextTimeout)
    BY <1>0, <2>1, <2>2, RepeatCases
  <2>4. phase' = "finished" \/ (phase' = "calling" /\ retries' = retries + 1)
    BY <2>3 DEF Ended, Attempted
  <2> QED
    BY <1>0, <2>1, <2>4 DEF FirstTimeout, Initial, Paged
<1> QED
  BY <1>3, <1>4, <1>5, <1>6, <1>7, <1>8, <1>9, <1>10 DEF Next

LEMMA FirstTimeoutInvariant == Spec => []FirstTimeout
<1>1. Init => FirstTimeout
  BY DEF Init, FirstTimeout
<1>2. Sound /\ FirstTimeout /\ [Next]_vars => FirstTimeout'
  BY SoundStep, FirstTimeoutStep
<1> QED
  BY <1>1, <1>2, SoundInvariant, PTL DEF Spec

LEMMA TimedImpliesFit == Sound /\ Timed /\ FirstTimeout => RetriesFitTotalTimeout
<1> SUFFICES ASSUME Sound, Timed, FirstTimeout, deadline > 0 PROVE RetriesFitTotalTimeout
  BY DEF RetriesFitTotalTimeout
<1> DEFINE retry == deadline - settings.totalTimeout + LongestTimeout
<1>1. /\ deadline \in Nat /\ settings.totalTimeout \in Nat /\ now \in Nat /\ wake \in Nat
      /\ timeout \in Int /\ settings.timeoutMultiplier \in Nat /\ settings.maxTimeout \in Nat
  BY SettingsType DEF Sound, TypeOK
<1>2. /\ Max({InitialTimeout, settings.maxTimeout}) = LongestTimeout
      /\ Max({1, InitialDelay, MaxDelay}) = LongestDelay
  BY <1>1, BackoffAssumption, MaxOfTwo, MaxOfThree DEF LongestTimeout, LongestDelay
<1>3. LongestTimeout \in Nat /\ LongestDelay \in Nat
  BY Longest DEF Sound
<1>4. retry \in Int
  BY <1>1, <1>3
<1>5. Max({deadline, retry}) = Over
  BY <1>1, <1>4, MaxOfTwo DEF Over
<1>6. Over \in Int
  BY OverType DEF Sound
<1>7. phase \in {"calling", "sleeping"} /\ settings.transport = "grpc" => now =< Over + LongestDelay
  BY <1>1, <1>3, <1>6 DEF Timed, OverInTime
<1>8. phase = "calling" => timeout > 0 \/ settings.timeoutMultiplier = 0 \/ settings.maxTimeout = 0
  BY <1>1 DEF Timed, Backoff, Scaled
<1>9. phase = "calling" /\ retries > 1 => rpc.deadline =< deadline
  BY DEF Timed, RetryFits
<1>10. phase = "calling" /\ retries = 1 /\ page =< 1 => timeout > 0
  BY BackoffAssumption DEF FirstTimeout, Initial
<1> QED
  BY <1>2, <1>5, <1>7, <1>8, <1>9, <1>10 DEF RetriesFitTotalTimeout

(* With a total timeout the first attempt has time to run, and every other  *)
(* one too unless the multiplier or the maximum of the timeouts is null; a  *)
(* retry is over by the total deadline; and a call over gRPC ends at most   *)
(* one backoff after the later of that deadline and its first attempt.      *)
(* This is so for every initial timeout (which is never null: the timeout   *)
(* of the call is the default), for all other backoff settings, null ones   *)
(* included, and however many pages have been asked for before.             *)
THEOREM AttemptsFitTotalTimeout == Spec => []RetriesFitTotalTimeout
  BY SoundInvariant, TimedInvariant, FirstTimeoutInvariant, TimedImpliesFit, PTL

=============================================================================
