--------------------------- MODULE Bundling_proofs ---------------------------
(***************************************************************************)
(* Theorems about bundling.  BundleExecutor: for every set of calls, every *)
(* size and every choice of the options, each call has one place, its own  *)
(* response and a request within the limits.  BundleIds: what the request  *)
(* of a bundle says holds for every call in it, for any requests and any   *)
(* discriminator fields.  BundledCall: the executor below the promises     *)
(* keeps its ownership invariant, and every promise follows what it        *)
(* answers.  No part uses an assumption of another but of BundleExecutor.  *)
(***************************************************************************)
EXTENDS BundleIds, BundledCall, SequenceLemmas

-----------------------------------------------------------------------------
(* BundleExecutor: lemmas about the operators of the model.                 *)

(* Task.extend adds its call to the members of the task, and nothing else.  *)
LEMMA ExtendMembers ==
    ASSUME NEW S, NEW s \in Seq(S), NEW x \in S
    PROVE  /\ Append(s, x) \in Seq(S)
           /\ ToSet(Append(s, x)) = ToSet(s) \cup {x}
           /\ Append(s, x) # <<>>
           /\ IsInjective(s) /\ x \notin ToSet(s) => IsInjective(Append(s, x))
<1> DEFINE t == Append(s, x)
<1>1. /\ t \in Seq(S)
      /\ Len(t) = Len(s) + 1
      /\ \A i \in 1 .. Len(s) : t[i] = s[i]
      /\ t[Len(s) + 1] = x
  OBVIOUS
<1>2. DOMAIN t = 1 .. Len(s) + 1 /\ DOMAIN s = 1 .. Len(s)
  BY <1>1
<1> HIDE DEF t
<1>3. ToSet(t) = ToSet(s) \cup {x}
  BY <1>1, <1>2 DEF ToSet
<1>4. t # <<>>
  BY <1>1
<1>5. ASSUME IsInjective(s), x \notin ToSet(s),
             NEW i \in DOMAIN t, NEW j \in DOMAIN t, t[i] = t[j]
      PROVE  i = j
  BY <1>1, <1>2, <1>5 DEF IsInjective, ToSet
<1> QED
  BY <1>1, <1>3, <1>4, <1>5 DEF IsInjective, t

(* The splice of Task.cancel removes its call from the members of a task in *)
(* which no call occurs twice, and nothing else.                            *)
LEMMA WithoutMembers ==
    ASSUME NEW s \in Seq(Calls), NEW c \in Calls, IsInjective(s)
    PROVE  /\ Without(s, c) \in Seq(Calls)
           /\ ToSet(Without(s, c)) = ToSet(s) \ {c}
           /\ IsInjective(Without(s, c))
<1>1. CASE ~ \E i \in DOMAIN s : s[i] = c
  BY <1>1 DEF Without, ToSet
<1>2. CASE \E i \in DOMAIN s : s[i] = c
  <2> DEFINE k == CHOOSE i \in DOMAIN s : s[i] = c
             r == Without(s, c)
  <2>1. k \in DOMAIN s /\ s[k] = c
    BY <1>2
  <2>2. k \in 1 .. Len(s)
    BY <2>1
  <2>3. r = SubSeq(s, 1, k - 1) \o SubSeq(s, k + 1, Len(s))
    BY <1>2 DEF Without, RemoveAt
  <2> HIDE DEF k, r
  <2>4. /\ r \in Seq(Calls)
        /\ Len(r) = Len(s) - 1
        /\ \A i \in 1 .. Len(r) : r[i] = IF i < k THEN s[i] ELSE s[i + 1]
    <3> DEFINE p == SubSeq(s, 1, k - 1)
               q == SubSeq(s, k + 1, Len(s))
    <3>1. /\ p \in Seq(Calls) /\ Len(p) = k - 1
          /\ \A i \in 1 .. k - 1 : p[i] = s[i]
      BY <2>2
    <3>2. /\ q \in Seq(Calls) /\ Len(q) = Len(s) - k
          /\ \A i \in 1 .. Len(s) - k : q[i] = s[i + k]
      BY <2>2
    <3>3. r = p \o q
      BY <2>3
    <3> HIDE DEF p, q
    <3>4. r \in Seq(Calls) /\ Len(r) = Len(s) - 1
      BY <2>2, <3>1, <3>2, <3>3
    <3>5. ASSUME NEW i \in 1 .. Len(r), i < k PROVE r[i] = s[i]
      <4>1. i \in 1 .. k - 1
        BY <3>4, <3>5, <2>2
      <4>2. i \in 1 .. Len(p) /\ i \in 1 .. Len(p) + Len(q)
        BY <4>1, <2>2, <3>1, <3>2
      <4>3. r[i] = p[i]
        BY <4>2, <3>1, <3>2, <3>3
      <4> QED
        BY <3>1, <4>1, <4>3
    <3>6. ASSUME NEW i \in 1 .. Len(r), ~(i < k) PROVE r[i] = s[i + 1]
      <4>1. i - (k - 1) \in 1 .. Len(s) - k /\ i - (k - 1) + k = i + 1
        BY <2>2, <3>4, <3>6
      <4>2. i \in 1 .. Len(p) + Len(q) /\ ~(i =< Len(p)) /\ i - Len(p) = i - (k - 1)
        BY <2>2, <3>1, <3>2, <3>4, <3>6
      <4>3. r[i] = q[i - Len(p)]
        BY <4>2, <3>1, <3>2, <3>3
      <4> QED
        BY <3>2, <4>1, <4>2, <4>3
    <3> QED
      BY <3>4, <3>5, <3>6
  <2>5. \A i \in DOMAIN s : i # k => s[i] # c
    BY <2>1 DEF IsInjective
  <2>6. IsInjective(r)
    <3>1. \A i, j \in 1 .. Len(s) : s[i] = s[j] => i = j
      BY DEF IsInjective
    <3>2. \A i, j \in 1 .. Len(r) : r[i] = r[j] => i = j
      BY <2>2, <2>4, <3>1
    <3> QED
      BY <2>4, <3>2 DEF IsInjective
  <2>7. ToSet(r) \subseteq ToSet(s) \ {c}
    BY <2>2, <2>4, <2>5 DEF ToSet
  <2>8. ASSUME NEW i \in DOMAIN s, s[i] # c
        PROVE  s[i] \in ToSet(r)
    <3>1. CASE i < k
      BY <2>2, <2>4, <3>1 DEF ToSet
    <3>2. CASE i > k
      <4>1. i - 1 \in 1 .. Len(r) /\ ~(i - 1 < k) /\ (i - 1) + 1 = i
        BY <2>2, <2>4, <3>2
      <4>2. r[i - 1] = s[i]
        BY <2>4, <4>1
      <4> QED
        BY <2>4, <4>1, <4>2 DEF ToSet
    <3> QED
      BY <2>1, <2>2, <2>8, <3>1, <3>2
  <2> QED
    BY <2>4, <2>6, <2>7, <2>8 DEF ToSet, r
<1> QED
  BY <1>1, <1>2

-----------------------------------------------------------------------------
(* Type correctness.                                                        *)

LEMMA TypeInit == Init => TypeOK
  BY IdsAssumption DEF Init, TypeOK

(* What Tell, Run and Forget leave in the variables they write.             *)
LEMMA TellType ==
    ASSUME TypeOK, NEW S, NEW err \in Errors \cup {"none"}, Tell(S, err)
    PROVE  outcomes' \in [Calls -> Seq(Errors \cup {"none"})]
  BY DEF TypeOK, Tell

LEMMA NewTaskType ==
    ASSUME NEW c \in Calls
    PROVE  NewTask(c) \in Task
  BY DEF NewTask, Task

LEMMA ExtendType ==
    ASSUME NEW task \in Task, NEW c \in Calls
    PROVE  Extend(task, c) \in Task
  BY DEF Extend, Task

LEMMA ForgetType ==
    ASSUME NEW inv \in [Calls -> BundleIds \cup {NoBundle}], NEW sent
    PROVE  Forget(inv, sent) \in [Calls -> BundleIds \cup {NoBundle}]
  BY DEF Forget

LEMMA WithoutType ==
    ASSUME NEW s \in Seq(Calls), NEW c
    PROVE  Without(s, c) \in Seq(Calls)
<1>1. ASSUME NEW k \in DOMAIN s
      PROVE  RemoveAt(s, k) \in Seq(Calls)
  BY <1>1 DEF RemoveAt
<1> QED
  BY <1>1 DEF Without

LEMMA RunNowType ==
    ASSUME TypeOK, NEW b \in BundleIds, RunNow(b) PROVE TypeOK'
<1>1. Forget(invocations, {tasks[b]}) \in [Calls -> BundleIds \cup {NoBundle}]
  BY ForgetType DEF TypeOK
<1>2. tasks[b] \in Task
  BY DEF TypeOK, RunNow
<1> QED
  BY <1>1, <1>2 DEF TypeOK, RunNow, Run, answers

LEMMA TypeStep == TypeOK /\ [Next]_vars => TypeOK'
<1> SUFFICES ASSUME TypeOK, [Next]_vars PROVE TypeOK'
  OBVIOUS
<1> USE IdsAssumption
<1>1. ASSUME NEW c \in Calls, ScheduleImmediately(c) PROVE TypeOK'
  <2>1. Extend(NewTask(c), c) \in Task
    BY NewTaskType, ExtendType
  <2> QED
    BY <1>1, <2>1 DEF TypeOK, ScheduleImmediately, Run, answers
<1>2. ASSUME NEW c \in Calls, ScheduleRejected(c) PROVE TypeOK'
  <2>1. BundleOf[c] \in BundleIds
    BY <1>2 DEF ScheduleRejected
  <2>2. tasks' \in [BundleIds -> Task \cup {NoTask}]
    BY <1>2, <2>1, NewTaskType DEF TypeOK, ScheduleRejected
  <2>3. outcomes' \in [Calls -> Seq(Errors \cup {"none"})]
    BY <1>2, TellType DEF ScheduleRejected, Errors
  <2> QED
    BY <1>2, <2>1, <2>2, <2>3 DEF TypeOK, ScheduleRejected
<1>3. ASSUME NEW c \in Calls, ScheduleBundled(c) PROVE TypeOK'
  <2> DEFINE b       == BundleOf[c]
             pending == IF tasks[b] = NoTask THEN NewTask(c) ELSE tasks[b]
             flush   == WouldReachLimit(pending.data, c)
             task    == Extend(IF flush THEN NewTask(c) ELSE pending, c)
             full    == ReachesThreshold(task.data)
             sent    == (IF flush THEN {pending} ELSE {})
                          \cup (IF full THEN {task} ELSE {})
             inv     == [invocations EXCEPT ![c] = b]
  <2>1. b \in BundleIds
    BY <1>3 DEF ScheduleBundled
  <2>2. pending \in Task /\ task \in Task
    BY <2>1, NewTaskType, ExtendType DEF TypeOK
  <2>3. sent \subseteq Task
    BY <2>2
  <2>4. inv \in [Calls -> BundleIds \cup {NoBundle}]
    BY <2>1 DEF TypeOK
  <2>5. tasks' = [tasks EXCEPT ![b] = IF full THEN NoTask ELSE task]
    BY <1>3 DEF ScheduleBundled
  <2>6. timers' \subseteq timers \cup {b}
    BY <1>3 DEF ScheduleBundled
  <2>7. invocations' = Forget(inv, sent) /\ Run(sent)
    BY <1>3 DEF ScheduleBundled
  <2>8. scheduled' = scheduled \cup {c} /\ UNCHANGED answers
    BY <1>3 DEF ScheduleBundled
  <2> HIDE DEF b, pending, flush, task, full, sent, inv
  <2>9. invocations' \in [Calls -> BundleIds \cup {NoBundle}]
    BY <2>4, <2>7, ForgetType
  <2> QED
    BY <2>1, <2>2, <2>3, <2>5, <2>6, <2>7, <2>8, <2>9 DEF TypeOK, Run, answers
<1>4. ASSUME NEW c \in Calls, Cancel(c) PROVE TypeOK'
  <2> DEFINE b    == invocations[c]
             left == Without(tasks[b].data, c)
  <2>1. b \in BundleIds /\ tasks[b] \in Task
    BY <1>4 DEF Cancel, TypeOK
  <2>2. left \in Seq(Calls)
    <3>1. tasks[b].data \in Seq(Calls)
      BY <2>1 DEF Task
    <3> QED
      BY <3>1, WithoutType
  <2>3. tasks' = [tasks EXCEPT ![b] = IF left = <<>> THEN NoTask
                                      ELSE [tasks[b] EXCEPT !.data = left]]
    BY <1>4 DEF Cancel, TypeOK
  <2>4. [tasks[b] EXCEPT !.data = left] \in Task
    BY <2>1, <2>2 DEF Task
  <2>5. tasks' \in [BundleIds -> Task \cup {NoTask}]
    BY <2>1, <2>3, <2>4 DEF TypeOK
  <2>6. outcomes' \in [Calls -> Seq(Errors \cup {"none"})]
    BY <1>4, TellType DEF Cancel, Errors
  <2>7. /\ timers' \subseteq timers
        /\ invocations' = [invocations EXCEPT ![c] = NoBundle]
        /\ UNCHANGED <<inflight, scheduled, received>>
    BY <1>4 DEF Cancel
  <2> QED
    BY <2>5, <2>6, <2>7 DEF TypeOK
<1>5. ASSUME NEW b \in BundleIds, Timeout(b) PROVE TypeOK'
  <2>1. CASE RunNow(b)
    BY <2>1, RunNowType
  <2>2. CASE ~RunNow(b)
    BY <1>5, <2>2 DEF TypeOK, Timeout, answers
  <2> QED
    BY <2>1, <2>2
<1>6. ASSUME NEW task \in inflight, ApiResponds(task) PROVE TypeOK'
  <2>1. outcomes' \in [Calls -> Seq(Errors \cup {"none"})]
    BY <1>6, TellType DEF ApiResponds
  <2> QED
    BY <1>6, <2>1 DEF TypeOK, ApiResponds
<1>7. ASSUME NEW task \in inflight, ApiFails(task) PROVE TypeOK'
  <2>1. outcomes' \in [Calls -> Seq(Errors \cup {"none"})]
    BY <1>7, TellType DEF ApiFails, Errors
  <2> QED
    BY <1>7, <2>1 DEF TypeOK, ApiFails
<1>8. CASE UNCHANGED vars
  BY <1>8 DEF TypeOK, vars
<1> QED
  BY <1>1, <1>2, <1>3, <1>4, <1>5, <1>6, <1>7, <1>8 DEF Next, Schedule

(* The variables of the executor always have their types: an entry of       *)
(* `_tasks` is a task or absent, whatever is scheduled, cancelled or fired. *)
THEOREM TypeCorrect == Spec => []TypeOK
  BY TypeInit, TypeStep, PTL DEF Spec

-----------------------------------------------------------------------------
(* Every call has one owner.  OnePlace and InvocationsLead are not          *)
(* inductive: they do not say that a pending task holds each call once and  *)
(* only calls of its own bundle id, nor that `_invocations` distinguishes   *)
(* waiting calls from sent ones, which is what keeps a cancel away from a   *)
(* request that has left.                                                   *)

WaitingOwned ==
    \A b \in BundleIds : tasks[b] # NoTask =>
        /\ IsInjective(tasks[b].data)
        /\ \A c \in ToSet(tasks[b].data) :
              /\ BundleOf[c] = b
              /\ c \in scheduled
              /\ outcomes[c] = <<>>
              /\ invocations[c] = b

SentOwned ==
    \A t \in inflight : \A c \in ToSet(t.data) :
        /\ c \in scheduled
        /\ outcomes[c] = <<>>
        /\ invocations[c] = NoBundle

BatchesDisjoint ==
    \A t, u \in inflight : t # u => ToSet(t.data) \cap ToSet(u.data) = {}

IdleUntouched ==
    \A c \in Calls \ scheduled : outcomes[c] = <<>> /\ invocations[c] = NoBundle

NoneLost ==
    \A c \in scheduled : Pending(c) \/ Sent(c) \/ Len(outcomes[c]) = 1

StaleOnlyRejected ==
    \A c \in Calls : invocations[c] # NoBundle =>
        \/ Pending(c) /\ invocations[c] = BundleOf[c]
        \/ ExceedsLimit(c) /\ outcomes[c] # <<>>

Ownership ==
    /\ TypeOK
    /\ WaitingOwned
    /\ SentOwned
    /\ BatchesDisjoint
    /\ IdleUntouched
    /\ NoneLost
    /\ StaleOnlyRejected

(* A callback that was not called before has been called once afterwards.   *)
LEMMA FirstOutcome ==
    ASSUME NEW s, s = <<>>, NEW err
    PROVE  Append(s, err) # <<>> /\ Len(Append(s, err)) = 1
  OBVIOUS

LEMMA OwnershipInit == Init => Ownership
<1> SUFFICES ASSUME Init PROVE Ownership
  OBVIOUS
<1>1. TypeOK
  BY TypeInit
<1> QED
  BY <1>1 DEF Init, Ownership, WaitingOwned, SentOwned, BatchesDisjoint,
              IdleUntouched, NoneLost, StaleOnlyRejected

(* The members of a task are calls.                                         *)
LEMMA MembersAreCalls ==
    ASSUME NEW task \in Task
    PROVE  task.data \in Seq(Calls) /\ ToSet(task.data) \subseteq Calls
  BY DEF Task, ToSet

(* A turn that sends tasks and starts, keeps or drops the pending task of   *)
(* one bundle id.  `gone` are the tasks sent, `P` the calls that waited and *)
(* `N` those that wait afterwards: the same calls, with the new one.        *)
Move(b, gone, new, P, N) ==
    /\ gone \subseteq Task /\ new \subseteq Calls /\ P \subseteq Calls /\ N \subseteq P \cup new
    /\ tasks[b] = NoTask => P = {}
    /\ tasks[b] # NoTask => P = ToSet(tasks[b].data)
    /\ tasks'[b] = NoTask => N = {}
    /\ tasks'[b] # NoTask => N = ToSet(tasks'[b].data) /\ IsInjective(tasks'[b].data)
    /\ \A d \in BundleIds \ {b} : tasks'[d] = tasks[d]
    /\ \A c \in new : c \notin scheduled /\ BundleOf[c] = b
    /\ \A t \in gone : ToSet(t.data) \subseteq (P \cup new) \ N
    /\ \A c \in P \cup new : c \in N \/ \E t \in gone : c \in ToSet(t.data)
    /\ \A t, u \in gone : t # u => ToSet(t.data) \cap ToSet(u.data) = {}
    /\ scheduled' = scheduled \cup new
    /\ inflight' = inflight \cup {t \in gone : t.data # <<>>}
    /\ \A c \in Calls : invocations'[c] =
          IF \E t \in gone : c \in ToSet(t.data) THEN NoBundle
          ELSE IF c \in new THEN b ELSE invocations[c]
    /\ outcomes' = outcomes

LEMMA MoveKeepsOwnership ==
    ASSUME Ownership, TypeOK', NEW b \in BundleIds,
           NEW gone, NEW new, NEW P, NEW N, Move(b, gone, new, P, N)
    PROVE  Ownership'
<1> USE IdsAssumption DEF Move
<1>1. \A c \in P : /\ BundleOf[c] = b /\ c \in scheduled
                   /\ outcomes[c] = <<>> /\ invocations[c] = b
  BY DEF Ownership, WaitingOwned
<1>2. \A c \in new : outcomes[c] = <<>> /\ invocations[c] = NoBundle
  BY DEF Ownership, IdleUntouched
<1>3. \A c \in P \cup new : BundleOf[c] = b /\ c \in scheduled' /\ outcomes'[c] = <<>>
  BY <1>1, <1>2
<1>4. \A t \in gone : \A c \in ToSet(t.data) : c \in P \cup new /\ c \notin N
  OBVIOUS
<1>5. \A c \in N : invocations'[c] = b
  BY <1>1, <1>4
<1>6. WaitingOwned'
  <2>1. tasks'[b] # NoTask =>
          /\ IsInjective(tasks'[b].data)
          /\ \A c \in ToSet(tasks'[b].data) :
                BundleOf[c] = b /\ c \in scheduled' /\ outcomes'[c] = <<>>
                /\ invocations'[c] = b
    BY <1>3, <1>5
  <2>2. ASSUME NEW d \in BundleIds, d # b, tasks[d] # NoTask,
               NEW c \in ToSet(tasks[d].data)
        PROVE  BundleOf[c] = d /\ c \in scheduled' /\ outcomes'[c] = <<>>
               /\ invocations'[c] = d
    <3>1. /\ BundleOf[c] = d /\ c \in scheduled /\ outcomes[c] = <<>>
          /\ invocations[c] = d
      BY <2>2 DEF Ownership, WaitingOwned
    <3>2. c \notin P \cup new
      BY <1>1, <2>2, <3>1
    <3>3. c \in Calls
      BY <2>2, MembersAreCalls DEF Ownership, TypeOK
    <3> QED
      BY <1>4, <3>1, <3>2, <3>3
  <2>3. \A d \in BundleIds \ {b} : tasks[d] # NoTask => IsInjective(tasks[d].data)
    BY DEF Ownership, WaitingOwned
  <2> QED
    BY <2>1, <2>2, <2>3 DEF WaitingOwned
<1>7. \A t \in inflight : \A c \in ToSet(t.data) :
         c \in Calls /\ c \in scheduled /\ outcomes[c] = <<>>
         /\ invocations[c] = NoBundle /\ c \notin P \cup new
  <2> SUFFICES ASSUME NEW t \in inflight, NEW c \in ToSet(t.data)
               PROVE  c \in Calls /\ c \in scheduled /\ outcomes[c] = <<>>
                      /\ invocations[c] = NoBundle /\ c \notin P \cup new
    OBVIOUS
  <2>1. c \in Calls
    BY MembersAreCalls DEF Ownership, TypeOK
  <2>2. c \in scheduled /\ outcomes[c] = <<>> /\ invocations[c] = NoBundle
    BY DEF Ownership, SentOwned
  <2> QED
    BY <1>1, <2>1, <2>2
<1>8. SentOwned'
  <2> SUFFICES ASSUME NEW t \in inflight', NEW c \in ToSet(t.data)
               PROVE  c \in scheduled' /\ outcomes'[c] = <<>>
                      /\ invocations'[c] = NoBundle
    BY DEF SentOwned
  <2>1. CASE t \in inflight
    BY <1>4, <1>7, <2>1
  <2>2. CASE t \in gone
    BY <1>3, <1>4, <2>2
  <2> QED
    BY <2>1, <2>2
<1>9. BatchesDisjoint'
  <2> SUFFICES ASSUME NEW t \in inflight', NEW u \in inflight', t # u,
                      NEW c, c \in ToSet(t.data), c \in ToSet(u.data)
               PROVE  FALSE
    BY DEF BatchesDisjoint
  <2>1. ~(t \in inflight /\ u \in inflight)
    BY DEF Ownership, BatchesDisjoint
  <2>2. ~(t \in gone /\ u \in gone)
    OBVIOUS
  <2>3. ~(t \in inflight /\ u \in gone) /\ ~(t \in gone /\ u \in inflight)
    BY <1>4, <1>7
  <2>4. (t \in inflight \/ t \in gone) /\ (u \in inflight \/ u \in gone)
    OBVIOUS
  <2> QED
    BY ONLY <2>1, <2>2, <2>3, <2>4
<1>10. IdleUntouched'
  BY <1>3, <1>4 DEF Ownership, IdleUntouched
<1>11. \A c \in P \cup new : Pending(c)' \/ Sent(c)'
  <2> SUFFICES ASSUME NEW c \in P \cup new PROVE Pending(c)' \/ Sent(c)'
    OBVIOUS
  <2>1. CASE c \in N
    BY <2>1 DEF Pending
  <2>2. CASE c \notin N
    <3>1. PICK t \in gone : c \in ToSet(t.data)
      BY <2>2
    <3>2. t.data # <<>>
      BY <3>1 DEF ToSet
    <3> QED
      BY <3>1, <3>2 DEF Sent
  <2> QED
    BY <2>1, <2>2
<1>12. ASSUME NEW c \in Calls, Pending(c), c \notin P PROVE Pending(c)'
  BY <1>12 DEF Pending
<1>13. ASSUME NEW c, Sent(c) PROVE Sent(c)'
  BY <1>13 DEF Sent
<1>14. NoneLost'
  <2> SUFFICES ASSUME NEW c \in scheduled', c \notin P, c \notin new
               PROVE  Pending(c)' \/ Sent(c)' \/ Len(outcomes'[c]) = 1
    BY <1>11 DEF NoneLost
  <2>1. c \in scheduled /\ c \in Calls
    BY DEF Ownership, TypeOK
  <2> QED
    BY <1>12, <1>13, <2>1 DEF Ownership, NoneLost
<1>15. StaleOnlyRejected'
  <2> SUFFICES ASSUME NEW c \in Calls, invocations'[c] # NoBundle
               PROVE  \/ Pending(c)' /\ invocations'[c] = BundleOf[c]
                      \/ ExceedsLimit(c) /\ outcomes'[c] # <<>>
    BY DEF StaleOnlyRejected, ExceedsLimit
  <2>1. CASE c \in P \cup new
    <3>1. c \in N
      BY <2>1
    <3> QED
      BY <1>3, <1>5, <2>1, <3>1 DEF Pending
  <2>2. CASE c \notin P \cup new
    <3>1. invocations'[c] = invocations[c]
      BY <1>4, <2>2
    <3> QED
      BY <1>12, <2>2, <3>1 DEF Ownership, StaleOnlyRejected
  <2> QED
    BY <2>1, <2>2
<1> QED
  BY <1>6, <1>8, <1>9, <1>10, <1>14, <1>15 DEF Ownership

(* Ownership does not depend on the timers.                                 *)
LEMMA SameOwnership ==
    ASSUME Ownership, TypeOK',
           UNCHANGED <<tasks, invocations, inflight, scheduled, outcomes>>
    PROVE  Ownership'
<1>1. WaitingOwned' /\ SentOwned' /\ BatchesDisjoint' /\ IdleUntouched'
  BY DEF Ownership, WaitingOwned, SentOwned, BatchesDisjoint, IdleUntouched
<1>2. \A c : (Pending(c)' <=> Pending(c)) /\ (Sent(c)' <=> Sent(c))
  BY DEF Pending, Sent
<1>3. NoneLost' /\ StaleOnlyRejected'
  BY <1>2 DEF Ownership, NoneLost, StaleOnlyRejected, ExceedsLimit
<1> QED
  BY <1>1, <1>3 DEF Ownership

(* What a turn sends, as sets of calls.                                     *)
Batches(sent) == {ToSet(t.data) : t \in sent}

(* Scheduling a bundled call moves it, and the calls `P` that waited in its *)
(* bundle: all of them leave, or none does, and if they leave without the   *)
(* new call it may leave on its own.                                        *)
Departs(c, sent, P, N) ==
    /\ c \notin P
    /\ \/ Batches(sent) = {} /\ N = P \cup {c}
       \/ Batches(sent) = {P} /\ N = {c}
       \/ Batches(sent) = {P \cup {c}} /\ N = {}
       \/ Batches(sent) = {P, {c}} /\ N = {}

LEMMA BundledMove ==
    ASSUME Ownership, NEW c \in Calls, ScheduleBundled(c)
    PROVE  \E sent, P, N : Move(BundleOf[c], sent, {c}, P, N) /\ Departs(c, sent, P, N)
<1> USE IdsAssumption
<1>0. TypeOK
  BY DEF Ownership
<1> DEFINE b       == BundleOf[c]
           pending == IF tasks[b] = NoTask THEN NewTask(c) ELSE tasks[b]
           flush   == WouldReachLimit(pending.data, c)
           opened  == IF flush THEN NewTask(c) ELSE pending
           task    == Extend(opened, c)
           full    == ReachesThreshold(task.data)
           sent    == (IF flush THEN {pending} ELSE {})
                        \cup (IF full THEN {task} ELSE {})
           P       == ToSet(pending.data)
           N       == IF full THEN {} ELSE ToSet(task.data)
<1>1. /\ b \in BundleIds /\ c \notin scheduled
      /\ scheduled' = scheduled \cup {c}
      /\ tasks' = [tasks EXCEPT ![b] = IF full THEN NoTask ELSE task]
      /\ invocations' = Forget([invocations EXCEPT ![c] = b], sent)
      /\ Run(sent)
      /\ outcomes' = outcomes
  BY DEF ScheduleBundled, answers
<1>2. pending \in Task /\ opened \in Task /\ task \in Task
  BY <1>0, <1>1, NewTaskType, ExtendType DEF TypeOK
<1>3. /\ tasks[b] = NoTask => P = {}
      /\ tasks[b] # NoTask => P = ToSet(tasks[b].data)
  BY DEF NewTask, ToSet
<1>4. IsInjective(pending.data) /\ c \notin P
  <2>1. CASE tasks[b] = NoTask
    BY <2>1 DEF NewTask, ToSet, IsInjective
  <2>2. CASE tasks[b] # NoTask
    BY <1>1, <2>2 DEF Ownership, WaitingOwned
  <2> QED
    BY <2>1, <2>2
<1>5. ToSet(opened.data) = (IF flush THEN {} ELSE P) /\ IsInjective(opened.data)
  BY <1>4 DEF NewTask, ToSet, IsInjective
<1>6. /\ task.data = Append(opened.data, c)
      /\ ToSet(task.data) = ToSet(opened.data) \cup {c}
      /\ IsInjective(task.data)
  <2>1. opened.data \in Seq(Calls)
    BY <1>2, MembersAreCalls
  <2>2. task.data = Append(opened.data, c)
    BY <1>2 DEF Extend, Task
  <2> HIDE DEF opened, task
  <2>3. ToSet(Append(opened.data, c)) = ToSet(opened.data) \cup {c}
    BY <2>1, ExtendMembers
  <2>4. c \notin ToSet(opened.data)
    BY <1>4, <1>5
  <2> QED
    BY <1>5, <2>1, <2>2, <2>3, <2>4, ExtendMembers
<1>7. P \subseteq Calls /\ ToSet(task.data) \subseteq Calls
  BY <1>2, MembersAreCalls
<1> HIDE DEF pending, opened, task, flush, full, P
<1>8. ToSet(task.data) = (IF flush THEN {} ELSE P) \cup {c}
  BY <1>5, <1>6
<1>9. /\ sent \in SUBSET Task
      /\ \A t \in sent : (t = pending /\ flush) \/ (t = task /\ full)
  BY <1>2
<1>10. ToSet(pending.data) = P
  BY DEF P
<1>11. \A t \in sent : ToSet(t.data) \subseteq (P \cup {c}) \ N
  BY <1>4, <1>8, <1>9, <1>10
<1>12. \A x \in P \cup {c} : x \in N \/ \E t \in sent : x \in ToSet(t.data)
  BY <1>8, <1>10
<1>13. N \subseteq P \cup {c}
  BY <1>8
<1>14. \A t, u \in sent : t # u => ToSet(t.data) \cap ToSet(u.data) = {}
  BY <1>4, <1>8, <1>9, <1>10
<1>15. /\ tasks'[b] = NoTask => N = {}
       /\ tasks'[b] # NoTask => N = ToSet(tasks'[b].data) /\ IsInjective(tasks'[b].data)
       /\ \A d \in BundleIds \ {b} : tasks'[d] = tasks[d]
  <2>1. tasks'[b] = IF full THEN NoTask ELSE task
    BY <1>0, <1>1 DEF TypeOK
  <2>2. task # NoTask
    BY <1>2 DEF Task
  <2> QED
    BY <1>0, <1>1, <1>6, <2>1, <2>2 DEF TypeOK
<1>16. \A x \in Calls : invocations'[x] =
          IF \E t \in sent : x \in ToSet(t.data) THEN NoBundle
          ELSE IF x \in {c} THEN b ELSE invocations[x]
  BY <1>0, <1>1 DEF Forget, TypeOK
<1>17. inflight' = inflight \cup {t \in sent : t.data # <<>>}
  BY <1>1 DEF Run
<1>18. \A x \in {c} : x \notin scheduled /\ BundleOf[x] = b
  BY <1>1
<1>19. N \in SUBSET Calls /\ P \in SUBSET Calls
  BY <1>7
<1>20. Departs(c, sent, P, N)
  <2>1. CASE ~flush /\ ~full
    BY <1>4, <1>8, <2>1 DEF Departs, Batches
  <2>2. CASE flush /\ ~full
    BY <1>4, <1>8, <1>10, <2>2 DEF Departs, Batches
  <2>3. CASE ~flush /\ full
    BY <1>4, <1>8, <2>3 DEF Departs, Batches
  <2>4. CASE flush /\ full
    <3>1. c \notin P
      BY <1>4
    <3>2. sent = {pending, task} /\ N = {}
      BY <2>4
    <3>3. ToSet(task.data) = {c}
      BY <1>8, <2>4
    <3>4. Batches(sent) = {ToSet(pending.data), ToSet(task.data)}
      BY ONLY <3>2 DEF Batches
    <3>5. Batches(sent) = {P, {c}}
      BY ONLY <3>3, <3>4, <1>10
    <3> QED
      BY ONLY <3>1, <3>2, <3>5 DEF Departs
  <2> QED
    BY <2>1, <2>2, <2>3, <2>4
<1> HIDE DEF N, sent, b
<1>21. Move(b, sent, {c}, P, N)
  BY <1>1, <1>3, <1>9, <1>11, <1>12, <1>13, <1>14, <1>15, <1>16, <1>17, <1>18, <1>19
     DEF Move
<1> QED
  BY <1>20, <1>21 DEF b

(* The delay timer sends all the calls of its bundle.                       *)
LEMMA TimeoutMove ==
    ASSUME TypeOK, NEW b \in BundleIds, Timeout(b) \/ RunNow(b), tasks[b] # NoTask
    PROVE  Move(b, {tasks[b]}, {}, ToSet(tasks[b].data), {})
<1> USE IdsAssumption
<1> DEFINE sent == {tasks[b]}
           P    == ToSet(tasks[b].data)
<1>1. /\ tasks' = [tasks EXCEPT ![b] = NoTask]
      /\ invocations' = Forget(invocations, sent)
      /\ inflight' = inflight \cup {t \in sent : t.data # <<>>}
      /\ scheduled' = scheduled \cup {}
      /\ outcomes' = outcomes
  BY DEF Timeout, RunNow, Run, answers
<1>2. sent \in SUBSET Task /\ P \in SUBSET Calls
  BY MembersAreCalls DEF TypeOK
<1>3. tasks'[b] = NoTask /\ \A d \in BundleIds \ {b} : tasks'[d] = tasks[d]
  BY <1>1 DEF TypeOK
<1>4. \A x \in Calls : invocations'[x] =
        IF \E t \in sent : x \in ToSet(t.data) THEN NoBundle
        ELSE IF x \in {} THEN b ELSE invocations[x]
  BY <1>1 DEF Forget, TypeOK
<1>5. /\ tasks[b] # NoTask /\ P = ToSet(tasks[b].data)
      /\ \A t \in sent : ToSet(t.data) \subseteq (P \cup {}) \ {}
      /\ \A x \in P \cup {} : x \in {} \/ \E t \in sent : x \in ToSet(t.data)
      /\ \A t, u \in sent : t # u => ToSet(t.data) \cap ToSet(u.data) = {}
      /\ {} \subseteq P \cup {} /\ {} \in SUBSET Calls
      /\ \A x \in {} : x \notin scheduled /\ BundleOf[x] = b
  OBVIOUS
<1> HIDE DEF sent, P
<1>6. Move(b, sent, {}, P, {})
  BY <1>1, <1>2, <1>3, <1>4, <1>5 DEF Move
<1> QED
  BY <1>6 DEF sent, P

LEMMA RunNowKeepsOwnership ==
    ASSUME Ownership, NEW b \in BundleIds, RunNow(b) PROVE Ownership'
<1>1. TypeOK /\ TypeOK' /\ tasks[b] # NoTask
  BY RunNowType DEF Ownership, RunNow
<1> QED
  BY <1>1, TimeoutMove, MoveKeepsOwnership

LEMMA OwnershipStep == Ownership /\ [Next]_vars => Ownership'
<1> SUFFICES ASSUME Ownership, [Next]_vars PROVE Ownership'
  OBVIOUS
<1> USE IdsAssumption
<1>0. TypeOK /\ TypeOK'
  BY TypeStep DEF Ownership
<1>1. ASSUME NEW c \in Calls, ScheduleImmediately(c) PROVE Ownership'
  <2> DEFINE task == Extend(NewTask(c), c)
  <2>1. task \in Task /\ task.data = <<c>> /\ ToSet(task.data) = {c}
    <3>1. task \in Task
      BY NewTaskType, ExtendType
    <3>2. NewTask(c) \in Task /\ NewTask(c).data = <<>>
      BY NewTaskType DEF NewTask
    <3>3. task.data = Append(<<>>, c)
      BY <3>2 DEF Extend, Task
    <3>4. ToSet(<<c>>) = {c}
      BY DEF ToSet
    <3> QED
      BY <3>1, <3>3, <3>4
  <2> HIDE DEF task
  <2>2. inflight' = inflight \cup {task}
    BY <1>1, <2>1 DEF ScheduleImmediately, Run, task
  <2>3. /\ c \notin scheduled /\ scheduled' = scheduled \cup {c}
        /\ UNCHANGED <<tasks, timers, invocations, outcomes>>
    BY <1>1 DEF ScheduleImmediately, answers
  <2>4. outcomes[c] = <<>> /\ invocations[c] = NoBundle
    BY <2>3 DEF Ownership, IdleUntouched
  <2>5. \A d \in Calls : Pending(d)' <=> Pending(d)
    BY <2>3 DEF Pending
  <2>6. \A d \in Calls : Sent(d)' <=> (Sent(d) \/ d = c)
    BY <2>1, <2>2 DEF Sent
  <2>7. WaitingOwned'
    BY <2>3 DEF Ownership, WaitingOwned
  <2>8. SentOwned'
    BY <2>1, <2>2, <2>3, <2>4 DEF Ownership, SentOwned
  <2>9. BatchesDisjoint'
    BY <2>1, <2>2, <2>3 DEF Ownership, BatchesDisjoint, SentOwned
  <2>10. IdleUntouched' /\ NoneLost'
    BY <1>0, <2>3, <2>5, <2>6 DEF Ownership, IdleUntouched, NoneLost, TypeOK
  <2>11. StaleOnlyRejected'
    BY <2>3, <2>5 DEF Ownership, StaleOnlyRejected, ExceedsLimit
  <2> QED
    BY <1>0, <2>7, <2>8, <2>9, <2>10, <2>11 DEF Ownership
<1>2. ASSUME NEW c \in Calls, ScheduleRejected(c) PROVE Ownership'
  <2> DEFINE b == BundleOf[c]
  <2>1. /\ b \in BundleIds /\ c \notin scheduled /\ ExceedsLimit(c)
        /\ scheduled' = scheduled \cup {c}
        /\ tasks' = [tasks EXCEPT ![b] = IF tasks[b] = NoTask THEN NewTask(c)
                                                            ELSE tasks[b]]
        /\ invocations' = [invocations EXCEPT ![c] = b]
        /\ outcomes' = [d \in Calls |-> IF d = c THEN Append(outcomes[d], "INVALID_ARGUMENT")
                                                 ELSE outcomes[d]]
        /\ inflight' = inflight
    BY <1>0, <1>2 DEF ScheduleRejected, Tell, TypeOK
  <2>2. outcomes'[c] # <<>> /\ Len(outcomes'[c]) = 1
    <3>1. outcomes[c] = <<>>
      BY <2>1 DEF Ownership, IdleUntouched
    <3> QED
      BY <2>1, <3>1, FirstOutcome
  <2>3. \A d \in BundleIds : /\ tasks[d] # NoTask => tasks'[d] = tasks[d]
                             /\ tasks'[d] # NoTask /\ tasks[d] = NoTask =>
                                   tasks'[d].data = <<>>
    BY <1>0, <2>1 DEF NewTask, TypeOK
  <2>4. \A d \in Calls : (Pending(d)' <=> Pending(d)) /\ (Sent(d)' <=> Sent(d))
    <3>1. ToSet(<<>>) = {}
      BY DEF ToSet
    <3>2. \A d \in BundleIds : tasks[d] # NoTask => tasks'[d] # NoTask
      BY <1>0, <2>1 DEF TypeOK, NewTask
    <3> QED
      BY <2>1, <2>3, <3>1, <3>2 DEF Pending, Sent
  <2>5. \A d \in Calls : d # c => invocations'[d] = invocations[d] /\ outcomes'[d] = outcomes[d]
    BY <1>0, <2>1 DEF TypeOK
  <2>6. WaitingOwned'
    <3> SUFFICES ASSUME NEW d \in BundleIds, tasks'[d] # NoTask
                 PROVE  /\ IsInjective(tasks'[d].data)
                        /\ \A e \in ToSet(tasks'[d].data) :
                              BundleOf[e] = d /\ e \in scheduled'
                              /\ outcomes'[e] = <<>> /\ invocations'[e] = d
      BY DEF WaitingOwned
    <3>1. CASE tasks[d] = NoTask
      BY <2>3, <3>1 DEF ToSet, IsInjective
    <3>2. CASE tasks[d] # NoTask
      <4>1. tasks[d] \in Task /\ tasks'[d] = tasks[d]
        BY <1>0, <2>3, <3>2 DEF TypeOK
      <4>2. ToSet(tasks[d].data) \subseteq Calls
        BY <4>1, MembersAreCalls
      <4> QED
        BY <2>1, <2>5, <3>2, <4>1, <4>2 DEF Ownership, WaitingOwned
    <3> QED
      BY <3>1, <3>2
  <2>7. SentOwned'
    <3> SUFFICES ASSUME NEW t \in inflight, NEW e \in ToSet(t.data)
                 PROVE  e \in scheduled' /\ outcomes'[e] = <<>>
                        /\ invocations'[e] = NoBundle
      BY <2>1 DEF SentOwned
    <3>1. e \in Calls
      BY <1>0, MembersAreCalls DEF TypeOK
    <3> QED
      BY <2>1, <2>5, <3>1 DEF Ownership, SentOwned
  <2>8. BatchesDisjoint'
    BY <2>1 DEF Ownership, BatchesDisjoint
  <2>9. IdleUntouched' /\ NoneLost'
    BY <1>0, <2>1, <2>2, <2>4, <2>5 DEF Ownership, IdleUntouched, NoneLost, TypeOK
  <2>10. StaleOnlyRejected'
    BY <2>1, <2>2, <2>4, <2>5 DEF Ownership, StaleOnlyRejected, ExceedsLimit
  <2> QED
    BY <1>0, <2>6, <2>7, <2>8, <2>9, <2>10 DEF Ownership
<1>3. ASSUME NEW c \in Calls, ScheduleBundled(c) PROVE Ownership'
  <2>1. PICK sent, P, N : Move(BundleOf[c], sent, {c}, P, N)
    BY <1>3, BundledMove
  <2>2. BundleOf[c] \in BundleIds
    BY <1>3 DEF ScheduleBundled
  <2> QED
    BY ONLY Ownership, <1>0, <2>1, <2>2, MoveKeepsOwnership
<1>4. ASSUME NEW c \in Calls, Cancel(c) PROVE Ownership'
  <2> DEFINE b    == invocations[c]
             data == tasks[b].data
             left == Without(data, c)
  <2>1. /\ b \in BundleIds /\ tasks[b] # NoTask /\ ~ExceedsLimit(c)
        /\ invocations' = [invocations EXCEPT ![c] = NoBundle]
        /\ Tell({c} \cap ToSet(data), "CANCELLED")
        /\ tasks' = [tasks EXCEPT ![b] = IF left = <<>> THEN NoTask
                                         ELSE [tasks[b] EXCEPT !.data = left]]
        /\ UNCHANGED <<inflight, scheduled>>
    BY <1>0, <1>4 DEF Cancel, TypeOK
  <2>2. tasks[b] \in Task /\ data \in Seq(Calls) /\ ToSet(data) \subseteq Calls
    BY <1>0, <2>1, MembersAreCalls DEF TypeOK
  <2>3. IsInjective(data)
    BY <2>1 DEF Ownership, WaitingOwned
  <2>4. c \in ToSet(data) /\ BundleOf[c] = b
    <3>1. Pending(c) /\ b = BundleOf[c]
      BY <2>1 DEF Ownership, StaleOnlyRejected
    <3>2. PICK d \in BundleIds : tasks[d] # NoTask /\ c \in ToSet(tasks[d].data)
      BY <3>1 DEF Pending
    <3>3. BundleOf[c] = d
      BY <3>2 DEF Ownership, WaitingOwned
    <3> QED
      BY <3>1, <3>2, <3>3
  <2>5. left \in Seq(Calls) /\ ToSet(left) = ToSet(data) \ {c} /\ IsInjective(left)
    BY <2>2, <2>3, WithoutMembers
  <2>6. c \in scheduled /\ outcomes[c] = <<>>
    BY <2>1, <2>4 DEF Ownership, WaitingOwned
  <2>7. /\ outcomes' = [d \in Calls |-> IF d = c THEN Append(outcomes[d], "CANCELLED")
                                                ELSE outcomes[d]]
        /\ outcomes'[c] # <<>> /\ Len(outcomes'[c]) = 1
        /\ \A d \in Calls \ {c} : outcomes'[d] = outcomes[d] /\ invocations'[d] = invocations[d]
        /\ invocations'[c] = NoBundle
    <3>1. outcomes' = [d \in Calls |-> IF d = c THEN Append(outcomes[d], "CANCELLED")
                                              ELSE outcomes[d]]
      BY <2>1, <2>4 DEF Tell
    <3>2. outcomes'[c] = Append(outcomes[c], "CANCELLED")
      BY <3>1
    <3>3. outcomes'[c] # <<>> /\ Len(outcomes'[c]) = 1
      BY <2>6, <3>2, FirstOutcome
    <3> QED
      BY <1>0, <2>1, <3>1, <3>3 DEF TypeOK
  <2>8. /\ tasks'[b] = IF left = <<>> THEN NoTask ELSE [tasks[b] EXCEPT !.data = left]
        /\ \A d \in BundleIds \ {b} : tasks'[d] = tasks[d]
    BY <1>0, <2>1 DEF TypeOK
  <2>9. tasks'[b] # NoTask => tasks'[b].data = left
    BY <2>2, <2>8 DEF Task
  <2> HIDE DEF left
  <2>10. \A d \in Calls \ {c} : Pending(d) => Pending(d)'
    <3> SUFFICES ASSUME NEW d \in Calls \ {c}, NEW e \in BundleIds,
                        tasks[e] # NoTask, d \in ToSet(tasks[e].data)
                 PROVE  Pending(d)'
      BY DEF Pending
    <3>1. CASE e # b
      BY <2>8, <3>1 DEF Pending
    <3>2. CASE e = b
      <4>1. d \in ToSet(left)
        BY <2>5, <3>2
      <4>2. left # <<>>
        BY <4>1 DEF ToSet
      <4>3. [tasks[b] EXCEPT !.data = left] \in Task
        BY <2>2, <2>5 DEF Task
      <4>4. tasks'[b] # NoTask
        BY <2>8, <4>2, <4>3 DEF Task
      <4> QED
        BY <2>1, <2>9, <4>1, <4>4 DEF Pending
    <3> QED
      BY <3>1, <3>2
  <2>11. WaitingOwned'
    <3> SUFFICES ASSUME NEW d \in BundleIds, tasks'[d] # NoTask
                 PROVE  /\ IsInjective(tasks'[d].data)
                        /\ \A e \in ToSet(tasks'[d].data) :
                              BundleOf[e] = d /\ e \in scheduled'
                              /\ outcomes'[e] = <<>> /\ invocations'[e] = d
      BY DEF WaitingOwned
    <3>1. CASE d = b
      <4>1. tasks'[b].data = left
        BY <2>9, <3>1
      <4> QED
        BY <2>1, <2>2, <2>5, <2>7, <3>1, <4>1 DEF Ownership, WaitingOwned
    <3>2. CASE d # b
      <4>1. tasks'[d] = tasks[d] /\ tasks[d] \in Task
        BY <1>0, <2>8, <3>2 DEF TypeOK
      <4>2. ToSet(tasks[d].data) \subseteq Calls
        BY <4>1, MembersAreCalls
      <4>3. \A e \in ToSet(tasks[d].data) : e # c
        BY <2>4, <3>2, <4>1 DEF Ownership, WaitingOwned
      <4> QED
        BY <2>1, <2>7, <4>1, <4>2, <4>3 DEF Ownership, WaitingOwned
    <3> QED
      BY <3>1, <3>2
  <2>12. SentOwned'
    <3> SUFFICES ASSUME NEW t \in inflight, NEW e \in ToSet(t.data)
                 PROVE  e \in scheduled /\ outcomes'[e] = <<>>
                        /\ invocations'[e] = NoBundle
      BY <2>1 DEF SentOwned
    <3>1. e \in Calls
      BY <1>0, MembersAreCalls DEF TypeOK
    <3>2. /\ e \in scheduled /\ outcomes[e] = <<>> /\ invocations[e] = NoBundle
      BY DEF Ownership, SentOwned
    <3>3. e # c
      BY <2>1, <3>2
    <3> QED
      BY <2>7, <3>1, <3>2, <3>3
  <2>13. BatchesDisjoint'
    BY <2>1 DEF Ownership, BatchesDisjoint
  <2>14. IdleUntouched'
    BY <2>1, <2>6, <2>7 DEF Ownership, IdleUntouched
  <2>15. NoneLost'
    <3>1. \A d \in Calls : Sent(d)' <=> Sent(d)
      BY <2>1 DEF Sent
    <3> QED
      BY <1>0, <2>1, <2>7, <2>10, <3>1 DEF Ownership, NoneLost, TypeOK
  <2>16. StaleOnlyRejected'
    BY <2>7, <2>10 DEF Ownership, StaleOnlyRejected, ExceedsLimit
  <2> QED
    BY <1>0, <2>11, <2>12, <2>13, <2>14, <2>15, <2>16 DEF Ownership
<1>5. ASSUME NEW b \in BundleIds, Timeout(b) PROVE Ownership'
  <2>1. CASE tasks[b] = NoTask
    <3>1. UNCHANGED <<tasks, invocations, inflight, scheduled, outcomes>>
      BY <1>5, <2>1 DEF Timeout, RunNow, answers
    <3> QED
      BY <1>0, <3>1, SameOwnership
  <2>2. CASE tasks[b] # NoTask
    BY <1>0, <1>5, <2>2, TimeoutMove, MoveKeepsOwnership
  <2> QED
    BY <2>1, <2>2
<1>6. ASSUME NEW task \in inflight, NEW err \in Errors \cup {"none"},
             inflight' = inflight \ {task}, Tell(ToSet(task.data), err),
             UNCHANGED <<tasks, invocations, scheduled>>
      PROVE  Ownership'
  <2> DEFINE M == ToSet(task.data)
  <2>1. M \subseteq Calls
    BY <1>0, MembersAreCalls DEF TypeOK
  <2>2. \A c \in M : /\ c \in scheduled /\ outcomes[c] = <<>>
                     /\ invocations[c] = NoBundle
    BY DEF Ownership, SentOwned
  <2>3. \A c \in Calls : outcomes'[c] = IF c \in M THEN Append(outcomes[c], err)
                                                   ELSE outcomes[c]
    BY <1>6 DEF Tell
  <2>4. \A c \in M : Len(outcomes'[c]) = 1 /\ outcomes'[c] # <<>>
    BY <2>1, <2>2, <2>3, FirstOutcome
  <2>5. \A c \in Calls : outcomes[c] # <<>> => outcomes'[c] = outcomes[c]
    BY <2>2, <2>3
  <2> HIDE DEF M
  <2>6. \A c \in Calls : /\ Pending(c)' <=> Pending(c)
                         /\ Sent(c) /\ c \notin M => Sent(c)'
    BY <1>6 DEF Pending, Sent, M
  <2>7. WaitingOwned'
    <3> SUFFICES ASSUME NEW d \in BundleIds, tasks[d] # NoTask,
                        NEW c \in ToSet(tasks[d].data)
                 PROVE  outcomes'[c] = <<>>
      BY <1>6 DEF Ownership, WaitingOwned
    <3>1. c \in Calls
      BY <1>0, MembersAreCalls DEF TypeOK
    <3>2. invocations[c] # NoBundle /\ outcomes[c] = <<>>
      BY DEF Ownership, WaitingOwned
    <3> QED
      BY <2>2, <2>3, <3>1, <3>2
  <2>8. SentOwned'
    <3> SUFFICES ASSUME NEW t \in inflight, t # task, NEW c \in ToSet(t.data)
                 PROVE  outcomes'[c] = <<>>
      BY <1>6 DEF Ownership, SentOwned
    <3>1. c \in Calls
      BY <1>0, MembersAreCalls DEF TypeOK
    <3>2. c \notin M
      BY DEF Ownership, BatchesDisjoint, M
    <3> QED
      BY <2>3, <3>1, <3>2 DEF Ownership, SentOwned
  <2>9. BatchesDisjoint'
    BY <1>6 DEF Ownership, BatchesDisjoint
  <2>10. IdleUntouched'
    BY <1>6, <2>2, <2>3 DEF Ownership, IdleUntouched
  <2>11. NoneLost'
    <3> SUFFICES ASSUME NEW c \in scheduled, c \notin M
                 PROVE  Pending(c)' \/ Sent(c)' \/ Len(outcomes'[c]) = 1
      BY <1>6, <2>4 DEF NoneLost
    <3> QED
      BY <1>0, <2>3, <2>6 DEF Ownership, NoneLost, TypeOK
  <2>12. StaleOnlyRejected'
    BY <1>6, <2>5, <2>6 DEF Ownership, StaleOnlyRejected, ExceedsLimit
  <2> QED
    BY <1>0, <2>7, <2>8, <2>9, <2>10, <2>11, <2>12 DEF Ownership
<1>7. ASSUME NEW task \in inflight, ApiResponds(task) PROVE Ownership'
  BY <1>6, <1>7 DEF ApiResponds
<1>8. ASSUME NEW task \in inflight, ApiFails(task) PROVE Ownership'
  BY <1>6, <1>8 DEF ApiFails, Errors
<1>9. CASE UNCHANGED vars
  BY <1>0, <1>9, SameOwnership DEF vars
<1> QED
  BY <1>1, <1>2, <1>3, <1>4, <1>5, <1>7, <1>8, <1>9 DEF Next, Schedule

LEMMA OwnershipInvariant == Spec => []Ownership
  BY OwnershipInit, OwnershipStep, PTL DEF Spec

LEMMA OwnershipImpliesOnePlace == Ownership => OnePlace
<1> SUFFICES ASSUME Ownership PROVE OnePlace
  OBVIOUS
<1> USE IdsAssumption
<1>1. \A c \in Calls : Pending(c) =>
        c \in scheduled /\ outcomes[c] = <<>> /\ invocations[c] # NoBundle
  BY DEF Ownership, WaitingOwned, Pending
<1>2. \A c \in Calls : Sent(c) =>
        c \in scheduled /\ outcomes[c] = <<>> /\ invocations[c] = NoBundle
  BY DEF Ownership, SentOwned, Sent
<1>3. ASSUME NEW c \in Calls
      PROVE  Len(outcomes[c]) = IF c \in scheduled /\ ~Pending(c) /\ ~Sent(c)
                                THEN 1 ELSE 0
  <2>1. Len(<<>>) = 0
    OBVIOUS
  <2>2. c \notin scheduled => outcomes[c] = <<>>
    BY DEF Ownership, IdleUntouched
  <2>3. c \in scheduled => Pending(c) \/ Sent(c) \/ Len(outcomes[c]) = 1
    BY DEF Ownership, NoneLost
  <2>4. Pending(c) \/ Sent(c) => outcomes[c] = <<>>
    BY <1>1, <1>2
  <2> QED
    BY ONLY <2>1, <2>2, <2>3, <2>4
<1> QED
  BY <1>1, <1>2, <1>3 DEF Ownership, BatchesDisjoint, OnePlace

LEMMA OwnershipImpliesLead == Ownership => InvocationsLead
<1> SUFFICES ASSUME Ownership PROVE InvocationsLead
  OBVIOUS
<1>1. ASSUME NEW c \in Calls, Pending(c)
      PROVE  invocations[c] = BundleOf[c] /\ c \in ToSet(tasks[invocations[c]].data)
  BY <1>1 DEF Pending, Ownership, WaitingOwned
<1> QED
  BY <1>1 DEF Ownership, StaleOnlyRejected, InvocationsLead, Answered

(* No call is lost, sent twice or answered twice, whatever the order of     *)
(* schedules, cancels, timers and API answers.                              *)
THEOREM CallsHaveOnePlace == Spec => []OnePlace
  BY OwnershipInvariant, OwnershipImpliesOnePlace, PTL

(* cancel() reaches the task that holds its call, and no other.             *)
THEOREM CancelFindsItsTask == Spec => []InvocationsLead
  BY OwnershipInvariant, OwnershipImpliesLead, PTL

-----------------------------------------------------------------------------
(* Timers.  Inductive together with the types alone.                        *)

LEMMA TimerStep == TypeOK /\ TypeOK' /\ TimerWhileWaiting /\ [Next]_vars => TimerWhileWaiting'
<1> SUFFICES ASSUME TypeOK, TypeOK', TimerWhileWaiting, [Next]_vars, DelayThreshold > 0
             PROVE  \A b \in BundleIds :
                      b \in timers' <=> (tasks'[b] # NoTask /\ tasks'[b].data # <<>>)
  BY DEF TimerWhileWaiting
<1> USE IdsAssumption
<1>0. \A b \in BundleIds : b \in timers <=> (tasks[b] # NoTask /\ tasks[b].data # <<>>)
  BY DEF TimerWhileWaiting
<1>1. ASSUME NEW c \in Calls, ScheduleRejected(c)
      PROVE  \A b \in BundleIds :
               b \in timers' <=> (tasks'[b] # NoTask /\ tasks'[b].data # <<>>)
  <2>1. NewTask(c).data = <<>>
    BY DEF NewTask
  <2> QED
    BY <1>0, <1>1, <2>1 DEF ScheduleRejected, TypeOK
<1>2. ASSUME NEW c \in Calls, ScheduleBundled(c)
      PROVE  \A b \in BundleIds :
               b \in timers' <=> (tasks'[b] # NoTask /\ tasks'[b].data # <<>>)
  <2> DEFINE b       == BundleOf[c]
             pending == IF tasks[b] = NoTask THEN NewTask(c) ELSE tasks[b]
             flush   == WouldReachLimit(pending.data, c)
             opened  == IF flush THEN NewTask(c) ELSE pending
             task    == Extend(opened, c)
             full    == ReachesThreshold(task.data)
  <2>1. /\ b \in BundleIds
        /\ tasks' = [tasks EXCEPT ![b] = IF full THEN NoTask ELSE task]
        /\ timers' = (IF full THEN timers \ {b} ELSE timers \cup {b})
    BY <1>2 DEF ScheduleBundled
  <2>2. opened \in Task
    BY <2>1, NewTaskType DEF TypeOK
  <2>3. task \in Task /\ task.data # <<>>
    <3>1. task.data = Append(opened.data, c) /\ opened.data \in Seq(Calls)
      BY <2>2 DEF Extend, Task
    <3> QED
      BY <2>2, <3>1, ExtendType, ExtendMembers
  <2>4. task # NoTask
    BY <2>3 DEF Task
  <2> HIDE DEF full, task
  <2> QED
    BY <1>0, <2>1, <2>3, <2>4 DEF TypeOK
<1>3. ASSUME NEW c \in Calls, Cancel(c)
      PROVE  \A b \in BundleIds :
               b \in timers' <=> (tasks'[b] # NoTask /\ tasks'[b].data # <<>>)
  <2> DEFINE b    == invocations[c]
             left == Without(tasks[b].data, c)
             rest == [tasks[b] EXCEPT !.data = left]
  <2>1. /\ b \in BundleIds /\ tasks[b] # NoTask
        /\ tasks' = [tasks EXCEPT ![b] = IF left = <<>> THEN NoTask ELSE rest]
        /\ timers' = (IF left = <<>> THEN timers \ {b} ELSE timers)
    BY <1>3 DEF Cancel, TypeOK
  <2>2. tasks[b] \in Task /\ rest.data = left
    BY <2>1 DEF TypeOK, Task
  <2>3. left # <<>> => tasks[b].data # <<>>
    BY <2>2 DEF Without, Task
  <2>4. rest # NoTask
    <3>1. tasks[b].data \in Seq(Calls)
      BY <2>2 DEF Task
    <3>2. left \in Seq(Calls)
      BY <3>1, WithoutType
    <3>3. rest \in Task
      BY <2>2, <3>2 DEF Task
    <3> QED
      BY <3>3 DEF Task
  <2> HIDE DEF left, rest
  <2> QED
    BY <1>0, <2>1, <2>2, <2>3, <2>4 DEF TypeOK
<1>4. ASSUME NEW b \in BundleIds, Timeout(b)
      PROVE  \A d \in BundleIds :
               d \in timers' <=> (tasks'[d] # NoTask /\ tasks'[d].data # <<>>)
  <2>1. CASE tasks[b] = NoTask
    BY <1>0, <1>4, <2>1 DEF Timeout, RunNow, TypeOK
  <2>2. CASE tasks[b] # NoTask
    <3>1. tasks' = [tasks EXCEPT ![b] = NoTask] /\ timers' = timers \ {b}
      BY <1>4, <2>2 DEF Timeout, RunNow
    <3> QED
      BY <1>0, <3>1 DEF TypeOK
  <2> QED
    BY <2>1, <2>2
<1>5. CASE UNCHANGED <<tasks, timers>>
  BY <1>0, <1>5
<1> QED
  BY <1>1, <1>2, <1>3, <1>4, <1>5
     DEF Next, Schedule, ScheduleImmediately, ApiResponds, ApiFails, vars

(* With a delay, a delay timer is armed for a bundle exactly while a call   *)
(* waits in it: none waits without a timer and no timer fires on nothing.   *)
THEOREM TimersMatchWaitingCalls == Spec => []TimerWhileWaiting
<1>1. Init => TimerWhileWaiting
  BY DEF Init, TimerWhileWaiting
<1> QED
  BY <1>1, TypeCorrect, TimerStep, PTL DEF Spec

-----------------------------------------------------------------------------
(* The hard limits.  A pending task never exceeds them: it is flushed       *)
(* before a call would bring it there, and what a cancel leaves of it holds *)
(* no more than it did.                                                     *)

Within(data) ==
    /\ CountLimit > 0 => ElementCount(data) =< CountLimit
    /\ ByteLimit > 0 => RequestByteSize(data) < ByteLimit

LimitsKept ==
    /\ \A b \in BundleIds : tasks[b] # NoTask => Within(tasks[b].data)
    /\ \A t \in inflight : BundleOf[t.base] = NoBundle \/ Within(t.data)

LEMMA SizesAreTotals ==
    ASSUME NEW data
    PROVE  ElementCount(data) = Total(Size, data) /\ RequestByteSize(data) = Total(Bytes, data)
  BY DEF ElementCount, RequestByteSize, Total

LEMMA WithinEmpty == Within(<<>>)
<1>1. ElementCount(<<>>) = 0 /\ RequestByteSize(<<>>) = 0
  BY SizesAssumption, SizesAreTotals, TotalEmpty
<1> QED
  BY <1>1, OptionsAssumption DEF Within

LEMMA SizesOfExtended ==
    ASSUME NEW data \in Seq(Calls), NEW c \in Calls
    PROVE  /\ ElementCount(data) \in Nat /\ RequestByteSize(data) \in Nat
           /\ ElementCount(Append(data, c)) = ElementCount(data) + Size[c]
           /\ RequestByteSize(Append(data, c)) = RequestByteSize(data) + Bytes[c]
<1>1. Total(Size, data) \in Nat /\ Total(Bytes, data) \in Nat
  BY SizesAssumption, TotalType
<1>2. Total(Size, Append(data, c)) = Total(Size, data) + Size[c]
  BY SizesAssumption, TotalAppend
<1>3. Total(Bytes, Append(data, c)) = Total(Bytes, data) + Bytes[c]
  BY SizesAssumption, TotalAppend
<1> QED
  BY <1>1, <1>2, <1>3, SizesAreTotals

LEMMA WithinExtended ==
    ASSUME NEW data \in Seq(Calls), NEW c \in Calls,
           ~WouldReachLimit(data, c) \/ (data = <<>> /\ ~ExceedsLimit(c))
    PROVE  Within(Append(data, c))
<1>1. Size[c] \in Nat /\ Bytes[c] \in Nat /\ CountLimit \in Nat /\ ByteLimit \in Nat
  BY SizesAssumption, OptionsAssumption
<1>2. ElementCount(<<>>) = 0 /\ RequestByteSize(<<>>) = 0
  BY SizesAssumption, SizesAreTotals, TotalEmpty
<1> QED
  BY <1>1, <1>2, SizesOfExtended DEF Within, WouldReachLimit, ExceedsLimit

LEMMA WithinWithout ==
    ASSUME NEW data \in Seq(Calls), NEW c, Within(data)
    PROVE  Within(Without(data, c))
<1>1. CASE ~ \E i \in DOMAIN data : data[i] = c
  BY <1>1 DEF Without
<1>2. CASE \E i \in DOMAIN data : data[i] = c
  <2> DEFINE k == CHOOSE i \in DOMAIN data : data[i] = c
             left == RemoveAt(data, k)
  <2>1. k \in DOMAIN data /\ Without(data, c) = left
    BY <1>2 DEF Without
  <2> HIDE DEF k
  <2>2. /\ left \in Seq(Calls)
        /\ Total(Size, left) =< Total(Size, data) /\ Total(Bytes, left) =< Total(Bytes, data)
    BY <2>1, SizesAssumption, TotalRemoveAt
  <2>3. /\ Total(Size, left) \in Nat /\ Total(Size, data) \in Nat
        /\ Total(Bytes, left) \in Nat /\ Total(Bytes, data) \in Nat
    BY <2>2, SizesAssumption, TotalType
  <2> HIDE DEF left
  <2> QED
    BY <2>1, <2>2, <2>3, SizesAreTotals, OptionsAssumption DEF Within
<1> QED
  BY <1>1, <1>2

LEMMA LimitsStep == TypeOK /\ LimitsKept /\ [Next]_vars => LimitsKept'
<1> SUFFICES ASSUME TypeOK, LimitsKept, [Next]_vars PROVE LimitsKept'
  OBVIOUS
<1> USE IdsAssumption
<1>1. ASSUME NEW c \in Calls, ScheduleImmediately(c) PROVE LimitsKept'
  <2>1. Extend(NewTask(c), c).base = c
    BY DEF Extend, NewTask
  <2> QED
    BY <1>1, <2>1 DEF ScheduleImmediately, Run, LimitsKept
<1>2. ASSUME NEW c \in Calls, ScheduleRejected(c) PROVE LimitsKept'
  <2>1. NewTask(c).data = <<>>
    BY DEF NewTask
  <2> QED
    BY <1>2, <2>1, WithinEmpty DEF ScheduleRejected, LimitsKept, TypeOK
<1>3. ASSUME NEW c \in Calls, ScheduleBundled(c) PROVE LimitsKept'
  <2> DEFINE b       == BundleOf[c]
             pending == IF tasks[b] = NoTask THEN NewTask(c) ELSE tasks[b]
             flush   == WouldReachLimit(pending.data, c)
             opened  == IF flush THEN NewTask(c) ELSE pending
             task    == Extend(opened, c)
             full    == ReachesThreshold(task.data)
             sent    == (IF flush THEN {pending} ELSE {}) \cup (IF full THEN {task} ELSE {})
  <2>1. /\ b \in BundleIds /\ ~ExceedsLimit(c) /\ Run(sent)
        /\ tasks' = [tasks EXCEPT ![b] = IF full THEN NoTask ELSE task]
    BY <1>3 DEF ScheduleBundled
  <2>2. pending \in Task /\ opened \in Task
    BY <2>1, NewTaskType DEF TypeOK
  <2>3. NewTask(c).data = <<>>
    BY DEF NewTask
  <2>4. Within(pending.data)
    BY <2>1, <2>3, WithinEmpty DEF LimitsKept
  <2>5. task.data = Append(opened.data, c) /\ opened.data \in Seq(Calls)
    BY <2>2 DEF Extend, Task
  <2>6. Within(task.data)
    <3>1. ~WouldReachLimit(opened.data, c) \/ (opened.data = <<>> /\ ~ExceedsLimit(c))
      BY <2>1, <2>3
    <3> HIDE DEF opened
    <3> QED
      BY <2>5, <3>1, WithinExtended
  <2> HIDE DEF pending, task, full, flush
  <2>7. \A t \in inflight' : t \in inflight \/ Within(t.data)
    BY <2>1, <2>4, <2>6 DEF Run
  <2>8. \A d \in BundleIds : tasks'[d] # NoTask => Within(tasks'[d].data)
    BY <2>1, <2>6 DEF LimitsKept, TypeOK
  <2> QED
    BY <2>7, <2>8 DEF LimitsKept
<1>4. ASSUME NEW c \in Calls, Cancel(c) PROVE LimitsKept'
  <2> DEFINE b    == invocations[c]
             left == Without(tasks[b].data, c)
             rest == [tasks[b] EXCEPT !.data = left]
  <2>1. /\ b \in BundleIds /\ tasks[b] # NoTask /\ inflight' = inflight
        /\ tasks' = [tasks EXCEPT ![b] = IF left = <<>> THEN NoTask ELSE rest]
    BY <1>4 DEF Cancel, TypeOK
  <2>2. tasks[b] \in Task /\ rest.data = left /\ tasks[b].data \in Seq(Calls)
    BY <2>1 DEF TypeOK, Task
  <2>3. Within(left)
    BY <2>1, <2>2, WithinWithout DEF LimitsKept
  <2> HIDE DEF left, rest
  <2> QED
    BY <2>1, <2>2, <2>3 DEF LimitsKept, TypeOK
<1>5. ASSUME NEW b \in BundleIds, Timeout(b) PROVE LimitsKept'
  BY <1>5 DEF Timeout, RunNow, Run, LimitsKept, TypeOK
<1>6. CASE tasks' = tasks /\ inflight' \subseteq inflight
  BY <1>6 DEF LimitsKept
<1> QED
  BY <1>1, <1>2, <1>3, <1>4, <1>5, <1>6 DEF Next, Schedule, ApiResponds, ApiFails, vars

(* No bundle exceeds the element count limit or reaches the byte limit,     *)
(* whatever is rejected, flushed or cancelled before it is sent; requests   *)
(* that cannot be bundled are sent as they are.                             *)
THEOREM BundlesFitLimits == Spec => []WithinLimits
<1>1. Init => LimitsKept
  BY DEF Init, LimitsKept
<1>2. LimitsKept => WithinLimits
  BY DEF LimitsKept, WithinLimits, Within
<1> QED
  BY <1>1, <1>2, TypeCorrect, LimitsStep, PTL DEF Spec

-----------------------------------------------------------------------------
(* Whose response.  The elements of a bundled request are those of its      *)
(* calls, one call after another, so what comes back for them does, too.    *)

ElementsOf == [c \in Calls |-> Elements(c)]

LEMMA BundledIsFlatMap ==
    ASSUME NEW data \in Seq(Calls)
    PROVE  BundledElements(data) = FlatMap(ElementsOf, data)
<1>1. \A k \in DOMAIN data : data[k] \in Calls
  OBVIOUS
<1>2. [k \in DOMAIN data |-> Elements(data[k])] = [k \in DOMAIN data |-> ElementsOf[data[k]]]
  BY <1>1 DEF ElementsOf
<1> QED
  BY <1>2 DEF BundledElements, FlatMap

LEMMA ElementsType ==
    /\ ElementsOf \in [Calls -> Seq(Calls \X Nat)]
    /\ \A c \in Calls : Len(ElementsOf[c]) = Size[c] /\ ElementsOf[c] = Elements(c)
<1>1. ASSUME NEW c \in Calls
      PROVE  Elements(c) \in Seq(Calls \X Nat) /\ Len(Elements(c)) = Size[c]
  BY SizesAssumption DEF Elements
<1> QED
  BY <1>1 DEF ElementsOf

(* slice() from the sizes of the calls before it gives each call the        *)
(* elements that answer its own.                                            *)
LEMMA SliceIsOwn ==
    ASSUME NEW data \in Seq(Calls), NEW k \in DOMAIN data, Demultiplex
    PROVE  SubResponse(data, k, BundledElements(data)) = Elements(data[k])
<1> DEFINE before == SubSeq(data, 1, k - 1)
           all    == FlatMap(ElementsOf, data)
           own    == ElementsOf[data[k]]
           n      == Len(FlatMap(ElementsOf, before))
<1>1. before \in Seq(Calls) /\ data[k] \in Calls
  OBVIOUS
<1>2. n = Offset(data, k)
  <2>1. n = Total(Size, before)
    <3>1. Measures(Size, ElementsOf, Calls)
      BY ElementsType, SizesAssumption DEF Measures
    <3>2. before \in Seq(Calls) /\ ElementsOf \in [Calls -> Seq(Calls \X Nat)]
      BY <1>1, ElementsType
    <3> HIDE DEF before
    <3>3. Len(FlatMap(ElementsOf, before)) = Total(Size, before)
      BY <3>1, <3>2, FlatMapLength
    <3> QED
      BY <3>3
  <2> QED
    BY <2>1, SizesAreTotals DEF Offset
<1>3. n \in Nat /\ n + Len(own) =< Len(all) /\ SubSeq(all, n + 1, n + Len(own)) = own
  <2>1. PartAt(ElementsOf, data, k, n)
    BY ElementsType, FlatMapSlice
  <2> QED
    BY <2>1 DEF PartAt
<1>4. Len(own) = Size[data[k]] /\ own = Elements(data[k])
  BY <1>1, ElementsType
<1>5. BundledElements(data) = all
  BY BundledIsFlatMap
<1>6. all \in Seq(Calls \X Nat) /\ Size[data[k]] \in Nat
  BY <1>1, ElementsType, FlatMapType, SizesAssumption
<1> HIDE DEF before, all, own, n
<1>7. Min({n + Size[data[k]], Len(all)}) = n + Size[data[k]]
  BY <1>3, <1>4, <1>6 DEF Min
<1> QED
  BY <1>2, <1>3, <1>4, <1>5, <1>7 DEF SubResponse, Slice

LEMMA OwnResponseStep == Ownership /\ OwnResponse /\ [Next]_vars => OwnResponse'
<1> SUFFICES ASSUME Ownership, OwnResponse, [Next]_vars, Demultiplex,
                    NEW c \in Calls
             PROVE  received'[c] = IF outcomes'[c] = <<"none">> THEN Elements(c) ELSE <<>>
  BY DEF OwnResponse
<1> USE IdsAssumption
<1>0. TypeOK /\ received[c] = (IF outcomes[c] = <<"none">> THEN Elements(c) ELSE <<>>)
  BY DEF Ownership, OwnResponse
<1>1. ASSUME NEW S, NEW err \in Errors, Tell(S, err), received' = received,
             c \in S => outcomes[c] = <<>>
      PROVE  received'[c] = IF outcomes'[c] = <<"none">> THEN Elements(c) ELSE <<>>
  <2>1. CASE c \in S
    <3>1. outcomes'[c] = Append(<<>>, err)
      BY <1>1, <2>1 DEF Tell
    <3>2. Append(<<>>, err) # <<"none">>
      BY DEF Errors
    <3>3. outcomes[c] # <<"none">>
      BY <1>1, <2>1
    <3> QED
      BY <1>0, <1>1, <3>1, <3>2, <3>3
  <2>2. CASE c \notin S
    BY <1>0, <1>1, <2>2 DEF Tell
  <2> QED
    BY <2>1, <2>2
<1>2. ASSUME NEW task \in inflight, c \in ToSet(task.data)
      PROVE  outcomes[c] = <<>>
  BY <1>2 DEF Ownership, SentOwned
<1>3. ASSUME NEW d \in Calls, ScheduleRejected(d)
      PROVE  received'[c] = IF outcomes'[c] = <<"none">> THEN Elements(c) ELSE <<>>
  <2>1. c \in {d} => outcomes[c] = <<>>
    BY <1>3 DEF ScheduleRejected, Ownership, IdleUntouched
  <2> QED
    BY <1>1, <1>3, <2>1 DEF ScheduleRejected, Errors
<1>4. ASSUME NEW d \in Calls, Cancel(d)
      PROVE  received'[c] = IF outcomes'[c] = <<"none">> THEN Elements(c) ELSE <<>>
  <2>1. tasks[invocations[d]] # NoTask /\ invocations[d] \in BundleIds
    BY <1>0, <1>4 DEF Cancel, TypeOK
  <2>2. c \in {d} \cap ToSet(tasks[invocations[d]].data) => outcomes[c] = <<>>
    BY <2>1 DEF Ownership, WaitingOwned
  <2> QED
    BY <1>1, <1>4, <2>2 DEF Cancel, Errors
<1>5. ASSUME NEW task \in inflight, ApiResponds(task)
      PROVE  received'[c] = IF outcomes'[c] = <<"none">> THEN Elements(c) ELSE <<>>
  <2> DEFINE data == task.data
             response == BundledElements(data)
             at(d) == CHOOSE k \in DOMAIN data : data[k] = d
  <2>1. /\ Tell(ToSet(data), "none")
        /\ received' = [d \in Calls |-> IF d \in ToSet(data)
                                       THEN SubResponse(data, at(d), response)
                                       ELSE received[d]]
    BY <1>5 DEF ApiResponds
  <2>2. data \in Seq(Calls)
    BY <1>0, MembersAreCalls DEF TypeOK
  <2>3. CASE c \in ToSet(data)
    <3>1. at(c) \in DOMAIN data /\ data[at(c)] = c
      BY <2>3 DEF ToSet
    <3>2. SubResponse(data, at(c), response) = Elements(c)
      BY <2>2, <3>1, SliceIsOwn
    <3>3. outcomes'[c] = Append(<<>>, "none")
      BY <1>2, <2>1, <2>3 DEF Tell
    <3>4. Append(<<>>, "none") = <<"none">>
      OBVIOUS
    <3> QED
      BY <2>1, <2>3, <3>2, <3>3, <3>4
  <2>4. CASE c \notin ToSet(data)
    BY <1>0, <2>1, <2>4 DEF Tell
  <2> QED
    BY <2>3, <2>4
<1>6. ASSUME NEW task \in inflight, ApiFails(task)
      PROVE  received'[c] = IF outcomes'[c] = <<"none">> THEN Elements(c) ELSE <<>>
  BY <1>1, <1>2, <1>6 DEF ApiFails, Errors
<1>7. CASE UNCHANGED <<outcomes, received>>
  BY <1>0, <1>7
<1> QED
  BY <1>3, <1>4, <1>5, <1>6, <1>7
     DEF Next, Schedule, ScheduleImmediately, ScheduleBundled, Timeout, RunNow, answers, vars

(* A caller is given the answers to its own elements, at whatever place its *)
(* request has in the bundle, and nothing before or without success.        *)
THEOREM CallersGetTheirOwn == Spec => []OwnResponse
<1>1. Init => OwnResponse
  BY DEF Init, OwnResponse
<1> QED
  BY <1>1, OwnershipInvariant, OwnResponseStep, PTL DEF Spec

-----------------------------------------------------------------------------
(* The executor implements BundledCalls, and calls of one bundle id leave   *)
(* in the order they came.  Both rest on the ownership invariant, and on    *)
(* how a turn moves calls.                                                  *)

(* A task has members unless its data is empty.                             *)
LEMMA MembersNonEmpty ==
    ASSUME NEW S, NEW s \in Seq(S) PROVE s # <<>> <=> ToSet(s) # {}
<1>1. ASSUME s # <<>> PROVE s[1] \in ToSet(s)
  BY <1>1 DEF ToSet
<1>2. ToSet(<<>>) = {}
  BY DEF ToSet
<1> QED
  BY <1>1, <1>2

(* No empty request is sent.                                                *)
NoneEmpty == \A t \in inflight : ToSet(t.data) # {}

LEMMA NoneEmptyStep == TypeOK /\ NoneEmpty /\ [Next]_vars => NoneEmpty'
<1> SUFFICES ASSUME TypeOK, NoneEmpty, [Next]_vars PROVE NoneEmpty'
  OBVIOUS
<1>1. ASSUME NEW t \in Task, t.data # <<>> PROVE ToSet(t.data) # {}
  BY <1>1, MembersNonEmpty DEF Task
<1>2. ASSUME NEW sent, sent \subseteq Task, Run(sent) PROVE NoneEmpty'
  BY <1>1, <1>2 DEF Run, NoneEmpty
<1>3. ASSUME NEW c \in Calls, ScheduleImmediately(c) PROVE NoneEmpty'
  BY <1>2, <1>3, NewTaskType, ExtendType DEF ScheduleImmediately
<1>4. ASSUME NEW c \in Calls, ScheduleBundled(c) PROVE NoneEmpty'
  <2> DEFINE b       == BundleOf[c]
             pending == IF tasks[b] = NoTask THEN NewTask(c) ELSE tasks[b]
             flush   == WouldReachLimit(pending.data, c)
             task    == Extend(IF flush THEN NewTask(c) ELSE pending, c)
             full    == ReachesThreshold(task.data)
             sent    == (IF flush THEN {pending} ELSE {}) \cup (IF full THEN {task} ELSE {})
  <2>1. b \in BundleIds /\ Run(sent)
    BY <1>4, IdsAssumption DEF ScheduleBundled
  <2>2. pending \in Task /\ task \in Task
    BY <2>1, NewTaskType, ExtendType DEF TypeOK
  <2> HIDE DEF pending, task, flush, full
  <2> QED
    BY <1>2, <2>1, <2>2
<1>5. ASSUME NEW b \in BundleIds, Timeout(b) PROVE NoneEmpty'
  <2>1. CASE tasks[b] = NoTask
    BY <1>5, <2>1 DEF Timeout, RunNow, NoneEmpty
  <2>2. CASE tasks[b] # NoTask
    BY <1>2, <1>5, <2>2 DEF Timeout, RunNow, TypeOK
  <2> QED
    BY <2>1, <2>2
<1>6. CASE inflight' \subseteq inflight
  BY <1>6 DEF NoneEmpty
<1> QED
  BY <1>3, <1>4, <1>5, <1>6
     DEF Next, Schedule, ScheduleRejected, Cancel, ApiResponds, ApiFails, vars

Sound == Ownership /\ NoneEmpty

LEMMA SoundInvariant == Spec => []Sound
<1>1. Init => Sound
  BY OwnershipInit DEF Sound, NoneEmpty, Init
<1>2. Sound /\ [Next]_vars => Sound'
  BY OwnershipStep, NoneEmptyStep DEF Sound, Ownership
<1> QED
  BY <1>1, <1>2, PTL DEF Spec

-----------------------------------------------------------------------------
(* Where a call is, by the variables: each phase is one case, and there are *)
(* no others.                                                               *)
LEMMA PhaseCases ==
    ASSUME Ownership, NEW c \in Calls
    PROVE  /\ Answered(c) => CallPhase(c) = "answered" /\ ~Sent(c) /\ ~Pending(c) /\ c \in scheduled
           /\ Sent(c) => CallPhase(c) = "sent" /\ ~Pending(c) /\ ~Answered(c) /\ c \in scheduled
           /\ Pending(c) => /\ CallPhase(c) = "waiting" /\ ~Sent(c) /\ ~Answered(c)
                            /\ c \in scheduled /\ BundleOf[c] # NoBundle
           /\ c \notin scheduled => /\ CallPhase(c) = "idle" /\ outcomes[c] = <<>>
                                    /\ ~Sent(c) /\ ~Pending(c)
<1> USE IdsAssumption
<1>1. Pending(c) => /\ c \in scheduled /\ outcomes[c] = <<>> /\ invocations[c] # NoBundle
                    /\ BundleOf[c] # NoBundle
  BY DEF Ownership, WaitingOwned, Pending
<1>2. Sent(c) => c \in scheduled /\ outcomes[c] = <<>> /\ invocations[c] = NoBundle
  BY DEF Ownership, SentOwned, Sent
<1>3. c \notin scheduled => outcomes[c] = <<>>
  BY DEF Ownership, IdleUntouched
<1> QED
  BY <1>1, <1>2, <1>3 DEF CallPhase, Answered

(* What a move does to the calls of the model.                              *)
LEMMA MoveOfCalls ==
    ASSUME Ownership, NEW b \in BundleIds,
           NEW gone, NEW new, NEW P, NEW N, Move(b, gone, new, P, N)
    PROVE  /\ \A d \in P : Pending(d)
           /\ \A d \in Calls : Sent(d)' <=> Sent(d) \/ \E t \in gone : d \in ToSet(t.data)
           /\ \A d \in Calls : Pending(d)' <=> \/ d \in N
                                               \/ Pending(d) /\ d \notin P
           /\ Batches(inflight') = Batches(inflight) \cup (Batches(gone) \ {{}})
<1> USE IdsAssumption DEF Move
<1>0. TypeOK
  BY DEF Ownership
<1>1. \A t \in gone : t \in Task /\ (t.data # <<>> <=> ToSet(t.data) # {})
  BY MembersNonEmpty DEF Task
<1>2. \A d \in P : Pending(d)
  BY DEF Pending
<1>3. \A d \in Calls : Sent(d)' <=> Sent(d) \/ \E t \in gone : d \in ToSet(t.data)
  BY <1>1 DEF Sent
<1>4. ASSUME NEW d \in Calls
      PROVE  Pending(d)' <=> d \in N \/ (Pending(d) /\ d \notin P)
  <2>1. d \in N => Pending(d)'
    BY DEF Pending
  <2>2. Pending(d) /\ d \notin P => Pending(d)'
    BY DEF Pending
  <2>3. Pending(d)' => d \in N \/ (Pending(d) /\ d \notin P)
    <3> SUFFICES ASSUME NEW e \in BundleIds, tasks'[e] # NoTask, d \in ToSet(tasks'[e].data), e # b
                 PROVE  Pending(d) /\ d \notin P
      BY DEF Pending
    <3>1. tasks[e] # NoTask /\ d \in ToSet(tasks[e].data)
      OBVIOUS
    <3>2. BundleOf[d] = e
      BY <3>1 DEF Ownership, WaitingOwned
    <3>3. d \in P => BundleOf[d] = b
      BY DEF Ownership, WaitingOwned
    <3> QED
      BY <3>1, <3>2, <3>3 DEF Pending
  <2> QED
    BY <2>1, <2>2, <2>3
<1>5. Batches(inflight') = Batches(inflight) \cup (Batches(gone) \ {{}})
  <2>1. inflight' = inflight \cup {t \in gone : ToSet(t.data) # {}}
    BY <1>1
  <2> QED
    BY <2>1 DEF Batches
<1> QED
  BY <1>2, <1>3, <1>4, <1>5

-----------------------------------------------------------------------------
(* The executor starts where the abstract specification starts.             *)
LEMMA MappedInit == Init => Abstract!Init
<1> SUFFICES ASSUME Init PROVE Abstract!Init
  OBVIOUS
<1>1. \A c \in Calls : CallPhase(c) = "idle" /\ Outcome(c) = "none"
  BY DEF Init, CallPhase, Outcome, Answered, Sent, Pending
<1>2. {ToSet(t.data) : t \in inflight} = {}
  BY DEF Init
<1> QED
  BY <1>1, <1>2 DEF Abstract!Init

(* A turn in which calls leave and no callback is called.                   *)
LEMMA SendMaps ==
    ASSUME Ownership, NEW gone, NEW c,
           outcomes' = outcomes,
           \A d \in Calls : Sent(d)' <=> Sent(d) \/ \E t \in gone : d \in ToSet(t.data),
           \A d \in Calls : d # c /\ ~(\E t \in gone : d \in ToSet(t.data))
                               => (Pending(d)' <=> Pending(d)),
           c \in Calls => \/ \E t \in gone : c \in ToSet(t.data)
                          \/ Pending(c)' /\ ~Sent(c),
           \A d \in Calls : Answered(d) => d # c /\ ~\E t \in gone : d \in ToSet(t.data),
           Batches(inflight') = Batches(inflight) \cup (Batches(gone) \ {{}})
    PROVE  Abstract!Send(Batches(gone) \ {{}}, c)
<1> DEFINE new == Batches(gone) \ {{}}
<1>1. \A d : d \in UNION new <=> \E t \in gone : d \in ToSet(t.data)
  BY DEF Batches
<1>2. \A d \in Calls : (Answered(d)' <=> Answered(d)) /\ Outcome(d)' = Outcome(d)
  BY DEF Answered, Outcome
<1>3. ASSUME NEW d \in Calls
      PROVE  CallPhase(d)' = IF d \in UNION new THEN "sent"
                             ELSE IF d = c THEN "waiting" ELSE CallPhase(d)
  <2>1. CASE d \in UNION new
    BY <1>1, <1>2, <2>1 DEF CallPhase
  <2>2. CASE d \notin UNION new /\ d = c
    BY <1>1, <1>2, <2>2 DEF CallPhase
  <2>3. CASE d \notin UNION new /\ d # c
    BY <1>1, <1>2, <2>3 DEF CallPhase
  <2> QED
    BY <2>1, <2>2, <2>3
<1>4. {ToSet(t.data) : t \in inflight'} = {ToSet(t.data) : t \in inflight} \cup new
  BY DEF Batches
<1> HIDE DEF new
<1>5. [d \in Calls |-> Outcome(d)]' = [d \in Calls |-> Outcome(d)]
  BY <1>2
<1>6. [d \in Calls |-> CallPhase(d)]' =
         [d \in Calls |-> IF d \in UNION new THEN "sent"
                          ELSE IF d = c THEN "waiting" ELSE [e \in Calls |-> CallPhase(e)][d]]
  BY <1>3
<1>7. Abstract!Send(new, c)
  BY <1>4, <1>5, <1>6 DEF Abstract!Send
<1> QED
  BY <1>7 DEF new

(* A turn in which the callbacks of the calls in S are called.              *)
LEMMA EndMaps ==
    ASSUME Ownership, NEW S, S \subseteq Calls, NEW err,
           Tell(S, err), \A d \in S : outcomes[d] = <<>>,
           \A d \in Calls \ S : (Sent(d)' <=> Sent(d)) /\ (Pending(d)' <=> Pending(d))
    PROVE  Abstract!End(S, err)
<1>1. ASSUME NEW d \in S
      PROVE  CallPhase(d)' = "answered" /\ Outcome(d)' = err
  <2>1. outcomes'[d] = Append(<<>>, err)
    BY DEF Tell
  <2>2. outcomes'[d] # <<>> /\ outcomes'[d][1] = err
    BY <2>1
  <2> QED
    BY <2>2 DEF CallPhase, Outcome, Answered
<1>2. ASSUME NEW d \in Calls \ S
      PROVE  CallPhase(d)' = CallPhase(d) /\ Outcome(d)' = Outcome(d)
  <2>1. outcomes'[d] = outcomes[d]
    BY DEF Tell
  <2> QED
    BY <2>1 DEF CallPhase, Outcome, Answered
<1> QED
  BY <1>1, <1>2 DEF Abstract!End

-----------------------------------------------------------------------------
(* Each action of the executor is an abstract step or a stutter.            *)

LEMMA ImmediateMaps ==
    ASSUME Sound, NEW c \in Calls, ScheduleImmediately(c)
    PROVE  Abstract!Submit(c)
<1> DEFINE task == Extend(NewTask(c), c)
           gone == {task}
<1>0. Ownership
  BY DEF Sound
<1>1. task.data # <<>> /\ ToSet(task.data) = {c}
  <2>1. task.data = <<c>>
    BY DEF Extend, NewTask
  <2> QED
    BY <2>1 DEF ToSet
<1>2. /\ c \notin scheduled /\ inflight' = inflight \cup gone
      /\ UNCHANGED <<tasks, outcomes>>
  BY <1>1 DEF ScheduleImmediately, Run, answers
<1> HIDE DEF task
<1>3. CallPhase(c) = "idle" /\ ~Answered(c)
  BY <1>0, <1>2, PhaseCases DEF Answered
<1>4. \A d \in Calls : /\ Sent(d)' <=> Sent(d) \/ \E t \in gone : d \in ToSet(t.data)
                       /\ Pending(d)' <=> Pending(d)
  BY <1>2 DEF Sent, Pending
<1>5. Batches(inflight') = Batches(inflight) \cup (Batches(gone) \ {{}})
  BY <1>1, <1>2 DEF Batches
<1>6. /\ \E t \in gone : c \in ToSet(t.data)
      /\ \A d \in Calls : Answered(d) => d # c /\ ~\E t \in gone : d \in ToSet(t.data)
  BY <1>1, <1>3
<1>7. Abstract!Send(Batches(gone) \ {{}}, c)
  <2>1. \A d \in Calls : Sent(d)' <=> Sent(d) \/ \E t \in gone : d \in ToSet(t.data)
    BY <1>4
  <2>2. \A d \in Calls : d # c /\ ~(\E t \in gone : d \in ToSet(t.data))
                            => (Pending(d)' <=> Pending(d))
    BY <1>4
  <2>3. /\ \E t \in gone : c \in ToSet(t.data)
        /\ outcomes' = outcomes
    BY <1>2, <1>6
  <2> HIDE DEF gone
  <2> QED
    BY <1>0, <1>5, <1>6, <2>1, <2>2, <2>3, SendMaps
<1>8. Batches(gone) \ {{}} = {{c}}
  BY <1>1 DEF Batches
<1>9. Abstract!Send({{c}}, c) /\ {} \in SUBSET Abstract!Waiting
  BY <1>7, <1>8
<1> QED
  BY <1>3, <1>9 DEF Abstract!Submit

LEMMA BundledMaps ==
    ASSUME Sound, NEW c \in Calls, ScheduleBundled(c)
    PROVE  Abstract!Submit(c)
<1>0. Ownership
  BY DEF Sound
<1>1. /\ BundleOf[c] \in BundleIds /\ c \notin scheduled /\ outcomes' = outcomes
  BY IdsAssumption DEF ScheduleBundled, answers
<1>2. PICK sent, P, N : Move(BundleOf[c], sent, {c}, P, N) /\ Departs(c, sent, P, N)
  BY <1>0, BundledMove
<1>3. /\ \A d \in P : Pending(d)
      /\ \A d \in Calls : Sent(d)' <=> Sent(d) \/ \E t \in sent : d \in ToSet(t.data)
      /\ \A d \in Calls : Pending(d)' <=> d \in N \/ (Pending(d) /\ d \notin P)
      /\ Batches(inflight') = Batches(inflight) \cup (Batches(sent) \ {{}})
  BY <1>0, <1>1, <1>2, MoveOfCalls
<1>4. /\ P \subseteq Calls /\ N \subseteq P \cup {c}
      /\ \A t \in sent : ToSet(t.data) \subseteq P \cup {c}
      /\ \A d \in P \cup {c} : d \in N \/ \E t \in sent : d \in ToSet(t.data)
  BY <1>2 DEF Move
<1>5. CallPhase(c) = "idle" /\ ~Answered(c) /\ ~Sent(c)
  BY <1>0, <1>1, PhaseCases DEF Answered
<1>6. \A d \in P : CallPhase(d) = "waiting" /\ ~Answered(d)
  BY <1>0, <1>3, <1>4, PhaseCases
<1>7. Abstract!Send(Batches(sent) \ {{}}, c)
  <2>1. \A d \in Calls : d # c /\ ~(\E t \in sent : d \in ToSet(t.data))
                            => (Pending(d)' <=> Pending(d))
    BY <1>3, <1>4
  <2>2. (\E t \in sent : c \in ToSet(t.data)) \/ (Pending(c)' /\ ~Sent(c))
    BY <1>3, <1>4, <1>5
  <2>3. \A d \in Calls : Answered(d) => d # c /\ ~\E t \in sent : d \in ToSet(t.data)
    BY <1>4, <1>5, <1>6
  <2> QED
    BY <1>0, <1>1, <1>3, <2>1, <2>2, <2>3, SendMaps
<1> DEFINE new == Batches(sent) \ {{}}
<1>8. new \in {{}, {P}, {{c}}, {P, {c}}, {P \cup {c}}} /\ {} \notin new
  BY <1>2 DEF Departs
<1>9. P \in SUBSET Abstract!Waiting
  BY <1>4, <1>6 DEF Abstract!Waiting
<1> HIDE DEF new
<1>10. \E D \in SUBSET Abstract!Waiting :
          \E n \in {{}, {D}, {{c}}, {D, {c}}, {D \cup {c}}} :
             {} \notin n /\ Abstract!Send(n, c)
  BY <1>7, <1>8, <1>9 DEF new
<1> QED
  BY <1>5, <1>10 DEF Abstract!Submit

LEMMA RejectedMaps ==
    ASSUME Sound, NEW c \in Calls, ScheduleRejected(c)
    PROVE  Abstract!Refuse(c)
<1>0. Ownership /\ TypeOK
  BY DEF Sound, Ownership
<1>1. /\ BundleOf[c] \in BundleIds /\ c \notin scheduled
      /\ tasks' = [tasks EXCEPT ![BundleOf[c]] = IF tasks[BundleOf[c]] = NoTask
                                                 THEN NewTask(c) ELSE tasks[BundleOf[c]]]
      /\ Tell({c}, "INVALID_ARGUMENT") /\ inflight' = inflight
  BY <1>0, IdsAssumption DEF ScheduleRejected, TypeOK
<1>2. CallPhase(c) = "idle" /\ outcomes[c] = <<>>
  BY <1>0, <1>1, PhaseCases
<1>3. \A d \in Calls : (Pending(d)' <=> Pending(d)) /\ (Sent(d)' <=> Sent(d))
  <2>1. ToSet(NewTask(c).data) = {}
    BY DEF ToSet, NewTask
  <2>2. \A b \in BundleIds : /\ tasks[b] # NoTask => tasks'[b] = tasks[b]
                             /\ tasks[b] = NoTask /\ tasks'[b] # NoTask =>
                                   ToSet(tasks'[b].data) = {}
    BY <1>0, <1>1, <2>1 DEF TypeOK
  <2> QED
    BY <1>1, <2>2 DEF Pending, Sent
<1>4. Abstract!End({c}, "INVALID_ARGUMENT")
  BY <1>0, <1>1, <1>2, <1>3, EndMaps
<1> QED
  BY <1>1, <1>2, <1>4 DEF Abstract!Refuse

LEMMA CancelMaps ==
    ASSUME Sound, NEW c \in Calls, Cancel(c)
    PROVE  Abstract!Withdraw(c)
<1> DEFINE b    == invocations[c]
           data == tasks[b].data
           left == Without(data, c)
<1>0. Ownership /\ TypeOK
  BY DEF Sound, Ownership
<1>1. /\ b \in BundleIds /\ tasks[b] # NoTask /\ ~ExceedsLimit(c)
      /\ Tell({c} \cap ToSet(data), "CANCELLED")
      /\ tasks' = [tasks EXCEPT ![b] = IF left = <<>> THEN NoTask
                                       ELSE [tasks[b] EXCEPT !.data = left]]
      /\ inflight' = inflight
  BY <1>0 DEF Cancel, TypeOK
<1>2. Pending(c) /\ c \in ToSet(data) /\ {c} \cap ToSet(data) = {c}
  <2>1. Pending(c) /\ b = BundleOf[c]
    BY <1>0, <1>1, IdsAssumption DEF Ownership, StaleOnlyRejected
  <2>2. PICK d \in BundleIds : tasks[d] # NoTask /\ c \in ToSet(tasks[d].data)
    BY <2>1 DEF Pending
  <2>3. BundleOf[c] = d
    BY <1>0, <2>2 DEF Ownership, WaitingOwned
  <2> QED
    BY <2>1, <2>2, <2>3
<1>3. CallPhase(c) = "waiting" /\ outcomes[c] = <<>>
  BY <1>0, <1>2, PhaseCases DEF Answered
<1>4. tasks[b] \in Task /\ data \in Seq(Calls) /\ IsInjective(data)
  BY <1>0, <1>1 DEF TypeOK, Task, Ownership, WaitingOwned
<1>5. left \in Seq(Calls) /\ ToSet(left) = ToSet(data) \ {c}
  BY <1>4, WithoutMembers
<1> HIDE DEF left
<1>6. /\ \A e \in BundleIds \ {b} : tasks'[e] = tasks[e]
      /\ left = <<>> => tasks'[b] = NoTask
      /\ left # <<>> => tasks'[b] # NoTask /\ tasks'[b].data = left
  <2>1. [tasks[b] EXCEPT !.data = left] \in Task
    BY <1>4, <1>5 DEF Task
  <2>2. [tasks[b] EXCEPT !.data = left] # NoTask
    BY <2>1, IdsAssumption DEF Task
  <2>3. [tasks[b] EXCEPT !.data = left].data = left
    BY <1>4 DEF Task
  <2> QED
    BY <1>0, <1>1, <2>2, <2>3 DEF TypeOK
<1>7. ASSUME NEW d \in Calls \ {c}
      PROVE  (Sent(d)' <=> Sent(d)) /\ (Pending(d)' <=> Pending(d))
  <2>1. left = <<>> => d \notin ToSet(data)
    <3>1. ToSet(<<>>) = {}
      BY DEF ToSet
    <3> QED
      BY <1>5, <3>1
  <2>2. \A e \in BundleIds : /\ tasks'[e] # NoTask /\ d \in ToSet(tasks'[e].data)
                            <=> tasks[e] # NoTask /\ d \in ToSet(tasks[e].data)
    BY <1>1, <1>5, <1>6, <2>1
  <2> QED
    BY <1>1, <2>2 DEF Sent, Pending
<1>8. Abstract!End({c}, "CANCELLED")
  BY <1>0, <1>1, <1>2, <1>3, <1>7, EndMaps
<1> QED
  BY <1>1, <1>3, <1>8 DEF Abstract!Withdraw

LEMMA TimeoutMaps ==
    ASSUME Sound, NEW b \in BundleIds, Timeout(b)
    PROVE  \/ \E D \in SUBSET Abstract!Waiting : Abstract!Dispatch(D)
           \/ UNCHANGED Abstract!vars
<1>0. Ownership /\ TypeOK
  BY DEF Sound, Ownership
<1>1. CASE tasks[b] = NoTask \/ tasks[b].data = <<>>
  <2>1. UNCHANGED <<inflight, outcomes>>
    BY <1>1 DEF Timeout, RunNow, Run, answers
  <2>2. \A d \in Calls : (Pending(d)' <=> Pending(d)) /\ (Sent(d)' <=> Sent(d))
    <3>1. ToSet(<<>>) = {}
      BY DEF ToSet
    <3>2. \A e \in BundleIds : \/ tasks'[e] = tasks[e]
                               \/ tasks'[e] = NoTask /\ tasks[e].data = <<>>
      BY <1>0, <1>1 DEF Timeout, RunNow, TypeOK
    <3> QED
      BY <2>1, <3>1, <3>2 DEF Pending, Sent
  <2>3. \A d \in Calls : CallPhase(d)' = CallPhase(d) /\ Outcome(d)' = Outcome(d)
    BY <2>1, <2>2 DEF CallPhase, Outcome, Answered
  <2> QED
    BY <2>1, <2>3 DEF Abstract!vars
<1>2. CASE tasks[b] # NoTask /\ tasks[b].data # <<>>
  <2> DEFINE gone == {tasks[b]}
             P    == ToSet(tasks[b].data)
  <2>1. Move(b, gone, {}, P, {}) /\ outcomes' = outcomes
    BY <1>0, <1>2, TimeoutMove DEF Timeout, RunNow, answers
  <2>2. /\ \A d \in P : Pending(d)
        /\ \A d \in Calls : Sent(d)' <=> Sent(d) \/ \E t \in gone : d \in ToSet(t.data)
        /\ \A d \in Calls : Pending(d)' <=> d \in {} \/ (Pending(d) /\ d \notin P)
        /\ Batches(inflight') = Batches(inflight) \cup (Batches(gone) \ {{}})
    BY <1>0, <2>1, MoveOfCalls
  <2>3. P \subseteq Calls /\ P # {}
    <3>1. tasks[b] \in Task /\ tasks[b].data \in Seq(Calls)
      BY <1>0, <1>2 DEF TypeOK, Task
    <3> QED
      BY <1>2, <3>1, MembersAreCalls, MembersNonEmpty
  <2>4. \A d \in P : CallPhase(d) = "waiting" /\ ~Answered(d)
    BY <1>0, <2>2, <2>3, PhaseCases
  <2>5. PICK none : none \notin Calls
    BY IdsAssumption, NoSetContainsEverything
  <2>6. Abstract!Send(Batches(gone) \ {{}}, none)
    <3>1. \A d \in Calls : d # none /\ ~(\E t \in gone : d \in ToSet(t.data))
                              => (Pending(d)' <=> Pending(d))
      BY <2>2
    <3>2. \A d \in Calls : Answered(d) => d # none /\ ~\E t \in gone : d \in ToSet(t.data)
      BY <2>4, <2>5
    <3>3. outcomes' = outcomes
      BY <2>1
    <3>4. none \in Calls => \/ \E t \in gone : none \in ToSet(t.data)
                            \/ Pending(none)' /\ ~Sent(none)
      BY <2>5
    <3>5. /\ \A d \in Calls : Sent(d)' <=> Sent(d) \/ \E t \in gone : d \in ToSet(t.data)
          /\ Batches(inflight') = Batches(inflight) \cup (Batches(gone) \ {{}})
      BY <2>2
    <3> HIDE DEF gone
    <3> QED
      BY ONLY <1>0, <3>1, <3>2, <3>3, <3>4, <3>5, SendMaps
  <2>7. Batches(gone) \ {{}} = {P} /\ P \subseteq Abstract!Waiting
    BY <2>3, <2>4 DEF Batches, Abstract!Waiting
  <2> HIDE DEF P, gone
  <2>8. Abstract!Send({P}, none)
    BY <2>6, <2>7
  <2>9. Abstract!Dispatch(P)
    BY <2>3, <2>5, <2>7, <2>8 DEF Abstract!Send, Abstract!Dispatch
  <2> QED
    BY <2>7, <2>9
<1> QED
  BY <1>1, <1>2

LEMMA AnswerMaps ==
    ASSUME Sound, NEW task \in inflight, NEW err \in {"none", "API_ERROR"},
           inflight' = inflight \ {task}, Tell(ToSet(task.data), err), tasks' = tasks
    PROVE  \E D \in Batches(inflight) : Abstract!Finish(D, err)
<1> DEFINE M == ToSet(task.data)
<1>0. Ownership /\ TypeOK
  BY DEF Sound, Ownership
<1>1. M \subseteq Calls /\ M # {}
  BY <1>0, MembersAreCalls DEF TypeOK, Sound, NoneEmpty
<1>2. \A d \in M : outcomes[d] = <<>>
  BY <1>0 DEF Ownership, SentOwned
<1>3. \A t \in inflight \ {task} : ToSet(t.data) \cap M = {} /\ ToSet(t.data) # M
  BY <1>0, <1>1 DEF Ownership, BatchesDisjoint
<1>4. Batches(inflight') = Batches(inflight) \ {M} /\ M \in Batches(inflight)
  BY <1>3 DEF Batches
<1>5. \A d \in Calls \ M : (Sent(d)' <=> Sent(d)) /\ (Pending(d)' <=> Pending(d))
  BY DEF Sent, Pending
<1> HIDE DEF M
<1>6. Abstract!End(M, err)
  <2>1. Tell(M, err)
    BY DEF M
  <2> QED
    BY <1>0, <1>1, <1>2, <1>5, <2>1, EndMaps
<1>7. Abstract!Finish(M, err)
  BY <1>4, <1>6 DEF Abstract!Finish, Batches
<1> QED
  BY <1>4, <1>7

LEMMA MappedStep == Sound /\ [Next]_vars => [Abstract!Next]_(Abstract!vars)
<1> SUFFICES ASSUME Sound, [Next]_vars PROVE [Abstract!Next]_(Abstract!vars)
  OBVIOUS
<1>1. ASSUME NEW c \in Calls, Schedule(c) PROVE Abstract!Next
  BY <1>1, ImmediateMaps, BundledMaps, RejectedMaps DEF Schedule, Abstract!Next
<1>2. ASSUME NEW c \in Calls, Cancel(c) PROVE Abstract!Next
  BY <1>2, CancelMaps DEF Abstract!Next
<1>3. ASSUME NEW b \in BundleIds, Timeout(b) PROVE Abstract!Next \/ UNCHANGED Abstract!vars
  BY <1>3, TimeoutMaps DEF Abstract!Next
<1>4. ASSUME NEW task \in inflight, ApiResponds(task) \/ ApiFails(task) PROVE Abstract!Next
  <2>1. PICK err \in {"none", "API_ERROR"} :
            \E D \in Batches(inflight) : Abstract!Finish(D, err)
    BY <1>4, AnswerMaps DEF ApiResponds, ApiFails
  <2> QED
    BY <2>1 DEF Abstract!Next, Batches
<1>5. CASE UNCHANGED vars
  <2>1. \A d \in Calls : CallPhase(d)' = CallPhase(d) /\ Outcome(d)' = Outcome(d)
    BY <1>5 DEF vars, CallPhase, Outcome, Answered, Sent, Pending
  <2> QED
    BY <1>5, <2>1 DEF vars, Abstract!vars
<1> QED
  BY <1>1, <1>2, <1>3, <1>4, <1>5 DEF Next

(* Whatever the sizes, limits, thresholds and bundle ids, the executor does *)
(* only what request bundling promises: calls that leave together share     *)
(* their fate, each ends once, and a withdrawn call was never sent.         *)
THEOREM ExecutorImplementsBundledCalls == Spec => ImplementsBundledCalls
  BY MappedInit, MappedStep, SoundInvariant, PTL
     DEF Spec, ImplementsBundledCalls, Abstract!Spec

-----------------------------------------------------------------------------
(* Order of departure.                                                      *)

Overtakes(b) ==
    /\ \E c \in Calls : BundleOf[c] = b /\ Sent(c)' /\ ~Sent(c)
    /\ \E d \in Calls : BundleOf[d] = b /\ Pending(d) /\ Pending(d)'

LEMMA NoneOvertakes ==
    ASSUME Ownership, [Next]_vars, NEW b \in BundleIds
    PROVE  ~Overtakes(b)
<1> USE IdsAssumption
<1>0. TypeOK
  BY DEF Ownership
<1>1. ASSUME NEW c \in Calls, ScheduleImmediately(c) PROVE ~Overtakes(b)
  <2>1. /\ BundleOf[c] = NoBundle
        /\ inflight' \subseteq inflight \cup {Extend(NewTask(c), c)}
    BY <1>1 DEF ScheduleImmediately, Run
  <2>2. ToSet(Extend(NewTask(c), c).data) = {c}
    <3>1. Extend(NewTask(c), c).data = <<c>>
      BY DEF Extend, NewTask
    <3> QED
      BY <3>1 DEF ToSet
  <2>3. \A d \in Calls : Sent(d)' => Sent(d) \/ d = c
    BY <2>1, <2>2 DEF Sent
  <2> QED
    BY <2>1, <2>3 DEF Overtakes
<1>2. ASSUME NEW c \in Calls, ScheduleBundled(c) PROVE ~Overtakes(b)
  <2>1. BundleOf[c] \in BundleIds
    BY <1>2 DEF ScheduleBundled
  <2>2. PICK sent, P, N : Move(BundleOf[c], sent, {c}, P, N) /\ Departs(c, sent, P, N)
    BY <1>2, BundledMove
  <2>3. /\ \A d \in P : Pending(d)
        /\ \A d \in Calls : Sent(d)' <=> Sent(d) \/ \E t \in sent : d \in ToSet(t.data)
        /\ \A d \in Calls : Pending(d)' <=> d \in N \/ (Pending(d) /\ d \notin P)
    BY <2>1, <2>2, MoveOfCalls
  <2>4. \A d \in P : BundleOf[d] = BundleOf[c]
    BY <2>1, <2>2 DEF Move, Ownership, WaitingOwned
  <2>5. \A d \in Calls : Pending(d) /\ BundleOf[d] = BundleOf[c] => d \in P
    BY <2>2 DEF Move, Pending, Ownership, WaitingOwned
  <2>6. \A t \in sent : ToSet(t.data) \subseteq P \cup {c}
    BY <2>2 DEF Move
  <2>7. sent # {} => P \cap N = {}
    BY <2>2 DEF Departs, Batches
  <2> QED
    BY <2>2, <2>3, <2>4, <2>5, <2>6, <2>7 DEF Overtakes, Move
<1>3. ASSUME NEW e \in BundleIds, Timeout(e) PROVE ~Overtakes(b)
  <2>1. CASE tasks[e] = NoTask
    BY <1>3, <2>1 DEF Timeout, RunNow, Overtakes, Sent
  <2>2. CASE tasks[e] # NoTask
    <3> DEFINE P == ToSet(tasks[e].data)
    <3>1. Move(e, {tasks[e]}, {}, P, {})
      BY <1>0, <1>3, <2>2, TimeoutMove
    <3>2. /\ \A d \in Calls : Sent(d)' <=> Sent(d) \/ \E t \in {tasks[e]} : d \in ToSet(t.data)
          /\ \A d \in Calls : Pending(d)' <=> d \in {} \/ (Pending(d) /\ d \notin P)
      BY <3>1, MoveOfCalls
    <3>3. \A d \in P : BundleOf[d] = e
      BY <2>2 DEF Ownership, WaitingOwned
    <3>4. \A d \in Calls : Pending(d) /\ BundleOf[d] = e => d \in P
      BY DEF Pending, Ownership, WaitingOwned
    <3> QED
      BY <3>2, <3>3, <3>4 DEF Overtakes
  <2> QED
    BY <2>1, <2>2
<1>4. CASE inflight' \subseteq inflight
  BY <1>4 DEF Overtakes, Sent
<1> QED
  BY <1>1, <1>2, <1>3, <1>4
     DEF Next, Schedule, ScheduleRejected, Cancel, ApiResponds, ApiFails, vars

(* When calls of a bundle id leave, none of those that waited before them   *)
(* stays behind, for any limits, thresholds and order of events.            *)
THEOREM CallsLeaveInOrder == Spec => NoOvertaking
<1> DEFINE A == \A b \in BundleIds :
                  (\E c \in Calls : BundleOf[c] = b /\ Sent(c)' /\ ~Sent(c)) =>
                     ~\E d \in Calls : BundleOf[d] = b /\ Pending(d) /\ Pending(d)'
<1>1. Ownership /\ [Next]_vars => A
  BY NoneOvertakes DEF Overtakes
<1>2. Ownership /\ [Next]_vars => [A]_vars
  BY <1>1
<1> HIDE DEF A
<1>3. Spec => [][A]_vars
  BY <1>2, OwnershipInvariant, PTL DEF Spec
<1> QED
  BY <1>3 DEF NoOvertaking, A

-----------------------------------------------------------------------------
(* BundleIds.                                                               *)

(* Two requests with the same id agree in every discriminator field, as     *)
(* the properties see it: missing or null is the same.                      *)
LEMMA EqualIdsAgree ==
    ASSUME NEW c \in Calls, NEW d \in Calls,
           BundleOf[c] = BundleOf[d], BundleOf[c] # NoBundle
    PROVE  \A k \in DOMAIN DiscriminatorFields :
              At(Request[c], DiscriminatorFields[k]) = At(Request[d], DiscriminatorFields[k])
<1> DEFINE Id(e) == [k \in DOMAIN DiscriminatorFields |->
                       At(Request[e], DiscriminatorFields[k])]
<1>1. ASSUME NEW e \in Calls, BundleOf[e] # NoBundle
      PROVE  BundleOf[e] = Id(e)
  BY <1>1, BundleOfAssumption DEF ComputeBundleId
<1>2. Id(c) = Id(d)
  BY <1>1
<1>3. \A k \in DOMAIN DiscriminatorFields : Id(c)[k] = Id(d)[k]
  BY <1>2
<1> QED
  BY <1>3

-----------------------------------------------------------------------------
(* RequestSpeaksForAll is not inductive: a task's base request, which may   *)
(* be that of a call that was rejected or cancelled, must have the id of    *)
(* the task even while nobody waits in it.                                  *)

Homogeneous(task, b) ==
    /\ BundleOf[task.base] = b
    /\ \A c \in ToSet(task.data) : BundleOf[c] = b

TasksKeepTheirId ==
    \A b \in BundleIds : tasks[b] # NoTask => Homogeneous(tasks[b], b)

(* What is sent has been a task of one id, or is a call on its own.         *)
Speaks(task) ==
    \/ \E b \in BundleIds : Homogeneous(task, b)
    \/ ToSet(task.data) = {task.base}

RequestsKeepTheirId == \A task \in inflight : Speaks(task)

OneId == TasksKeepTheirId /\ RequestsKeepTheirId

LEMMA OneIdInit == Init => OneId
  BY DEF Init, OneId, TasksKeepTheirId, RequestsKeepTheirId

(* A new task is for the id of its call, and a call that is added keeps it. *)
LEMMA NewTaskHomogeneous ==
    ASSUME NEW c \in Calls PROVE Homogeneous(NewTask(c), BundleOf[c])
  BY DEF Homogeneous, NewTask, ToSet

LEMMA ExtendHomogeneous ==
    ASSUME NEW task \in Task, NEW c \in Calls, Homogeneous(task, BundleOf[c])
    PROVE  Homogeneous(Extend(task, c), BundleOf[c])
<1>1. /\ Extend(task, c).base = task.base
      /\ ToSet(Extend(task, c).data) = ToSet(task.data) \cup {c}
  <2>1. Extend(task, c).data = Append(task.data, c) /\ task.data \in Seq(Calls)
    BY DEF Extend, Task
  <2> QED
    BY <2>1, ExtendMembers DEF Extend, Task
<1> QED
  BY <1>1 DEF Homogeneous

LEMMA ConcatMembers ==
    ASSUME NEW S, NEW s \in Seq(S), NEW t \in Seq(S)
    PROVE  ToSet(s \o t) = ToSet(s) \cup ToSet(t)
<1> DEFINE u == s \o t
<1>1. /\ DOMAIN u = 1 .. Len(s) + Len(t)
      /\ DOMAIN s = 1 .. Len(s) /\ DOMAIN t = 1 .. Len(t)
      /\ Len(s) \in Nat /\ Len(t) \in Nat
      /\ \A i \in 1 .. Len(s) : u[i] = s[i]
      /\ \A i \in 1 .. Len(t) : u[Len(s) + i] = t[i]
  OBVIOUS
<1> HIDE DEF u
<1>2. ASSUME NEW i \in DOMAIN u PROVE u[i] \in ToSet(s) \cup ToSet(t)
  <2>1. CASE i \in 1 .. Len(s)
    BY <1>1, <2>1 DEF ToSet
  <2>2. CASE i \notin 1 .. Len(s)
    <3>1. i - Len(s) \in 1 .. Len(t) /\ i = Len(s) + (i - Len(s))
      BY <1>1, <2>2
    <3> QED
      BY <1>1, <3>1 DEF ToSet
  <2> QED
    BY <2>1, <2>2
<1>3. ToSet(s) \subseteq ToSet(u) /\ ToSet(t) \subseteq ToSet(u)
  <2>1. \A i \in 1 .. Len(t) : Len(s) + i \in 1 .. Len(s) + Len(t)
    BY <1>1
  <2>2. \A i \in 1 .. Len(s) : i \in 1 .. Len(s) + Len(t)
    BY <1>1
  <2> QED
    BY <1>1, <2>1, <2>2 DEF ToSet
<1> QED
  BY <1>2, <1>3 DEF ToSet, u

(* The splice of Task.cancel adds no call.                                  *)
LEMMA WithoutKeepsNoOther ==
    ASSUME NEW s \in Seq(Calls), NEW c PROVE ToSet(Without(s, c)) \subseteq ToSet(s)
<1>1. CASE ~ \E i \in DOMAIN s : s[i] = c
  BY <1>1 DEF Without
<1>2. CASE \E i \in DOMAIN s : s[i] = c
  <2> DEFINE k == CHOOSE i \in DOMAIN s : s[i] = c
             p == SubSeq(s, 1, k - 1)
             q == SubSeq(s, k + 1, Len(s))
  <2>1. k \in 1 .. Len(s)
    BY <1>2
  <2>2. Without(s, c) = p \o q
    BY <1>2 DEF Without, RemoveAt
  <2> HIDE DEF k
  <2>3. /\ p \in Seq(Calls) /\ DOMAIN p = 1 .. k - 1 /\ \A i \in DOMAIN p : p[i] = s[i]
        /\ q \in Seq(Calls) /\ DOMAIN q = 1 .. Len(s) - k /\ \A i \in DOMAIN q : q[i] = s[i + k]
    BY <2>1
  <2>4. ToSet(p) \subseteq ToSet(s) /\ ToSet(q) \subseteq ToSet(s)
    BY <2>1, <2>3 DEF ToSet
  <2> HIDE DEF p, q
  <2>5. ToSet(p \o q) = ToSet(p) \cup ToSet(q)
    BY <2>3, ConcatMembers
  <2> QED
    BY <2>2, <2>4, <2>5
<1> QED
  BY <1>1, <1>2

LEMMA OneIdStep == TypeOK /\ OneId /\ [Next]_vars => OneId'
<1> SUFFICES ASSUME TypeOK, OneId, [Next]_vars
             PROVE  OneId'
  OBVIOUS
<1> USE IdsAssumption
<1>0. /\ \A b \in BundleIds : tasks[b] # NoTask => tasks[b] \in Task /\ Homogeneous(tasks[b], b)
      /\ \A task \in inflight : Speaks(task)
  BY DEF TypeOK, OneId, TasksKeepTheirId, RequestsKeepTheirId
<1>1. ASSUME NEW c \in Calls, ScheduleImmediately(c)
      PROVE  OneId'
  <2> DEFINE task == Extend(NewTask(c), c)
  <2>1. task.base = c /\ task.data = <<c>>
    BY DEF Extend, NewTask
  <2>2. Speaks(task)
    <3>1. ToSet(task.data) = {c}
      BY <2>1 DEF ToSet
    <3> QED
      BY <2>1, <3>1 DEF Speaks
  <2> HIDE DEF task
  <2>3. tasks' = tasks /\ inflight' \subseteq inflight \cup {task}
    BY <1>1 DEF ScheduleImmediately, Run, task
  <2> QED
    BY <1>0, <2>2, <2>3 DEF OneId, TasksKeepTheirId, RequestsKeepTheirId, Homogeneous, Speaks
<1>2. ASSUME NEW c \in Calls, ScheduleRejected(c)
      PROVE  OneId'
  <2>1. BundleOf[c] \in BundleIds /\ inflight' = inflight
    BY <1>2 DEF ScheduleRejected
  <2>2. \A b \in BundleIds : tasks'[b] = tasks[b] \/ (b = BundleOf[c] /\ tasks'[b] = NewTask(c))
    BY <1>2, <2>1 DEF ScheduleRejected, TypeOK
  <2> QED
    BY <1>0, <2>1, <2>2, NewTaskHomogeneous
       DEF OneId, TasksKeepTheirId, RequestsKeepTheirId, Homogeneous, Speaks
<1>3. ASSUME NEW c \in Calls, ScheduleBundled(c)
      PROVE  OneId'
  <2> DEFINE b       == BundleOf[c]
             pending == IF tasks[b] = NoTask THEN NewTask(c) ELSE tasks[b]
             flush   == WouldReachLimit(pending.data, c)
             opened  == IF flush THEN NewTask(c) ELSE pending
             task    == Extend(opened, c)
             full    == ReachesThreshold(task.data)
  <2>1. /\ b \in BundleIds
        /\ tasks' = [tasks EXCEPT ![b] = IF full THEN NoTask ELSE task]
        /\ inflight' \subseteq inflight \cup {pending, task}
    BY <1>3 DEF ScheduleBundled, Run
  <2>2. pending \in Task /\ Homogeneous(pending, b)
    BY <1>0, <2>1, NewTaskType, NewTaskHomogeneous
  <2>3. opened \in Task /\ Homogeneous(opened, b)
    BY <2>2, NewTaskType, NewTaskHomogeneous
  <2>4. Homogeneous(task, b)
    BY <2>3, ExtendHomogeneous
  <2> HIDE DEF full, task, pending, b
  <2> QED
    BY <1>0, <2>1, <2>2, <2>4
       DEF TypeOK, OneId, TasksKeepTheirId, RequestsKeepTheirId, Homogeneous, Speaks
<1>4. ASSUME NEW c \in Calls, Cancel(c)
      PROVE  OneId'
  <2> DEFINE b    == invocations[c]
             left == Without(tasks[b].data, c)
             rest == [tasks[b] EXCEPT !.data = left]
  <2>1. /\ b \in BundleIds /\ tasks[b] # NoTask /\ inflight' = inflight
        /\ tasks' = [tasks EXCEPT ![b] = IF left = <<>> THEN NoTask ELSE rest]
    BY <1>4 DEF Cancel, TypeOK
  <2>2. tasks[b] \in Task /\ Homogeneous(tasks[b], b)
    BY <1>0, <2>1
  <2>3. rest.data = left /\ rest.base = tasks[b].base /\ tasks[b].data \in Seq(Calls)
    BY <2>2 DEF Task
  <2>4. ToSet(left) \subseteq ToSet(tasks[b].data)
    BY <2>3, WithoutKeepsNoOther
  <2>5. Homogeneous(rest, b)
    BY <2>2, <2>3, <2>4 DEF Homogeneous
  <2> HIDE DEF left, rest, b
  <2> QED
    BY <1>0, <2>1, <2>5
       DEF TypeOK, OneId, TasksKeepTheirId, RequestsKeepTheirId, Homogeneous, Speaks
<1>5. ASSUME NEW b \in BundleIds, Timeout(b)
      PROVE  OneId'
  <2>1. /\ inflight' \subseteq inflight \cup ({tasks[b]} \ {NoTask})
        /\ \A d \in BundleIds : tasks'[d] = tasks[d] \/ tasks'[d] = NoTask
    BY <1>5 DEF Timeout, RunNow, Run, TypeOK
  <2> QED
    BY <1>0, <2>1 DEF OneId, TasksKeepTheirId, RequestsKeepTheirId, Homogeneous, Speaks
<1>6. CASE tasks' = tasks /\ inflight' \subseteq inflight
  BY <1>0, <1>6 DEF OneId, TasksKeepTheirId, RequestsKeepTheirId, Homogeneous, Speaks
<1> QED
  BY <1>1, <1>2, <1>3, <1>4, <1>5, <1>6 DEF Next, Schedule, ApiResponds, ApiFails, vars

LEMMA OneIdImpliesSpeaks == TypeOK /\ OneId => RequestSpeaksForAll
<1> SUFFICES ASSUME TypeOK, OneId,
                    NEW task \in {tasks[b] : b \in BundleIds} \cup inflight, task # NoTask,
                    NEW c \in ToSet(task.data)
             PROVE  \A k \in DOMAIN DiscriminatorFields :
                       At(Request[c], DiscriminatorFields[k]) =
                          At(Request[task.base], DiscriminatorFields[k])
  BY DEF RequestSpeaksForAll
<1> USE IdsAssumption
<1>1. task \in Task
  BY DEF TypeOK
<1>2. task.base \in Calls /\ c \in Calls
  BY <1>1, MembersAreCalls DEF Task
<1>3. CASE \E b \in BundleIds : Homogeneous(task, b)
  BY <1>2, <1>3, EqualIdsAgree DEF Homogeneous
<1>4. CASE ToSet(task.data) = {task.base}
  BY <1>4
<1> QED
  BY <1>3, <1>4 DEF OneId, TasksKeepTheirId, RequestsKeepTheirId, Speaks

(* The base request of every bundle, waiting or sent, has the discriminator *)
(* fields of every call in it, whichever call the task was created for.     *)
THEOREM BaseSpeaksForItsCalls == Spec => []RequestSpeaksForAll
  BY OneIdInit, OneIdStep, OneIdImpliesSpeaks, TypeCorrect, PTL DEF Spec

-----------------------------------------------------------------------------
(* BundledCall.                                                             *)

(* What a step of the system is for the executor: one of its own steps, of  *)
(* which Cancel is not one, or a flush whose call throws, or none.          *)
ExecutorSteps ==
    \/ \E c \in Calls : Schedule(c)
    \/ \E b \in BundleIds : Timeout(b)
    \/ \E b \in BundleIds : RunNow(b)
    \/ \E task \in inflight : ApiResponds(task) \/ ApiFails(task)
    \/ UNCHANGED vars

LEMMA FlushRuns ==
    ASSUME NEW c \in Calls, FlushThrows(c)
    PROVE  BundleOf[c] \in BundleIds /\ RunNow(BundleOf[c])
  BY IdsAssumption DEF FlushThrows

LEMMA StepsOfExecutor == [PNext]_allVars => ExecutorSteps
<1> SUFFICES ASSUME [PNext]_allVars PROVE ExecutorSteps
  OBVIOUS
<1>1. ASSUME NEW c \in Calls, StartCall(c) PROVE ExecutorSteps
  BY <1>1 DEF StartCall, ExecutorSteps
<1>2. ASSUME NEW c \in Calls, Make(c) \/ StubFails(c) \/ CancelPromise(c) \/ Settle(c)
      PROVE  ExecutorSteps
  BY <1>2 DEF Make, StubFails, CancelPromise, Settle, ExecutorSteps
<1>3. CASE BundleProgress
  BY <1>3 DEF BundleProgress, ExecutorSteps
<1>4. CASE UNCHANGED allVars
  BY <1>4 DEF allVars, ExecutorSteps
<1>5. ASSUME NEW c \in Calls, StartThrows(c) PROVE ExecutorSteps
  BY <1>5, FlushRuns DEF StartThrows, ExecutorSteps
<1>6. CASE TimeoutThrows \/ BundleLost
  BY <1>6 DEF TimeoutThrows, BundleLost, ExecutorSteps
<1> QED
  BY <1>1, <1>2, <1>3, <1>4, <1>5, <1>6 DEF PNext

LEMMA ExecutorKeepsOwnership == Ownership /\ ExecutorSteps => Ownership'
<1> SUFFICES ASSUME Ownership, ExecutorSteps PROVE Ownership'
  OBVIOUS
<1>1. ASSUME NEW b \in BundleIds, RunNow(b) PROVE Ownership'
  BY <1>1, RunNowKeepsOwnership
<1>2. CASE [Next]_vars
  BY <1>2, OwnershipStep
<1> QED
  BY <1>1, <1>2 DEF ExecutorSteps, Next

-----------------------------------------------------------------------------
(* Who scheduled a call and what it was answered.  Without the executor's   *)
(* Cancel no call is answered with CANCELLED, so a promise rejected with it *)
(* was rejected by the OngoingCall.                                         *)

Answers == {"none", "INVALID_ARGUMENT", "API_ERROR"}

AnswersOnce ==
    \A c \in Calls : outcomes[c] = <<>> \/ \E err \in Answers : outcomes[c] = <<err>>

(* A step calls the callbacks of calls that have had no answer.             *)
LEMMA AnswersStep ==
    ASSUME Ownership, AnswersOnce, ExecutorSteps
    PROVE  /\ AnswersOnce'
           /\ \A c \in Calls : outcomes[c] # <<>> => outcomes'[c] = outcomes[c]
<1>0. TypeOK
  BY DEF Ownership
<1>1. ASSUME NEW S, S \subseteq Calls, \A c \in S : outcomes[c] = <<>>,
             NEW err \in Answers, Tell(S, err)
      PROVE  /\ AnswersOnce'
             /\ \A c \in Calls : outcomes[c] # <<>> => outcomes'[c] = outcomes[c]
  <2>1. Append(<<>>, err) = <<err>>
    OBVIOUS
  <2>2. \A c \in Calls : outcomes'[c] = IF c \in S THEN <<err>> ELSE outcomes[c]
    BY <1>1, <2>1 DEF Tell
  <2> QED
    BY <1>1, <2>2 DEF AnswersOnce
<1>2. CASE outcomes' = outcomes
  BY <1>2 DEF AnswersOnce
<1>3. ASSUME NEW c \in Calls, ScheduleRejected(c) PROVE outcomes[c] = <<>> /\ Tell({c}, "INVALID_ARGUMENT")
  BY <1>3 DEF ScheduleRejected, Ownership, IdleUntouched
<1>4. ASSUME NEW task \in inflight
      PROVE  ToSet(task.data) \subseteq Calls /\ \A c \in ToSet(task.data) : outcomes[c] = <<>>
  BY <1>0, MembersAreCalls DEF TypeOK, Ownership, SentOwned
<1>5. ASSUME NEW c \in Calls, ScheduleRejected(c)
      PROVE  /\ AnswersOnce'
             /\ \A d \in Calls : outcomes[d] # <<>> => outcomes'[d] = outcomes[d]
  BY <1>1, <1>3, <1>5 DEF Answers
<1>6. ASSUME NEW task \in inflight, ApiResponds(task) \/ ApiFails(task)
      PROVE  /\ AnswersOnce'
             /\ \A d \in Calls : outcomes[d] # <<>> => outcomes'[d] = outcomes[d]
  BY <1>1, <1>4, <1>6 DEF ApiResponds, ApiFails, Answers
<1> QED
  BY <1>2, <1>5, <1>6
     DEF ExecutorSteps, Schedule, ScheduleImmediately, ScheduleBundled, Timeout, RunNow, answers, vars

-----------------------------------------------------------------------------
(* PromisesFollowBundle is not inductive: it does not say that a cancelled  *)
(* call is completed and so never scheduled, nor that a call whose stub     *)
(* failed is past its start.                                                *)

NotScheduledAfter ==
    /\ scheduled \subseteq started
    /\ cancelled \subseteq completed
    /\ \A c \in Calls : settled[c] \in {"STUB_FAILED", "THROWN"} => c \in started

(* A promise is rejected with what was thrown before its call was added to  *)
(* a task, or with that task, which is never answered.                      *)
ThrownAreLost ==
    /\ lost \subseteq inflight
    /\ \A c \in Calls : settled[c] = "THROWN" =>
          c \notin scheduled \/ \E task \in lost : c \in ToSet(task.data)

(* PromisesFollowBundle, but for what was thrown.                           *)
Followed ==
    \A c \in Calls :
        /\ settled[c] = "CANCELLED" => c \in cancelled
        /\ settled[c] \in {"CANCELLED", "STUB_FAILED"} => c \notin scheduled
        /\ c \in cancelled /\ c \notin scheduled => settled[c] # "pending"
        /\ settled[c] \notin {"CANCELLED", "STUB_FAILED", "THROWN", "pending"} =>
              outcomes[c] = <<settled[c]>>

Promises ==
    /\ settled \in [Calls -> Answers \cup {"pending", "CANCELLED", "STUB_FAILED", "THROWN"}]
    /\ AnswersOnce
    /\ NotScheduledAfter
    /\ ThrownAreLost
    /\ Followed

System == Ownership /\ Promises

LEMMA SystemInit == PInit => System
<1> SUFFICES ASSUME PInit PROVE System
  OBVIOUS
<1>1. Ownership
  BY OwnershipInit DEF PInit
<1>2. Promises
  BY DEF PInit, Init, Promises, AnswersOnce, Answers, NotScheduledAfter, ThrownAreLost, Followed
<1> QED
  BY <1>1, <1>2 DEF System

(* What is scheduled has not been lost or thrown before.                    *)
LEMMA ScheduledBySchedule ==
    ASSUME NEW c \in Calls, Schedule(c)
    PROVE  scheduled' = scheduled \cup {c} /\ inflight \subseteq inflight'
  BY DEF Schedule, ScheduleImmediately, ScheduleRejected, ScheduleBundled, Run

LEMMA PromisesStep == System /\ [PNext]_allVars => Promises'
<1> SUFFICES ASSUME System, [PNext]_allVars PROVE Promises'
  OBVIOUS
<1>0. /\ Ownership
      /\ settled \in [Calls -> Answers \cup {"pending", "CANCELLED", "STUB_FAILED", "THROWN"}]
      /\ NotScheduledAfter /\ ThrownAreLost /\ Followed
      /\ AnswersOnce /\ AnswersOnce'
      /\ \A c \in Calls : outcomes[c] # <<>> => outcomes'[c] = outcomes[c]
  BY StepsOfExecutor, AnswersStep DEF System, Promises
<1>1. ASSUME UNCHANGED <<started, cancelled, settled>>, completed \subseteq completed',
             scheduled' = scheduled, lost \subseteq lost', lost' \subseteq inflight'
      PROVE  Promises'
  <2>1. NotScheduledAfter' /\ ThrownAreLost'
    BY <1>0, <1>1 DEF NotScheduledAfter, ThrownAreLost
  <2>2. Followed'
    BY <1>0, <1>1 DEF Followed
  <2> QED
    BY <1>0, <1>1, <2>1, <2>2 DEF Promises
<1>2. ASSUME NEW c \in Calls, StartCall(c) PROVE Promises'
  <2>1. CASE c \in completed
    <3>1. /\ UNCHANGED <<scheduled, inflight, lost, outcomes, settled, cancelled, completed>>
          /\ started \subseteq started'
      BY <1>2, <2>1 DEF StartCall, vars, stub
    <3> QED
      BY <1>0, <3>1 DEF Promises, NotScheduledAfter, ThrownAreLost, Followed
  <2>2. CASE c \notin completed
    <3>1. /\ scheduled' = scheduled \cup {c} /\ c \notin started
          /\ started' = started \cup {c} /\ completed \subseteq completed'
          /\ UNCHANGED <<cancelled, settled, lost>> /\ inflight \subseteq inflight'
      BY <1>2, <2>2, ScheduledBySchedule DEF StartCall, CompleteAnswered, stub
    <3>2. c \notin cancelled /\ settled[c] \notin {"STUB_FAILED", "CANCELLED", "THROWN"}
      BY <1>0, <2>2, <3>1 DEF NotScheduledAfter, Followed
    <3>3. NotScheduledAfter'
      BY <1>0, <3>1 DEF NotScheduledAfter
    <3>4. Followed' /\ ThrownAreLost'
      BY <1>0, <3>1, <3>2 DEF Followed, ThrownAreLost
    <3> QED
      BY <1>0, <3>1, <3>3, <3>4 DEF Promises
  <2> QED
    BY <2>1, <2>2
<1>3. ASSUME NEW c \in Calls, Make(c) PROVE Promises'
  BY <1>0, <1>1, <1>3 DEF Make, vars, stub, ThrownAreLost
<1>4. ASSUME NEW c \in Calls, StubFails(c) PROVE Promises'
  <2>1. /\ c \notin started /\ started' = started \cup {c}
        /\ UNCHANGED <<scheduled, inflight, lost, outcomes, completed, cancelled>>
        /\ settled' = IF settled[c] # "pending" THEN settled
                       ELSE [settled EXCEPT ![c] = "STUB_FAILED"]
    BY <1>4 DEF StubFails, vars, stub
  <2>2. c \notin scheduled
    BY <1>0, <2>1 DEF NotScheduledAfter
  <2> QED
    BY <1>0, <2>1, <2>2 DEF Promises, NotScheduledAfter, ThrownAreLost, Followed
<1>5. ASSUME NEW c \in Calls, CancelPromise(c) PROVE Promises'
  <2>1. /\ cancelled' = cancelled \cup {c} /\ completed' = completed \cup {c}
        /\ UNCHANGED <<scheduled, inflight, lost, outcomes, started>>
        /\ settled' = IF c \in scheduled \/ settled[c] # "pending" THEN settled
                       ELSE [settled EXCEPT ![c] = "CANCELLED"]
    BY <1>5 DEF CancelPromise, vars, stub
  <2> QED
    BY <1>0, <2>1 DEF Promises, NotScheduledAfter, ThrownAreLost, Followed
<1>6. ASSUME NEW c \in Calls, Settle(c) PROVE Promises'
  <2>1. /\ UNCHANGED <<scheduled, inflight, lost, outcomes, started, completed, cancelled>>
        /\ settled' = [settled EXCEPT ![c] = outcomes[c][1]]
        /\ outcomes[c] # <<>> /\ settled[c] = "pending"
    BY <1>6 DEF Settle, vars, stub
  <2>2. PICK err \in Answers : outcomes[c] = <<err>>
    BY <1>0, <2>1 DEF AnswersOnce
  <2>3. outcomes[c][1] = err /\ err \notin {"pending", "CANCELLED", "STUB_FAILED", "THROWN"}
    BY <2>2 DEF Answers
  <2>4. settled' = [settled EXCEPT ![c] = err]
    BY <2>1, <2>3
  <2> QED
    BY <1>0, <2>1, <2>2, <2>3, <2>4 DEF Promises, NotScheduledAfter, ThrownAreLost, Followed
<1>7. CASE BundleProgress
  <2>1. scheduled' = scheduled /\ UNCHANGED <<started, cancelled, settled, lost>>
    BY <1>7 DEF BundleProgress, Timeout, RunNow, ApiResponds, ApiFails, answers, stub
  <2>2. inflight \ inflight' \subseteq inflight \ lost
    BY <1>7 DEF BundleProgress, Timeout, RunNow, Run, ApiResponds, ApiFails
  <2>3. lost' \subseteq inflight'
    BY <1>0, <2>1, <2>2 DEF ThrownAreLost
  <2>4. completed \subseteq completed'
    BY <1>7 DEF BundleProgress, CompleteAnswered
  <2> QED
    BY <1>1, <2>1, <2>3, <2>4
<1>8. CASE UNCHANGED allVars
  BY <1>0, <1>1, <1>8 DEF allVars, vars, promises, stub, ThrownAreLost
<1>9. ASSUME NEW c \in Calls, StartThrows(c) PROVE Promises'
  <2>1. /\ c \notin started /\ c \notin completed /\ started' = started \cup {c}
        /\ lost' = lost \cup Thrown /\ Thrown \subseteq inflight'
        /\ settled' = [settled EXCEPT ![c] = "THROWN"]
        /\ UNCHANGED <<completed, cancelled>>
    BY <1>9 DEF StartThrows, Thrown
  <2>2. \/ scheduled' = scheduled
        \/ scheduled' = scheduled \cup {c} /\ \E task \in Thrown : c \in ToSet(task.data)
    BY <1>9, FlushRuns, ScheduledBySchedule DEF StartThrows, RunNow
  <2>3. inflight \subseteq inflight'
    BY <1>9, FlushRuns, ScheduledBySchedule DEF StartThrows, RunNow, Run
  <2>4. c \notin scheduled /\ c \notin cancelled
    BY <1>0, <2>1 DEF NotScheduledAfter
  <2>5. NotScheduledAfter'
    BY <1>0, <2>1, <2>2 DEF NotScheduledAfter
  <2>6. ThrownAreLost'
    <3>1. lost' \subseteq inflight' /\ lost \subseteq lost' /\ Thrown \subseteq lost'
      BY <1>0, <2>1, <2>3 DEF ThrownAreLost
    <3>2. ASSUME NEW d \in Calls, settled'[d] = "THROWN"
          PROVE  d \notin scheduled' \/ \E task \in lost' : d \in ToSet(task.data)
      <4>1. CASE d = c
        BY <2>2, <2>4, <3>1, <4>1
      <4>2. CASE d # c
        <5>1. settled[d] = "THROWN" /\ (d \in scheduled' => d \in scheduled)
          BY <1>0, <2>1, <2>2, <3>2, <4>2
        <5> QED
          BY <1>0, <3>1, <5>1 DEF ThrownAreLost
      <4> QED
        BY <4>1, <4>2
    <3> QED
      BY <3>1, <3>2 DEF ThrownAreLost
  <2>7. Followed'
    <3>1. ASSUME NEW d \in Calls, d # c
          PROVE  settled'[d] = settled[d] /\ (d \in scheduled' <=> d \in scheduled)
      BY <1>0, <2>1, <2>2, <3>1
    <3>2. settled'[c] = "THROWN"
      BY <1>0, <2>1
    <3> QED
      BY <1>0, <2>1, <2>4, <3>1, <3>2 DEF Followed
  <2> QED
    BY <1>0, <2>1, <2>5, <2>6, <2>7 DEF Promises
<1>10. CASE TimeoutThrows
  BY <1>0, <1>1, <1>10 DEF TimeoutThrows, vars, promises, ThrownAreLost
<1>11. CASE BundleLost
  BY <1>0, <1>1, <1>11 DEF BundleLost, vars, promises, ThrownAreLost
<1> QED
  BY <1>2, <1>3, <1>4, <1>5, <1>6, <1>7, <1>8, <1>9, <1>10, <1>11 DEF PNext

LEMMA SystemInvariant == PSpec => []System
<1>1. System /\ [PNext]_allVars => System'
  BY ExecutorKeepsOwnership, PromisesStep, StepsOfExecutor DEF System
<1> QED
  BY <1>1, SystemInit, PTL DEF PSpec

LEMMA SystemFollows == System => PromisesFollowBundle
<1> SUFFICES ASSUME System, NEW c \in Calls, settled[c] = "THROWN"
             PROVE  outcomes[c] = <<>> /\ ~Pending(c)
  BY DEF System, Promises, Followed, PromisesFollowBundle
<1>1. OnePlace /\ outcomes[c] \in Seq(Errors \cup {"none"})
  BY OwnershipImpliesOnePlace DEF System, Ownership, TypeOK
<1>2. CASE c \notin scheduled
  <2>1. Len(outcomes[c]) = 0 /\ ~Pending(c)
    BY <1>1, <1>2 DEF OnePlace
  <2> QED
    BY <1>1, <2>1
<1>3. CASE \E task \in lost : c \in ToSet(task.data)
  <2>1. Sent(c)
    BY <1>3 DEF System, Promises, ThrownAreLost, Sent
  <2>2. Len(outcomes[c]) = 0 /\ ~Pending(c)
    BY <1>1, <2>1 DEF OnePlace
  <2> QED
    BY <1>1, <2>2
<1> QED
  BY <1>2, <1>3 DEF System, Promises, ThrownAreLost

(* A call that is cancelled before its stub is ready never enters a bundle, *)
(* and every other promise has the outcome the executor answered, or was    *)
(* rejected with what its stub threw and hears no other, for any calls,     *)
(* sizes and options.                                                       *)
THEOREM PromisesAreTrue == PSpec => []PromisesFollowBundle
  BY SystemInvariant, SystemFollows, PTL

(* Users and stubs cannot break the executor: with promises, failing,       *)
(* throwing and silent stubs and cancels on top of it, each call still has  *)
(* one place.                                                               *)
THEOREM PromisesKeepOnePlace == PSpec => []OnePlace
<1>1. System => OnePlace
  BY OwnershipImpliesOnePlace DEF System
<1> QED
  BY <1>1, SystemInvariant, PTL

-----------------------------------------------------------------------------
(* A flush that throws is what the timer of the bundle would have done, if  *)
(* there is one.                                                            *)
FlushesAreTimed == DelayThreshold > 0 \/ Unencodable = {}

LEMMA FlushIsTimeout ==
    ASSUME FlushesAreTimed, TypeOK, TimerWhileWaiting, NEW c \in Calls, FlushThrows(c)
    PROVE  Timeout(BundleOf[c])
<1> DEFINE b == BundleOf[c]
<1>1. b \in BundleIds /\ RunNow(b) /\ tasks[b] # NoTask
  BY FlushRuns DEF RunNow
<1>2. ToSet(tasks[b].data) \cap Unencodable # {}
  BY DEF FlushThrows, Encodes
<1>3. DelayThreshold > 0 /\ tasks[b].data # <<>>
  BY <1>2 DEF FlushesAreTimed, ToSet
<1>4. b \in timers
  BY <1>1, <1>3 DEF TimerWhileWaiting
<1> QED
  BY <1>1, <1>4 DEF Timeout

LEMMA StepsAreSteps ==
    ASSUME FlushesAreTimed, TypeOK, TimerWhileWaiting, [PNext]_allVars PROVE [Next]_vars
<1>1. ASSUME NEW c \in Calls, StartCall(c) PROVE [Next]_vars
  BY <1>1 DEF StartCall, Next
<1>2. ASSUME NEW c \in Calls, Make(c) \/ StubFails(c) \/ CancelPromise(c) \/ Settle(c)
      PROVE  UNCHANGED vars
  BY <1>2 DEF Make, StubFails, CancelPromise, Settle
<1>3. CASE BundleProgress
  BY <1>3 DEF BundleProgress, Next
<1>4. ASSUME NEW c \in Calls, StartThrows(c) PROVE [Next]_vars
  <2>1. CASE FlushThrows(c)
    <3>1. BundleOf[c] \in BundleIds /\ Timeout(BundleOf[c])
      BY <2>1, FlushRuns, FlushIsTimeout
    <3> QED
      BY <3>1 DEF Next
  <2>2. CASE Schedule(c)
    BY <2>2 DEF Next
  <2> QED
    BY <1>4, <2>1, <2>2 DEF StartThrows
<1>5. TimeoutThrows \/ BundleLost \/ UNCHANGED allVars => UNCHANGED vars
  BY DEF TimeoutThrows, BundleLost, allVars
<1> QED
  BY <1>1, <1>2, <1>3, <1>4, <1>5 DEF PNext

(* Promises and stubs that throw add nothing to what the executor does      *)
(* below them: with a delay, or requests that can be encoded, it only takes *)
(* steps of its own, so that every safety property of the executor holds of *)
(* it there as well.                                                        *)
THEOREM PromisesRunTheExecutor == ASSUME FlushesAreTimed PROVE PSpec => Spec
<1>1. PInit => Init /\ TypeOK /\ TimerWhileWaiting
  BY TypeInit DEF PInit, Init, TimerWhileWaiting
<1>2. TypeOK /\ TimerWhileWaiting /\ [PNext]_allVars
          => [Next]_vars /\ TypeOK' /\ TimerWhileWaiting'
  BY StepsAreSteps, TypeStep, TimerStep
<1> QED
  BY <1>1, <1>2, PTL DEF PSpec, Spec

(* With promises, failing, throwing and silent stubs and cancels on top of  *)
(* it, the executor still does what bundling promises, and nobody is        *)
(* overtaken.                                                               *)
THEOREM PromisesImplementBundledCalls ==
    ASSUME FlushesAreTimed PROVE PSpec => ImplementsBundledCalls /\ NoOvertaking
  BY PromisesRunTheExecutor, ExecutorImplementsBundledCalls, CallsLeaveInOrder, PTL

(* Every promise that is resolved has its own slice of an answer to a       *)
(* request within the limits.                                               *)
THEOREM PromisesGetTheirOwn ==
    ASSUME FlushesAreTimed PROVE PSpec => [](OwnResponse /\ WithinLimits)
  BY PromisesRunTheExecutor, CallersGetTheirOwn, BundlesFitLimits, PTL

=============================================================================
