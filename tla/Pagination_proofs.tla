------------------------- MODULE Pagination_proofs -------------------------
(***************************************************************************)
(* What is proved of Pagination: its types, that the user gets a prefix of *)
(* the list whatever happens, and that no page is asked for out of turn.   *)
(***************************************************************************)
EXTENDS Pagination, SequenceLemmas

-----------------------------------------------------------------------------
(* The list, page by page.                                                  *)
List == Seen(Len(Pages))

LEMMA PagesType ==
    /\ Len(Pages) \in Nat /\ Len(Pages) >= 1
    /\ \A p \in 1 .. Len(Pages) : Pages[p] \in Seq(Resources)
<1>1. Pages \in Seq(Seq(Nat \cup {Null})) /\ Pages # <<>>
  BY ListAssumption
<1>2. Len(Pages) \in Nat /\ Len(Pages) >= 1 /\ DOMAIN Pages = 1 .. Len(Pages)
  BY <1>1
<1>3. ASSUME NEW p \in 1 .. Len(Pages) PROVE Pages[p] \in Seq(Resources)
  <2>1. Pages[p] \in Seq(Nat \cup {Null})
    BY <1>1, <1>2
  <2>2. \A k \in 1 .. Len(Pages[p]) : Pages[p][k] \in Resources
    BY <1>2, <2>1 DEF Resources, ToSet
  <2> DEFINE s == Pages[p]
  <2>3. s \in Seq(Nat \cup {Null}) /\ \A k \in 1 .. Len(s) : s[k] \in Resources
    BY <2>1, <2>2
  <2> HIDE DEF s
  <2>4. s \in Seq(Resources)
    BY <2>3
  <2> QED
    BY <2>4 DEF s
<1> QED
  BY <1>2, <1>3

LEMMA NonNullType ==
    ASSUME NEW X, NEW s \in Seq(X)
    PROVE  NonNull(s) \in Seq(X)
<1> DEFINE each == [k \in DOMAIN s |-> IF s[k] = Null THEN <<>> ELSE <<s[k]>>]
<1>1. DOMAIN s = 1 .. Len(s) /\ Len(s) \in Nat /\ \A k \in DOMAIN s : s[k] \in X
  OBVIOUS
<1>2. \A k \in DOMAIN s : each[k] \in Seq(X)
  BY <1>1
<1>3. each \in [1 .. Len(s) -> Seq(X)]
  BY <1>1, <1>2
<1> HIDE DEF each
<1>4. each \in Seq(Seq(X))
  BY <1>1, <1>3
<1> QED
  BY <1>4, FlattenType DEF NonNull, each

(* A reader sees no page before the first, page n after page n - 1, and     *)
(* always a prefix of the list.                                             *)
LEMMA SeenByPage ==
    /\ \A p \in 1 .. Len(Pages) : PageSeen(p) \in Seq(Resources)
    /\ \A n \in 0 .. Len(Pages) : Seen(n) \in Seq(Resources)
    /\ Seen(0) = <<>>
    /\ \A n \in 1 .. Len(Pages) : Seen(n) = Seen(n - 1) \o PageSeen(n)
    /\ \A n \in 0 .. Len(Pages) : IsPrefix(Seen(n), List)
<1>1. \A p \in 1 .. Len(Pages) : PageSeen(p) \in Seq(Resources)
  BY PagesType, NonNullType DEF PageSeen
<1> DEFINE all == [p \in 1 .. Len(Pages) |-> PageSeen(p)]
<1>2. all \in Seq(Seq(Resources)) /\ Len(all) = Len(Pages)
  BY <1>1, PagesType
<1>3. ASSUME NEW n \in 0 .. Len(Pages) PROVE Seen(n) = Upto(all, n)
  <2>1. [p \in 1 .. n |-> PageSeen(p)] = SubSeq(all, 1, n)
    BY <1>2, PagesType
  <2> QED
    BY <2>1 DEF Seen, Upto
<1>4. \A n \in 1 .. Len(Pages) : n - 1 \in 0 .. Len(Pages) /\ n \in 0 .. Len(Pages) /\ all[n] = PageSeen(n)
  BY PagesType
<1>5. 0 \in 0 .. Len(Pages) /\ Len(Pages) \in 0 .. Len(Pages)
  BY PagesType
<1> HIDE DEF all
<1>6. \A n \in 0 .. Len(Pages) : IsPrefix(Seen(n), List)
  BY <1>2, <1>3, <1>5, UptoPrefix DEF List
<1>7. Accumulates(Resources, all)
  BY <1>2, FlattenUpto
<1>8. ASSUME NEW n \in 1 .. Len(Pages) PROVE Seen(n) = Seen(n - 1) \o PageSeen(n)
  <2>1. OneMore(all, n)
    BY <1>2, <1>7 DEF Accumulates
  <2> QED
    BY <1>3, <1>4, <2>1 DEF OneMore
<1>9. Seen(0) = <<>> /\ \A n \in 0 .. Len(Pages) : Seen(n) \in Seq(Resources)
  BY <1>2, <1>3, <1>5, <1>7 DEF Accumulates
<1> QED
  BY <1>1, <1>6, <1>8, <1>9

-----------------------------------------------------------------------------
(* What is wanted of the list.                                              *)
LEMMA ListType == List \in Seq(Resources) /\ Len(List) \in Nat
<1>1. Len(Pages) \in 0 .. Len(Pages)
  BY PagesType
<1> QED
  BY <1>1, SeenByPage DEF List

LEMMA WantedWhole ==
    ASSUME maxResults \in Nat, mode = "iterate" \/ maxResults = 0 \/ Len(List) =< maxResults
    PROVE  Wanted = List
<1>1. List \in Seq(Resources) /\ Len(List) \in Nat
  BY ListType
<1>2. SubSeq(List, 1, Len(List)) = List
  BY <1>1
<1>3. CASE mode = "iterate" \/ maxResults = 0
  BY <1>3 DEF Wanted, List
<1>4. CASE Len(List) =< maxResults
  <2>1. Min({maxResults, Len(List)}) = Len(List)
    BY <1>1, <1>4 DEF Min
  <2> QED
    BY <1>2, <2>1 DEF Wanted, List
<1> QED
  BY <1>3, <1>4

LEMMA WantedPart ==
    ASSUME maxResults \in Nat \ {0}, mode # "iterate", maxResults =< Len(List)
    PROVE  Wanted = SubSeq(List, 1, maxResults)
<1>1. List \in Seq(Resources) /\ Len(List) \in Nat
  BY ListType
<1>2. Min({maxResults, Len(List)}) = maxResults
  BY <1>1 DEF Min
<1> QED
  BY <1>2 DEF Wanted, List

LEMMA WantedType == ASSUME maxResults \in Nat PROVE Wanted \in Seq(Resources)
<1>1. List \in Seq(Resources) /\ Len(List) \in Nat
  BY ListType
<1>2. CASE mode = "iterate" \/ maxResults = 0 \/ Len(List) =< maxResults
  BY <1>1, <1>2, WantedWhole
<1>3. CASE mode # "iterate" /\ maxResults # 0 /\ ~(Len(List) =< maxResults)
  <2>1. Wanted = SubSeq(List, 1, maxResults)
    BY <1>1, <1>3, WantedPart
  <2>2. SubSeq(List, 1, maxResults) \in Seq(Resources)
    BY <1>1, <1>3
  <2> QED
    BY <2>1, <2>2
<1> QED
  BY <1>2, <1>3

LEMMA PartOfWanted ==
    ASSUME maxResults \in Nat, NEW s \in Seq(Resources), IsPrefix(s, List),
           mode = "iterate" \/ maxResults = 0 \/ Len(s) =< maxResults
    PROVE  IsPrefix(s, Wanted)
<1>1. List \in Seq(Resources) /\ Len(List) \in Nat /\ Len(s) \in Nat
  BY ListType
<1>2. CASE mode = "iterate" \/ maxResults = 0 \/ Len(List) =< maxResults
  BY <1>2, WantedWhole
<1>3. CASE mode # "iterate" /\ maxResults # 0 /\ ~(Len(List) =< maxResults)
  <2>1. Wanted = SubSeq(List, 1, maxResults)
    BY <1>1, <1>3, WantedPart
  <2> DEFINE w == SubSeq(List, 1, maxResults)
  <2>2. w \in Seq(Resources) /\ Len(w) = maxResults /\ \A i \in 1 .. maxResults : w[i] = List[i]
    BY <1>1, <1>3
  <2> HIDE DEF w
  <2>3. Len(s) =< maxResults /\ \A i \in 1 .. Len(s) : s[i] = List[i]
    BY <1>1, <1>3, PrefixByElement
  <2>4. \A i \in 1 .. Len(s) : i \in 1 .. maxResults
    BY <1>1, <2>3
  <2>5. IsPrefix(s, w)
    BY <2>2, <2>3, <2>4, PrefixByElement
  <2> QED
    BY <2>1, <2>5 DEF w
<1> QED
  BY <1>2, <1>3

(* A page that arrives when there is room.                                  *)
LEMMA PageRead ==
    ASSUME maxResults \in Nat, mode # "iterate", NEW p \in 1 .. Len(Pages)
    PROVE  /\ Capped(Seen(p)) \in Seq(Resources)
           /\ IsPrefix(Capped(Seen(p)), Wanted)
           /\ Full(Seen(p)) \/ NextPage(p) = 0 => Capped(Seen(p)) = Wanted
           /\ ~Full(Seen(p)) => /\ Capped(Seen(p)) = Seen(p)
                                /\ maxResults = 0 \/ Len(Seen(p)) < maxResults
           /\ \A n \in 0 .. Len(Capped(Seen(p))) :
                 /\ SubSeq(Seen(p), 1, n) \in Seq(Resources)
                 /\ IsPrefix(SubSeq(Seen(p), 1, n), Wanted)
<1> DEFINE all == Seen(p)
<1>1. /\ p \in Nat /\ p \in 0 .. Len(Pages) /\ Len(Pages) \in Nat
      /\ List \in Seq(Resources) /\ Len(List) \in Nat
  BY PagesType, ListType
<1>2. all \in Seq(Resources) /\ IsPrefix(all, List) /\ (p = Len(Pages) => all = List)
  BY <1>1, SeenByPage DEF List
<1> HIDE DEF all
<1>3. Len(all) \in Nat /\ Len(all) =< Len(List)
  BY <1>1, <1>2, PrefixByElement
<1>4. Full(all) <=> maxResults > 0 /\ Len(all) >= maxResults
  BY DEF Full
<1>5. Len(Capped(all)) \in 0 .. Len(all) /\ (maxResults = 0 \/ Len(Capped(all)) =< maxResults)
  <2>1. CASE Full(all)
    <3>1. Capped(all) = SubSeq(all, 1, maxResults)
      BY <2>1 DEF Capped
    <3>2. maxResults \in 0 .. Len(all)
      BY <1>3, <1>4, <2>1
    <3> QED
      BY <1>1, <1>2, <1>3, <3>1, <3>2, PrefixPart
  <2>2. CASE ~Full(all)
    BY <1>3, <1>4, <2>2 DEF Capped
  <2> QED
    BY <2>1, <2>2
<1>6. ASSUME NEW n \in 0 .. Len(Capped(all))
      PROVE  SubSeq(all, 1, n) \in Seq(Resources) /\ IsPrefix(SubSeq(all, 1, n), Wanted)
  <2>1. n \in 0 .. Len(all) /\ n \in Nat /\ (maxResults = 0 \/ n =< maxResults)
    BY <1>3, <1>5
  <2>2. /\ SubSeq(all, 1, n) \in Seq(Resources) /\ Len(SubSeq(all, 1, n)) = n
        /\ IsPrefix(SubSeq(all, 1, n), List)
    BY <1>1, <1>2, <2>1, PrefixPart
  <2> QED
    BY <2>1, <2>2, PartOfWanted
<1>7. CASE Full(all)
  <2>1. Capped(all) = SubSeq(all, 1, maxResults) /\ maxResults \in 0 .. Len(all)
    BY <1>3, <1>4, <1>7 DEF Capped
  <2>2. /\ SubSeq(all, 1, maxResults) = SubSeq(List, 1, maxResults)
        /\ Capped(all) \in Seq(Resources) /\ IsPrefix(Capped(all), List)
        /\ Len(Capped(all)) = maxResults
    BY <1>1, <1>2, <2>1, PrefixPart
  <2>3. Wanted = SubSeq(List, 1, maxResults)
    BY <1>1, <1>3, <1>4, <1>7, WantedPart
  <2> QED
    BY <1>2, <1>6, <1>7, <2>1, <2>2, <2>3, PartOfWanted DEF all
<1>8. CASE ~Full(all)
  <2>1. Capped(all) = all /\ (maxResults = 0 \/ Len(all) < maxResults)
    BY <1>3, <1>4, <1>8 DEF Capped
  <2>2. IsPrefix(all, Wanted)
    BY <1>2, <1>3, <2>1, PartOfWanted
  <2>3. NextPage(p) = 0 => all = Wanted
    <3>1. NextPage(p) = 0 => p = Len(Pages)
      BY <1>1 DEF NextPage
    <3> QED
      BY <1>2, <1>3, <2>1, <3>1, WantedWhole
  <2> QED
    BY <1>2, <1>6, <1>8, <2>1, <2>2, <2>3 DEF all
<1> QED
  BY <1>7, <1>8 DEF all

-----------------------------------------------------------------------------
(* Types.                                                                   *)
LEMMA PageNumbersType == \A p \in PageNumbers : p # 0 => p \in 1 .. Len(Pages)
<1>1. Len(Pages) \in Nat
  BY PagesType
<1> QED
  BY <1>1 DEF PageNumbers

LEMMA NextPageType ==
    ASSUME NEW p \in 1 .. Len(Pages)
    PROVE  /\ NextPage(p) \in PageNumbers
           /\ NextPage(p) # 0 => NextPage(p) = p + 1
           /\ NextPage(p) = 0 <=> p = Len(Pages)
  BY PagesType DEF NextPage, PageNumbers

LEMMA CappedType ==
    ASSUME maxResults \in Nat, NEW s \in Seq(Resources)
    PROVE  /\ Capped(s) \in Seq(Resources)
           /\ \A n \in 0 .. Len(Capped(s)) : SubSeq(s, 1, n) \in Seq(Resources)
<1>1. Len(s) \in Nat
  OBVIOUS
<1>2. \A n \in 0 .. Len(s) : SubSeq(s, 1, n) \in Seq(Resources) /\ Len(SubSeq(s, 1, n)) = n
  BY <1>1
<1>3. CASE Full(s)
  <2>1. maxResults \in 0 .. Len(s) /\ Capped(s) = SubSeq(s, 1, maxResults)
    BY <1>1, <1>3 DEF Full, Capped
  <2>2. \A n \in 0 .. maxResults : n \in 0 .. Len(s)
    BY <1>1, <2>1
  <2> QED
    BY <1>2, <2>1, <2>2
<1>4. CASE ~Full(s)
  BY <1>2, <1>4 DEF Capped
<1> QED
  BY <1>3, <1>4

LEMMA ConcatType ==
    ASSUME NEW X, NEW s \in Seq(X), NEW t \in Seq(X)
    PROVE  s \o t \in Seq(X)
  OBVIOUS

LEMMA Types ==
    ASSUME TypeOK
    PROVE  /\ mode \in {"collect", "stream", "iterate"}
           /\ maxResults \in Nat /\ MaxAttemptsEmptyResponse \in Nat
           /\ calls \in [Callers -> PageNumbers] /\ next \in PageNumbers
           /\ got \in Seq(Resources) /\ cache \in Seq(Resources)
           /\ attempts \in [Consumers -> 0 .. MaxAttemptsEmptyResponse + 1]
           /\ started \in BOOLEAN /\ overlapped \in BOOLEAN
<1>1. mode \in {"collect", "stream", "iterate"}
  BY ModesAssumption DEF TypeOK
<1>2. maxResults \in Nat /\ MaxAttemptsEmptyResponse \in Nat
  BY ListAssumption DEF TypeOK
<1>3. calls \in [Callers -> PageNumbers] /\ next \in PageNumbers
  BY DEF TypeOK
<1>4. got \in Seq(Resources) /\ cache \in Seq(Resources)
  BY DEF TypeOK
<1>5. attempts \in [Consumers -> 0 .. MaxAttemptsEmptyResponse + 1]
  BY DEF TypeOK
<1>6. started \in BOOLEAN /\ overlapped \in BOOLEAN
  BY DEF TypeOK
<1> QED
  BY <1>1, <1>2, <1>3, <1>4, <1>5, <1>6

LEMMA ReturnType ==
    ASSUME TypeOK, NEW resources \in Seq(Resources), Return(resources)
    PROVE  /\ got' \in Seq(Resources) /\ cache' \in Seq(Resources)
           /\ outcome' \in {outcome, "ended"}
<1>1. CASE resources = <<>>
  <2>1. outcome' = "ended" /\ cache' = <<>> /\ got' = got
    BY <1>1 DEF Return
  <2> QED
    BY <2>1, Types
<1>2. CASE resources # <<>>
  <2>1. got' = Append(got, Head(resources)) /\ cache' = Tail(resources) /\ outcome' = outcome
    BY <1>2 DEF Return
  <2>2. /\ Head(resources) \in Resources /\ Tail(resources) \in Seq(Resources)
        /\ got \in Seq(Resources)
    BY <1>2, Types
  <2> QED
    BY <2>1, <2>2
<1> QED
  BY <1>1, <1>2

LEMMA TypeInit == Init => TypeOK
<1> SUFFICES ASSUME Init PROVE TypeOK
  OBVIOUS
<1>1. 0 \in PageNumbers /\ 1 \in PageNumbers
  BY PagesType DEF PageNumbers
<1>2. calls \in [Callers -> PageNumbers]
  BY <1>1 DEF Init
<1>3. attempts \in [Consumers -> 0 .. MaxAttemptsEmptyResponse + 1]
  BY ListAssumption DEF Init
<1>4. <<>> \in Seq(Resources)
  OBVIOUS
<1> QED
  BY <1>1, <1>2, <1>3, <1>4 DEF Init, TypeOK

LEMMA TypeStep == TypeOK /\ [Next]_vars => TypeOK'
<1> SUFFICES ASSUME TypeOK, [Next]_vars PROVE TypeOK'
  OBVIOUS
<1>0. /\ maxResults \in Nat /\ MaxAttemptsEmptyResponse \in Nat /\ Len(Pages) \in Nat
      /\ 0 \in PageNumbers /\ got \in Seq(Resources) /\ cache \in Seq(Resources)
      /\ \A p \in PageNumbers : p # 0 => p \in 1 .. Len(Pages)
      /\ Loop \in Callers /\ \A c \in Consumers : c \in Callers
      /\ calls \in [Callers -> PageNumbers] /\ next \in PageNumbers
  BY Types, PagesType DEF PageNumbers, Callers
<1>1. ASSUME NEW o \in {"open", "ended", "error", "cancelled", "ended by user"}, Settle(o)
      PROVE  outcome' \in {"open", "ended", "error", "cancelled", "ended by user"}
  BY <1>1 DEF Settle, TypeOK
<1>2. CASE CollectPage
  <2> DEFINE p == calls[Loop]
             all == got \o Pages[p]
             more == IF Full(all) THEN 0 ELSE NextPage(p)
  <2>1. /\ p # 0 /\ got' = Capped(all) /\ calls' = [calls EXCEPT ![Loop] = more]
        /\ IF more = 0 THEN Settle("ended") ELSE UNCHANGED outcome
        /\ UNCHANGED <<mode, maxResults, lost, next, stream, iterator>>
    BY <1>2 DEF Waits, CollectPage
  <2>2. p \in 1 .. Len(Pages)
    BY <1>0, <2>1
  <2>3. all \in Seq(Resources)
    BY <1>0, <2>2, PagesType, ConcatType
  <2>4. more \in PageNumbers
    BY <1>0, <2>2, NextPageType
  <2> HIDE DEF p, all, more
  <2>5. got' \in Seq(Resources) /\ calls' \in [Callers -> PageNumbers]
    BY <1>0, <2>1, <2>3, <2>4, CappedType
  <2>6. outcome' \in {"open", "ended", "error", "cancelled", "ended by user"}
    BY <1>1, <2>1 DEF TypeOK
  <2> QED
    BY <2>1, <2>5, <2>6 DEF TypeOK, stream, iterator
<1>3. CASE CollectError \/ StreamError
  <2>1. /\ calls' = [calls EXCEPT ![Loop] = 0] /\ Settle("error")
        /\ UNCHANGED <<mode, maxResults, lost, next, got, stream, iterator>>
    BY <1>3 DEF Waits, CollectError, StreamError
  <2>2. calls' \in [Callers -> PageNumbers]
    BY <1>0, <2>1
  <2> QED
    BY <1>1, <2>1, <2>2 DEF TypeOK, stream, iterator
<1>4. CASE CollectCancel
  BY <1>4 DEF CollectCancel, TypeOK, stream, iterator
<1>5. CASE Pause
  BY <1>5 DEF Pause, TypeOK, iterator
<1>6. CASE Resume
  BY <1>6 DEF Resume, TypeOK, iterator
<1>7. CASE UserEnds
  BY <1>7 DEF UserEnds, TypeOK, stream, iterator
<1>8. CASE ResumeEvent
  <2>1. calls' \in [Callers -> PageNumbers]
    BY <1>0, <1>8 DEF ResumeEvent
  <2> QED
    BY <1>8, <2>1 DEF ResumeEvent, TypeOK, iterator
<1>9. CASE StreamPage
  <2> DEFINE p == calls[Loop]
             all == got \o NonNull(Pages[p])
  <2>1. p # 0 /\ UNCHANGED <<mode, maxResults, lost, paused, resuming, iterator>>
    BY <1>9 DEF Waits, StreamPage
  <2>2. p \in 1 .. Len(Pages)
    BY <1>0, <2>1
  <2>3. all \in Seq(Resources)
    BY <1>0, <2>2, PagesType, NonNullType, ConcatType
  <2>4. NextPage(p) \in PageNumbers
    BY <2>2, NextPageType
  <2>5. calls' \in [Callers -> PageNumbers]
    BY <1>0, <1>9, <2>4 DEF Waits, StreamPage
  <2>6. /\ next' \in PageNumbers /\ started' \in BOOLEAN
        /\ outcome' \in {"open", "ended", "error", "cancelled", "ended by user"}
    BY <1>0, <1>9, <2>4 DEF StreamPage, KeptRequest, StillStarted, TypeOK
  <2>7. \/ got' = got
        \/ \E n \in Len(got) + 1 .. Len(Capped(all)) : got' = SubSeq(all, 1, n)
        \/ got' = Capped(all)
    BY <1>9 DEF Waits, StreamPage
  <2> HIDE DEF p, all
  <2>8. got' \in Seq(Resources)
    <3>1. Len(got) \in Nat
      BY <1>0
    <3>2. \A n \in Len(got) + 1 .. Len(Capped(all)) : n \in 0 .. Len(Capped(all))
      BY <3>1
    <3> QED
      BY <1>0, <2>3, <2>7, <3>2, CappedType
  <2> QED
    BY <2>1, <2>5, <2>6, <2>8 DEF TypeOK, iterator
<1>10. ASSUME NEW c \in Consumers, Ask(c) PROVE TypeOK'
  <2>1. /\ attempts' = [attempts EXCEPT ![c] = 0]
        /\ UNCHANGED <<mode, maxResults, lost, next, stream>>
    BY <1>10 DEF Ask
  <2>2. attempts' \in [Consumers -> 0 .. MaxAttemptsEmptyResponse + 1]
    BY <1>0, <2>1, Types
  <2>3. CASE Return(cache) /\ UNCHANGED <<calls, overlapped>>
    <3>1. /\ got' \in Seq(Resources) /\ cache' \in Seq(Resources)
          /\ outcome' \in {outcome, "ended"}
      BY <1>0, <2>3, ReturnType
    <3> QED
      BY <2>1, <2>2, <2>3, <3>1 DEF TypeOK, stream
  <2>4. CASE /\ calls' = [calls EXCEPT ![c] = next]
             /\ overlapped' = (overlapped \/ \E d \in Consumers : calls[d] # 0)
             /\ UNCHANGED <<got, outcome, cache>>
    <3>1. calls' \in [Callers -> PageNumbers]
      BY <1>0, <2>4
    <3>2. overlapped' \in BOOLEAN
      BY <2>4 DEF TypeOK
    <3> QED
      BY <2>1, <2>2, <2>4, <3>1, <3>2 DEF TypeOK, stream
  <2> QED
    BY <1>10, <2>3, <2>4 DEF Ask
<1>11. ASSUME NEW c \in Consumers, IteratePage(c) PROVE TypeOK'
  <2> DEFINE p == calls[c]
             cached == cache \o Pages[p]
             tries == attempts[c] + 1
  <2>1. /\ p # 0 /\ next' = NextPage(p)
        /\ UNCHANGED <<mode, maxResults, lost, stream, overlapped>>
    BY <1>11 DEF Waits, IteratePage
  <2>2. p \in 1 .. Len(Pages)
    BY <1>0, <2>1
  <2>3. cached \in Seq(Resources) /\ next' \in PageNumbers
    BY <1>0, <2>1, <2>2, PagesType, NextPageType, ConcatType
  <2>4. tries \in Nat
    BY <1>0, Types
  <2>5. CASE /\ tries =< MaxAttemptsEmptyResponse
             /\ attempts' = [attempts EXCEPT ![c] = tries]
             /\ calls' = [calls EXCEPT ![c] = next']
             /\ UNCHANGED <<got, outcome, cache>>
    <3>1. tries \in 0 .. MaxAttemptsEmptyResponse + 1
      BY <1>0, <2>4, <2>5
    <3> HIDE DEF tries, cached, p
    <3>2. /\ calls' \in [Callers -> PageNumbers]
          /\ attempts' \in [Consumers -> 0 .. MaxAttemptsEmptyResponse + 1]
      BY <1>0, <2>3, <2>5, <3>1 DEF TypeOK
    <3> QED
      BY <2>1, <2>3, <2>5, <3>2 DEF TypeOK, stream
  <2>6. CASE /\ Return(cached)
             /\ calls' = [calls EXCEPT ![c] = 0]
             /\ UNCHANGED attempts
    <3> HIDE DEF tries, cached, p
    <3>1. /\ got' \in Seq(Resources) /\ cache' \in Seq(Resources)
          /\ outcome' \in {outcome, "ended"}
      BY <2>3, <2>6, ReturnType
    <3>2. calls' \in [Callers -> PageNumbers]
      BY <1>0, <2>6
    <3> QED
      BY <2>1, <2>3, <2>6, <3>1, <3>2 DEF TypeOK, stream
  <2> QED
    BY <1>11, <2>5, <2>6 DEF Waits, IteratePage
<1>12. ASSUME NEW c \in Consumers, IterateError(c) PROVE TypeOK'
  <2>1. calls' \in [Callers -> PageNumbers]
    BY <1>0, <1>12 DEF Waits, IterateError
  <2> QED
    BY <1>12, <2>1 DEF IterateError, TypeOK, stream, iterator
<1>13. CASE UNCHANGED vars
  BY <1>13 DEF vars, TypeOK, stream, iterator
<1>14. CASE CallIsLost
  BY <1>14 DEF CallIsLost, CallLost, TypeOK, stream, iterator
<1> QED
  BY <1>2, <1>3, <1>4, <1>5, <1>6, <1>7, <1>8, <1>9, <1>10, <1>11, <1>12, <1>13, <1>14
     DEF Next, PageArrives, CallFails, CallIsLost

(* Every variable keeps its type.                                           *)
THEOREM TypeCorrect == Spec => []TypeOK
  BY TypeInit, TypeStep, PTL DEF Spec

-----------------------------------------------------------------------------
(* The inductive invariant, by mode.  A reader that is not read keeps still. *)
Parts == [n \in 0 .. Len(Pages) |-> Seen(n)]

Room == maxResults = 0 \/ Len(got) < maxResults

OneReader ==
    /\ mode # "stream" => ~resuming
    /\ mode = "iterate" => calls[Loop] = 0
    /\ mode # "iterate" => cache = <<>> /\ ~overlapped /\ \A c \in Consumers : calls[c] = 0

(* The user has what comes before page p, and may have more.                *)
HasBefore(p) == p # 0 /\ got = Parts[p - 1] /\ Room

(* A collected list stays as it is until its next page arrives, cancelled   *)
(* or not.                                                                  *)
Collecting ==
    mode = "collect" =>
        /\ calls[Loop] # 0 => outcome \in {"open", "cancelled"} /\ HasBefore(calls[Loop])
        /\ outcome = "ended" => got = Wanted
        /\ IsPrefix(got, Wanted)

(* A stream that has not `started` has no call under way, and its `request` *)
(* is the next page's.                                                      *)
Streaming ==
    mode = "stream" =>
        /\ calls[Loop] # 0 => /\ started
                              /\ outcome \in {"open", "ended by user"}
                              /\ outcome = "open" => HasBefore(calls[Loop])
        /\ ~started => /\ next # 0
                       /\ outcome \in {"open", "ended by user"}
                       /\ outcome = "open" => HasBefore(next)
        /\ outcome = "ended" => got = Wanted
        /\ IsPrefix(got, Wanted)

(* The last n pages read were empty.                                        *)
EmptyBefore(p, n) == n < p /\ \A q \in p - n .. p - 1 : Pages[q] = <<>>

(* What next() has returned and the cache together are the pages read; the  *)
(* one call that waits found the cache empty.                               *)
Iterating ==
    mode = "iterate" /\ ~overlapped =>
        /\ outcome \in {"open", "ended"}
        /\ got \o cache = Parts[IF next = 0 THEN Len(Pages) ELSE next - 1]
        /\ \A c \in Consumers : calls[c] # 0 =>
              /\ calls[c] = next /\ cache = <<>> /\ outcome = "open"
              /\ attempts[c] =< MaxAttemptsEmptyResponse
              /\ EmptyBefore(next, attempts[c])
              /\ \A d \in Consumers : calls[d] # 0 => d = c
        /\ outcome = "ended" =>
              /\ cache = <<>>
              /\ next = 0 \/ EmptyBefore(next, MaxAttemptsEmptyResponse + 1)

Reading == OneReader /\ Collecting /\ Streaming /\ Iterating

LEMMA PartsType ==
    /\ \A n \in 0 .. Len(Pages) : Parts[n] = Seen(n) /\ Parts[n] \in Seq(Resources)
    /\ \A p \in 1 .. Len(Pages) : p - 1 \in 0 .. Len(Pages) /\ p \in 0 .. Len(Pages)
  BY PagesType, SeenByPage DEF Parts

LEMMA ListKept == UNCHANGED <<mode, maxResults>> => Parts' = Parts /\ Wanted' = Wanted
  BY DEF Parts, Wanted, Seen, PageSeen

LEMMA ReadingInit == Init => Reading
<1> SUFFICES ASSUME Init PROVE Reading
  OBVIOUS
<1>0. /\ maxResults \in Nat /\ Parts[0] = <<>> /\ Len(Pages) \in Nat /\ Len(Pages) >= 1
      /\ Loop \in Callers /\ \A c \in Consumers : c \in Callers /\ c # Loop
      /\ got = <<>> /\ next = 1 /\ outcome = "open" /\ cache = <<>> /\ ~started /\ ~resuming
      /\ ~overlapped /\ calls = [c \in Callers |-> IF mode = "collect" /\ c = Loop THEN 1 ELSE 0]
  BY ListAssumption, ConsumersAssumption, PagesType, SeenByPage DEF Init, Parts, Callers
<1>1. /\ calls[Loop] = (IF mode = "collect" THEN 1 ELSE 0)
      /\ \A c \in Consumers : calls[c] = 0
  BY <1>0
<1>2. HasBefore(1)
  <2>1. Len(got) = 0 /\ 1 - 1 = 0
    BY <1>0
  <2> QED
    BY <1>0, <2>1 DEF HasBefore, Room
<1>3. IsPrefix(got, Wanted)
  <2>1. <<>> \in Seq(Resources) /\ Wanted \in Seq(Resources) /\ Len(<<>>) = 0
        /\ Len(Wanted) >= 0 /\ \A i \in 1 .. 0 : FALSE
    BY <1>0, WantedType
  <2> QED
    BY <1>0, <2>1, PrefixByElement
<1>4. got \o cache = Parts[1 - 1]
  <2>1. <<>> \o <<>> = <<>> /\ 1 - 1 = 0
    OBVIOUS
  <2> QED
    BY <1>0, <2>1
<1>5. OneReader
  BY <1>0, <1>1 DEF OneReader
<1>6. Collecting
  BY <1>0, <1>1, <1>2, <1>3 DEF Collecting
<1>7. Streaming
  BY <1>0, <1>1, <1>2, <1>3 DEF Streaming
<1>8. Iterating
  BY <1>0, <1>1, <1>4 DEF Iterating
<1> QED
  BY <1>5, <1>6, <1>7, <1>8 DEF Reading

LEMMA CollectStep ==
    ASSUME TypeOK, Reading, mode = "collect", [Next]_vars
    PROVE  Reading'
<1>0. /\ maxResults \in Nat /\ calls \in [Callers -> PageNumbers]
      /\ Loop \in Callers /\ \A c \in Consumers : c \in Callers /\ c # Loop
      /\ Len(Pages) \in Nat /\ \A p \in PageNumbers : p # 0 => p \in 1 .. Len(Pages)
  BY Types, ConsumersAssumption, PagesType DEF Callers, PageNumbers
<1>1. /\ ~resuming /\ cache = <<>> /\ ~overlapped /\ \A c \in Consumers : calls[c] = 0
      /\ calls[Loop] # 0 => outcome \in {"open", "cancelled"} /\ HasBefore(calls[Loop])
      /\ outcome = "ended" => got = Wanted
      /\ IsPrefix(got, Wanted)
  BY DEF Reading, OneReader, Collecting
<1>2. ASSUME UNCHANGED <<mode, maxResults, resuming, cache, overlapped>>,
             \A c \in Consumers : calls'[c] = calls[c],
             calls'[Loop] # 0 => outcome' \in {"open", "cancelled"} /\ HasBefore(calls[Loop])',
             outcome' = "ended" => got' = Wanted,
             IsPrefix(got', Wanted)
      PROVE  Reading'
  BY <1>1, <1>2, ListKept DEF Reading, OneReader, Collecting, Streaming, Iterating
<1>3. CASE CollectPage
  <2> DEFINE p == calls[Loop]
             all == got \o Pages[p]
             more == IF Full(all) THEN 0 ELSE NextPage(p)
  <2>1. /\ p # 0 /\ got' = Capped(all) /\ calls' = [calls EXCEPT ![Loop] = more]
        /\ IF more = 0 THEN Settle("ended") ELSE UNCHANGED outcome
        /\ UNCHANGED <<mode, maxResults, next, stream, iterator>>
    BY <1>3 DEF Waits, CollectPage
  <2>2. p \in 1 .. Len(Pages) /\ got = Seen(p - 1) /\ outcome \in {"open", "cancelled"}
    BY <1>0, <1>1, <2>1, PartsType DEF HasBefore
  <2>3. all = Seen(p)
    BY <2>2, SeenByPage DEF PageSeen
  <2>4. calls'[Loop] = more /\ \A c \in Consumers : calls'[c] = calls[c]
    BY <1>0, <2>1
  <2>5. UNCHANGED <<mode, maxResults, resuming, cache, overlapped>>
    BY <2>1 DEF stream, iterator
  <2> HIDE DEF all, p
  <2>6. CASE more = 0
    <3>1. got' = Wanted /\ IsPrefix(got', Wanted)
      BY <1>0, <2>1, <2>2, <2>3, <2>6, PageRead
    <3> QED
      BY <1>2, <2>4, <2>5, <2>6, <3>1
  <2>7. CASE more # 0
    <3>1. ~Full(all) /\ more = NextPage(p)
      BY <2>7
    <3>2. /\ got' = Seen(p) /\ (maxResults = 0 \/ Len(got') < maxResults)
          /\ IsPrefix(got', Wanted)
      BY <1>0, <2>1, <2>2, <2>3, <3>1, PageRead
    <3>3. more = p + 1 /\ more - 1 = p /\ p \in 0 .. Len(Pages)
      BY <1>0, <2>2, <2>7, <3>1, NextPageType
    <3>4. Parts' = Parts /\ Parts[p] = Seen(p)
      BY <2>5, <3>3, ListKept, PartsType
    <3>5. calls'[Loop] # 0 /\ got' = Parts'[calls'[Loop] - 1] /\ Room'
      <4> HIDE DEF more
      <4> QED
        BY <2>4, <2>5, <2>7, <3>2, <3>3, <3>4 DEF Room
    <3>6. HasBefore(calls[Loop])'
      BY <3>5 DEF HasBefore
    <3>7. outcome' = outcome
      BY <2>1, <2>7
    <3> QED
      BY <1>2, <2>2, <2>4, <2>5, <3>2, <3>6, <3>7
  <2> QED
    BY <2>6, <2>7
<1>4. CASE CollectError
  <2>1. /\ calls' = [calls EXCEPT ![Loop] = 0] /\ Settle("error")
        /\ UNCHANGED <<mode, maxResults, next, got, stream, iterator>>
    BY <1>4 DEF CollectError
  <2>2. calls'[Loop] = 0 /\ \A c \in Consumers : calls'[c] = calls[c]
    BY <1>0, <2>1
  <2> QED
    BY <1>1, <1>2, <2>1, <2>2 DEF Settle, stream, iterator
<1>5. ASSUME UNCHANGED <<mode, maxResults, calls, got, stream, iterator>>,
             outcome' = outcome \/ (outcome = "open" /\ outcome' = "cancelled")
      PROVE  Reading'
  <2>1. Parts' = Parts
    BY <1>5, ListKept
  <2>2. calls[Loop] # 0 => HasBefore(calls[Loop])'
    BY <1>1, <1>5, <2>1 DEF HasBefore, Room
  <2> QED
    BY <1>1, <1>2, <1>5, <2>2 DEF stream, iterator
<1>6. CASE CollectCancel \/ CallIsLost \/ UNCHANGED vars
  BY <1>5, <1>6 DEF CollectCancel, CallIsLost, CallLost, vars
<1>7. ~StreamPage /\ ~StreamError /\ ~Pause /\ ~Resume /\ ~ResumeEvent /\ ~UserEnds
  BY <1>1 DEF Waits, StreamPage, StreamError, Pause, Resume, ResumeEvent, UserEnds
<1>8. \A c \in Consumers : ~Ask(c) /\ ~IteratePage(c) /\ ~IterateError(c)
  BY <1>1 DEF Waits, Ask, IteratePage, IterateError
<1> QED
  BY <1>3, <1>4, <1>6, <1>7, <1>8 DEF Next, PageArrives, CallFails, CallIsLost

LEMMA StreamStep ==
    ASSUME TypeOK, Reading, mode = "stream", [Next]_vars
    PROVE  Reading'
<1>0. /\ maxResults \in Nat /\ calls \in [Callers -> PageNumbers] /\ next \in PageNumbers
      /\ got \in Seq(Resources)
      /\ Loop \in Callers /\ \A c \in Consumers : c \in Callers /\ c # Loop
      /\ Len(Pages) \in Nat /\ \A p \in PageNumbers : p # 0 => p \in 1 .. Len(Pages)
  BY Types, ConsumersAssumption, PagesType DEF Callers, PageNumbers
<1>1. /\ cache = <<>> /\ ~overlapped /\ \A c \in Consumers : calls[c] = 0
      /\ calls[Loop] # 0 => /\ started
                            /\ outcome \in {"open", "ended by user"}
                            /\ outcome = "open" => HasBefore(calls[Loop])
      /\ ~started => /\ next # 0
                     /\ outcome \in {"open", "ended by user"}
                     /\ outcome = "open" => HasBefore(next)
      /\ outcome = "ended" => got = Wanted
      /\ IsPrefix(got, Wanted)
  BY DEF Reading, OneReader, Streaming
<1>2. ASSUME UNCHANGED <<mode, maxResults, cache, overlapped>>,
             \A c \in Consumers : calls'[c] = calls[c],
             calls'[Loop] # 0 => /\ started'
                                 /\ outcome' \in {"open", "ended by user"}
                                 /\ outcome' = "open" => HasBefore(calls[Loop])',
             ~started' => /\ next' # 0
                          /\ outcome' \in {"open", "ended by user"}
                          /\ outcome' = "open" => HasBefore(next)',
             outcome' = "ended" => got' = Wanted,
             IsPrefix(got', Wanted)
      PROVE  Reading'
  BY <1>1, <1>2, ListKept DEF Reading, OneReader, Collecting, Streaming, Iterating
<1>3. UNCHANGED <<mode, maxResults, got>> =>
          /\ HasBefore(calls[Loop]) /\ calls'[Loop] = calls[Loop] => HasBefore(calls[Loop])'
          /\ HasBefore(next) /\ next' = next => HasBefore(next)'
          /\ HasBefore(next) /\ calls'[Loop] = next => HasBefore(calls[Loop])'
  BY ListKept DEF HasBefore, Room
<1>4. ASSUME UNCHANGED <<mode, maxResults, next, got, started, iterator>>,
             calls'[Loop] \in {0, calls[Loop]}, \A c \in Consumers : calls'[c] = calls[c],
             \/ outcome' = outcome
             \/ outcome = "open" /\ outcome' = "ended by user"
             \/ calls[Loop] # 0 /\ calls'[Loop] = 0 /\ outcome' \in {outcome, "error"}
      PROVE  Reading'
  BY <1>1, <1>2, <1>3, <1>4 DEF iterator
<1>5. CASE StreamPage
  <2> DEFINE p == calls[Loop]
             all == got \o NonNull(Pages[p])
  <2>1. p # 0 /\ UNCHANGED <<mode, maxResults, paused, resuming, iterator>>
    BY <1>5 DEF Waits, StreamPage
  <2>2. p \in 1 .. Len(Pages) /\ started
    BY <1>0, <1>1, <2>1
  <2>3. UNCHANGED <<mode, maxResults, cache, overlapped>> /\ Parts' = Parts
    BY <2>1, ListKept DEF iterator
  <2>4. CASE /\ outcome # "open" /\ calls' = [calls EXCEPT ![Loop] = 0]
             /\ UNCHANGED <<got, outcome, next, started>>
    <3>1. calls'[Loop] = 0 /\ \A c \in Consumers : calls'[c] = calls[c]
      BY <1>0, <2>4
    <3> QED
      BY <1>4, <2>1, <2>4, <3>1
  <2>5. CASE outcome = "open"
    <3>1. all = Seen(p)
      <4>1. got = Seen(p - 1)
        BY <1>1, <2>1, <2>2, <2>5, PartsType DEF HasBefore
      <4> QED
        BY <2>2, <4>1, SeenByPage DEF PageSeen
    <3>2. CASE /\ \E n \in Len(got) + 1 .. Len(Capped(all)) : got' = SubSeq(all, 1, n)
               /\ outcome' = "ended by user"
               /\ calls' = [calls EXCEPT ![Loop] = 0]
               /\ UNCHANGED <<next, started>>
      <4>1. PICK n \in Len(got) + 1 .. Len(Capped(all)) : got' = SubSeq(all, 1, n)
        BY <3>2
      <4> HIDE DEF all, p
      <4>2. n \in 0 .. Len(Capped(all))
        <5>1. Len(got) \in Nat
          BY <1>0
        <5> QED
          BY <5>1
      <4>3. IsPrefix(got', Wanted)
        BY <1>0, <2>2, <3>1, <4>1, <4>2, PageRead
      <4>4. calls'[Loop] = 0 /\ \A c \in Consumers : calls'[c] = calls[c]
        BY <1>0, <3>2
      <4> QED
        BY <1>2, <2>2, <2>3, <3>2, <4>3, <4>4
    <3>3. CASE /\ got' = Capped(all) /\ outcome' = "ended"
               /\ Full(all) \/ NextPage(p) = 0
               /\ calls' = [calls EXCEPT ![Loop] = 0]
               /\ UNCHANGED <<next, started>>
      <4>1. calls'[Loop] = 0 /\ \A c \in Consumers : calls'[c] = calls[c]
        BY <1>0, <3>3
      <4> HIDE DEF all, p
      <4>2. got' = Wanted /\ IsPrefix(got', Wanted)
        BY <1>0, <2>2, <3>1, <3>3, PageRead
      <4> QED
        BY <1>2, <2>2, <2>3, <3>3, <4>1, <4>2
    <3>4. CASE /\ got' = Capped(all) /\ outcome' = outcome
               /\ ~Full(all) /\ NextPage(p) # 0
               /\ calls' = [calls EXCEPT ![Loop] = IF paused THEN 0 ELSE NextPage(p)]
               /\ next' = (IF paused THEN NextPage(p) ELSE next)
               /\ started' = ~paused
      <4>1. /\ calls'[Loop] = (IF paused THEN 0 ELSE NextPage(p))
            /\ \A c \in Consumers : calls'[c] = calls[c]
        BY <1>0, <3>4
      <4> HIDE DEF all, p
      <4>2. /\ got' = Seen(p) /\ (maxResults = 0 \/ Len(got') < maxResults)
            /\ IsPrefix(got', Wanted)
        BY <1>0, <2>2, <3>1, <3>4, PageRead
      <4>3. NextPage(p) = p + 1 /\ NextPage(p) - 1 = p /\ Parts[p] = Seen(p)
        BY <2>2, <3>4, NextPageType, PartsType
      <4>4. got' = Parts'[NextPage(p) - 1] /\ Room'
        BY <2>3, <4>2, <4>3 DEF Room
      <4>5. CASE paused
        <5>1. HasBefore(next)'
          BY <3>4, <4>4, <4>5 DEF HasBefore
        <5> QED
          BY <1>2, <2>3, <2>5, <3>4, <4>1, <4>2, <4>5, <5>1
      <4>6. CASE ~paused
        <5>1. HasBefore(calls[Loop])'
          BY <3>4, <4>1, <4>4, <4>6 DEF HasBefore
        <5> QED
          BY <1>2, <2>3, <2>5, <3>4, <4>1, <4>2, <4>6, <5>1
      <4> QED
        BY <4>5, <4>6
    <3> QED
      BY <1>5, <2>5, <3>2, <3>3, <3>4 DEF StreamPage, KeptRequest, StillStarted
  <2> QED
    BY <1>5, <2>4, <2>5 DEF Waits, StreamPage
<1>6. CASE StreamError
  <2>1. /\ calls[Loop] # 0 /\ calls' = [calls EXCEPT ![Loop] = 0] /\ Settle("error")
        /\ UNCHANGED <<mode, maxResults, next, got, stream, iterator>>
    BY <1>6 DEF Waits, StreamError
  <2>2. calls'[Loop] = 0 /\ \A c \in Consumers : calls'[c] = calls[c]
    BY <1>0, <2>1
  <2> QED
    BY <1>4, <2>1, <2>2 DEF Settle, stream
<1>7. CASE Pause \/ Resume
  BY <1>4, <1>7 DEF Pause, Resume
<1>8. CASE UserEnds
  BY <1>4, <1>8 DEF UserEnds, stream
<1>9. CASE ResumeEvent
  <2>1. /\ started' /\ UNCHANGED <<mode, maxResults, next, got, outcome, paused, iterator>>
        /\ \A c \in Consumers : calls'[c] = calls[c]
        /\ calls'[Loop] = (IF started THEN calls[Loop] ELSE next)
    BY <1>0, <1>9 DEF ResumeEvent
  <2> QED
    BY <1>1, <1>2, <1>3, <2>1 DEF iterator
<1>10. ~CollectPage /\ ~CollectError /\ ~CollectCancel
  BY DEF Waits, CollectPage, CollectError, CollectCancel
<1>11. \A c \in Consumers : ~Ask(c) /\ ~IteratePage(c) /\ ~IterateError(c)
  BY <1>1 DEF Waits, Ask, IteratePage, IterateError
<1>12. CASE CallIsLost \/ UNCHANGED vars
  BY <1>4, <1>12 DEF CallIsLost, CallLost, vars, stream
<1> QED
  BY <1>5, <1>6, <1>7, <1>8, <1>9, <1>10, <1>11, <1>12 DEF Next, PageArrives, CallFails, CallIsLost

(* The pages read so far, and after one more.                               *)
Read(n) == IF n = 0 THEN Len(Pages) ELSE n - 1

LEMMA IterateStep ==
    ASSUME TypeOK, Reading, mode = "iterate", [Next]_vars
    PROVE  Reading'
<1>0. /\ calls \in [Callers -> PageNumbers] /\ next \in PageNumbers
      /\ got \in Seq(Resources) /\ cache \in Seq(Resources)
      /\ attempts \in [Consumers -> 0 .. MaxAttemptsEmptyResponse + 1]
      /\ MaxAttemptsEmptyResponse \in Nat
      /\ Loop \in Callers /\ \A c \in Consumers : c \in Callers /\ c # Loop
      /\ Len(Pages) \in Nat /\ \A p \in PageNumbers : p # 0 => p \in 1 .. Len(Pages)
  BY Types, ConsumersAssumption, PagesType DEF Callers, PageNumbers
<1>1. ~resuming /\ calls[Loop] = 0
  BY DEF Reading, OneReader
<1>2. ASSUME UNCHANGED <<mode, maxResults, resuming>>, calls'[Loop] = 0, Iterating'
      PROVE  Reading'
  BY <1>1, <1>2 DEF Reading, OneReader, Collecting, Streaming
<1>3. ASSUME ~overlapped
      PROVE  /\ outcome \in {"open", "ended"}
             /\ got \o cache = Parts[Read(next)]
             /\ \A c \in Consumers : calls[c] # 0 =>
                   /\ calls[c] = next /\ cache = <<>> /\ outcome = "open"
                   /\ attempts[c] =< MaxAttemptsEmptyResponse
                   /\ EmptyBefore(next, attempts[c])
                   /\ \A d \in Consumers : calls[d] # 0 => d = c
             /\ outcome = "ended" =>
                   /\ cache = <<>>
                   /\ next = 0 \/ EmptyBefore(next, MaxAttemptsEmptyResponse + 1)
  BY <1>3 DEF Reading, Iterating, Read
<1>4. ASSUME UNCHANGED <<mode, maxResults, resuming>>, calls'[Loop] = 0,
             ~overlapped' =>
                /\ outcome' \in {"open", "ended"}
                /\ got' \o cache' = Parts[Read(next')]
                /\ \A c \in Consumers : calls'[c] # 0 =>
                      /\ calls'[c] = next' /\ cache' = <<>> /\ outcome' = "open"
                      /\ attempts'[c] =< MaxAttemptsEmptyResponse
                      /\ EmptyBefore(next', attempts'[c])
                      /\ \A d \in Consumers : calls'[d] # 0 => d = c
                /\ outcome' = "ended" =>
                      /\ cache' = <<>>
                      /\ next' = 0 \/ EmptyBefore(next', MaxAttemptsEmptyResponse + 1)
      PROVE  Reading'
  <2>1. Parts' = Parts
    BY <1>4, ListKept
  <2>2. Iterating'
    BY <1>4, <2>1 DEF Iterating, Read, EmptyBefore
  <2> QED
    BY <1>2, <1>4, <2>2
(* What a call of next() returns and what it leaves in the cache.           *)
<1>5. ASSUME NEW resources \in Seq(Resources), Return(resources)
      PROVE  /\ got' \o cache' = got \o resources
             /\ IF resources = <<>> THEN outcome' = "ended" /\ cache' = <<>>
                                    ELSE outcome' = outcome
  <2>1. CASE resources = <<>>
    BY <1>5, <2>1 DEF Return
  <2>2. CASE resources # <<>>
    <3>1. /\ got' = Append(got, Head(resources)) /\ cache' = Tail(resources)
          /\ outcome' = outcome
      BY <1>5, <2>2 DEF Return
    <3>2. Append(got, Head(resources)) \o Tail(resources) = got \o resources
      <4>1. \A s \in Seq(Resources), t \in Seq(Resources) :
               t # <<>> => Append(s, Head(t)) \o Tail(t) = s \o t
        OBVIOUS
      <4> QED
        BY <1>0, <2>2, <4>1
    <3> QED
      BY <2>2, <3>1, <3>2
  <2> QED
    BY <2>1, <2>2
<1>6. ASSUME NEW c \in Consumers, Ask(c) PROVE Reading'
  <2>1. /\ calls[c] = 0 /\ outcome = "open" /\ attempts' = [attempts EXCEPT ![c] = 0]
        /\ UNCHANGED <<mode, maxResults, next, stream>>
    BY <1>6 DEF Ask
  <2>2. UNCHANGED <<mode, maxResults, resuming>>
    BY <2>1 DEF stream
  <2>3. CASE (cache # <<>> \/ next = 0) /\ Return(cache) /\ UNCHANGED <<calls, overlapped>>
    <3>1. ASSUME ~overlapped, NEW d \in Consumers PROVE calls[d] = 0
      BY <1>3, <2>3, <3>1
    <3>2. /\ got' \o cache' = got \o cache
          /\ IF cache = <<>> THEN outcome' = "ended" /\ cache' = <<>>
                             ELSE outcome' = outcome
      BY <1>0, <1>5, <2>3
    <3> QED
      BY <1>1, <1>3, <1>4, <2>1, <2>2, <2>3, <3>1, <3>2
  <2>4. CASE /\ cache = <<>> /\ next # 0 /\ calls' = [calls EXCEPT ![c] = next]
             /\ overlapped' = (overlapped \/ \E d \in Consumers : calls[d] # 0)
             /\ UNCHANGED <<got, outcome, cache>>
    <3>1. /\ calls'[Loop] = 0 /\ calls'[c] = next
          /\ \A d \in Consumers \ {c} : calls'[d] = calls[d]
      BY <1>0, <1>1, <2>4
    <3>2. ASSUME ~overlapped'
          PROVE  ~overlapped /\ \A d \in Consumers \ {c} : calls'[d] = 0
      BY <2>4, <3>1, <3>2
    <3>3. attempts'[c] = 0 /\ 0 =< MaxAttemptsEmptyResponse
      BY <1>0, <2>1
    <3>4. EmptyBefore(next, 0)
      <4>1. next \in Nat /\ 0 < next /\ \A q \in next - 0 .. next - 1 : FALSE
        BY <1>0, <2>4
      <4> QED
        BY <4>1 DEF EmptyBefore
    <3>5. ASSUME ~overlapped', NEW d \in Consumers, calls'[d] # 0
          PROVE  /\ calls'[d] = next' /\ cache' = <<>> /\ outcome' = "open"
                 /\ attempts'[d] =< MaxAttemptsEmptyResponse
                 /\ EmptyBefore(next', attempts'[d])
                 /\ \A e \in Consumers : calls'[e] # 0 => e = d
      <4>1. d = c
        BY <3>2, <3>5
      <4>2. next' = next
        BY <2>1
      <4> QED
        BY <2>1, <2>4, <3>1, <3>2, <3>3, <3>4, <3>5, <4>1, <4>2
    <3>6. ~overlapped' => outcome' = "open" /\ got' \o cache' = Parts[Read(next')]
      <4>1. UNCHANGED <<got, cache, next, outcome>>
        BY <2>1, <2>4
      <4> QED
        BY <1>3, <2>1, <3>2, <4>1
    <3> QED
      BY <1>4, <2>2, <3>1, <3>5, <3>6
  <2> QED
    BY <1>6, <2>3, <2>4 DEF Ask
<1>7. ASSUME NEW c \in Consumers, IteratePage(c) PROVE Reading'
  <2> DEFINE p == calls[c]
             cached == cache \o Pages[p]
             tries == attempts[c] + 1
  <2>1. /\ p # 0 /\ next' = NextPage(p)
        /\ UNCHANGED <<mode, maxResults, stream, overlapped>>
    BY <1>7 DEF Waits, IteratePage
  <2>2. /\ UNCHANGED <<mode, maxResults, resuming>> /\ p \in 1 .. Len(Pages)
        /\ p \in 0 .. Len(Pages) /\ p \in Nat
    BY <1>0, <2>1 DEF stream
  <2>3. /\ next' = 0 => p = Len(Pages)
        /\ next' # 0 => next' = p + 1
        /\ Read(next') = p
    BY <1>0, <2>1, <2>2, NextPageType DEF Read
  <2>4. ASSUME ~overlapped
        PROVE  /\ p = next /\ cache = <<>> /\ outcome = "open"
               /\ attempts[c] =< MaxAttemptsEmptyResponse /\ EmptyBefore(p, attempts[c])
               /\ \A d \in Consumers \ {c} : calls[d] = 0
               /\ cached = Pages[p]
               /\ got \o cached = Parts[Read(next')]
    <3>1. /\ p = next /\ cache = <<>> /\ outcome = "open"
          /\ attempts[c] =< MaxAttemptsEmptyResponse /\ EmptyBefore(p, attempts[c])
          /\ \A d \in Consumers \ {c} : calls[d] = 0
      BY <1>3, <2>1, <2>4
    <3>2. Pages[p] \in Seq(Resources)
      BY <2>2, PagesType
    <3>3. cached = Pages[p] /\ got \o cache = got
      BY <1>0, <3>1, <3>2
    <3>4. got = Parts[p - 1]
      BY <1>3, <2>1, <2>4, <3>1, <3>3 DEF Read
    <3>5. Parts[p] = Parts[p - 1] \o Pages[p]
      BY <2>2, PartsType, SeenByPage DEF PageSeen
    <3> QED
      BY <2>3, <3>1, <3>3, <3>4, <3>5
  <2>5. CASE /\ cached = <<>> /\ tries =< MaxAttemptsEmptyResponse /\ next' # 0
             /\ attempts' = [attempts EXCEPT ![c] = tries]
             /\ calls' = [calls EXCEPT ![c] = next']
             /\ UNCHANGED <<got, outcome, cache>>
    <3>1. /\ calls'[Loop] = 0 /\ calls'[c] = next'
          /\ \A d \in Consumers \ {c} : calls'[d] = calls[d]
      BY <1>0, <1>1, <2>5
    <3>2. attempts'[c] = tries /\ attempts[c] \in Nat /\ tries = attempts[c] + 1
      BY <1>0, <2>5
    <3> HIDE DEF p, cached, tries
    <3>3. ASSUME ~overlapped PROVE EmptyBefore(next', tries)
      <4>1. /\ attempts[c] < p /\ Pages[p] = <<>>
            /\ \A q \in p - attempts[c] .. p - 1 : Pages[q] = <<>>
        BY <2>4, <2>5, <3>3 DEF EmptyBefore
      <4>2. /\ tries < next'
            /\ \A q \in next' - tries .. next' - 1 : q = p \/ q \in p - attempts[c] .. p - 1
        BY <2>2, <2>3, <2>5, <3>2, <4>1
      <4> QED
        BY <4>1, <4>2 DEF EmptyBefore
    <3>4. ASSUME ~overlapped PROVE got' \o cache' = Parts[Read(next')] /\ cache' = <<>>
      <4>1. got' \o cache' = got \o cached
        BY <2>4, <2>5, <3>4
      <4> QED
        BY <2>4, <2>5, <3>4, <4>1
    <3>5. ASSUME ~overlapped, NEW d \in Consumers, calls'[d] # 0
          PROVE  /\ calls'[d] = next' /\ cache' = <<>> /\ outcome' = "open"
                 /\ attempts'[d] =< MaxAttemptsEmptyResponse
                 /\ EmptyBefore(next', attempts'[d])
                 /\ \A e \in Consumers : calls'[e] # 0 => e = d
      <4>1. d = c /\ \A e \in Consumers : calls'[e] # 0 => e = c
        BY <2>4, <3>1, <3>5
      <4> QED
        BY <2>4, <2>5, <3>1, <3>2, <3>3, <3>4, <3>5, <4>1
    <3> QED
      BY <1>4, <2>1, <2>2, <2>4, <2>5, <3>1, <3>4, <3>5
  <2>6. CASE /\ cached # <<>> \/ tries > MaxAttemptsEmptyResponse \/ next' = 0
             /\ Return(cached)
             /\ calls' = [calls EXCEPT ![c] = 0]
             /\ UNCHANGED attempts
    <3>1. /\ calls'[Loop] = 0 /\ calls'[c] = 0
          /\ \A d \in Consumers \ {c} : calls'[d] = calls[d]
      BY <1>0, <1>1, <2>6
    <3>2. cached \in Seq(Resources)
      BY <1>0, <2>2, PagesType, ConcatType
    <3>3. attempts[c] \in Nat /\ tries = attempts[c] + 1
      BY <1>0
    <3> HIDE DEF p, cached, tries
    <3>4. /\ got' \o cache' = got \o cached
          /\ IF cached = <<>> THEN outcome' = "ended" /\ cache' = <<>>
                              ELSE outcome' = outcome
      BY <1>5, <2>6, <3>2
    <3>5. ASSUME ~overlapped, outcome' = "ended"
          PROVE  /\ cache' = <<>>
                 /\ next' = 0 \/ EmptyBefore(next', MaxAttemptsEmptyResponse + 1)
      <4>1. cached = <<>> /\ cache' = <<>>
        BY <2>4, <3>4, <3>5
      <4>2. ASSUME next' # 0 PROVE EmptyBefore(next', MaxAttemptsEmptyResponse + 1)
        <5>1. attempts[c] = MaxAttemptsEmptyResponse
          BY <1>0, <2>4, <2>6, <3>3, <3>5, <4>1, <4>2
        <5>2. /\ attempts[c] < p /\ Pages[p] = <<>>
              /\ \A q \in p - attempts[c] .. p - 1 : Pages[q] = <<>>
          BY <2>4, <3>5, <4>1 DEF EmptyBefore
        <5>3. /\ attempts[c] + 1 < next'
              /\ \A q \in next' - (attempts[c] + 1) .. next' - 1 :
                    q = p \/ q \in p - attempts[c] .. p - 1
          BY <2>2, <2>3, <3>3, <4>2, <5>2
        <5> QED
          BY <5>1, <5>2, <5>3 DEF EmptyBefore
      <4> QED
        BY <4>1, <4>2
    <3>6. ASSUME ~overlapped, NEW d \in Consumers PROVE calls'[d] = 0
      BY <2>4, <3>1, <3>6
    <3>7. ASSUME ~overlapped
          PROVE  outcome' \in {"open", "ended"} /\ got' \o cache' = Parts[Read(next')]
      BY <2>4, <3>4, <3>7
    <3> QED
      BY <1>4, <2>1, <2>2, <3>1, <3>5, <3>6, <3>7
  <2> QED
    BY <1>7, <2>5, <2>6 DEF Waits, IteratePage
<1>8. ASSUME NEW c \in Consumers, IterateError(c) PROVE Reading'
  <2>1. /\ calls'[Loop] = 0 /\ calls'[c] = 0 /\ \A d \in Consumers \ {c} : calls'[d] = calls[d]
        /\ UNCHANGED <<mode, maxResults, next, got, outcome, stream, iterator>>
    BY <1>0, <1>1, <1>8 DEF Waits, IterateError
  <2>2. \A d \in Consumers : calls'[d] # 0 => d # c /\ calls'[d] = calls[d]
    BY <2>1
  <2> QED
    BY <1>3, <1>4, <2>1, <2>2 DEF stream, iterator
<1>9. /\ ~CollectPage /\ ~CollectError /\ ~CollectCancel /\ ~StreamPage /\ ~StreamError
      /\ ~Pause /\ ~Resume /\ ~ResumeEvent /\ ~UserEnds
  BY <1>1 DEF Waits, CollectPage, CollectError, CollectCancel, StreamPage, StreamError, Pause, Resume,
              ResumeEvent, UserEnds
<1>10. CASE CallIsLost \/ UNCHANGED vars
  <2>1. UNCHANGED <<mode, maxResults, calls, next, got, outcome, stream, iterator>>
    BY <1>10 DEF CallIsLost, CallLost, vars
  <2> QED
    BY <1>1, <1>3, <1>4, <2>1 DEF stream, iterator
<1> QED
  BY <1>6, <1>7, <1>8, <1>9, <1>10 DEF Next, PageArrives, CallFails, CallIsLost

LEMMA ReadingStep == TypeOK /\ Reading /\ [Next]_vars => Reading'
  BY Types, CollectStep, StreamStep, IterateStep

LEMMA ReadingInvariant == Spec => [](TypeOK /\ Reading)
  BY TypeInit, TypeStep, ReadingInit, ReadingStep, PTL DEF Spec

-----------------------------------------------------------------------------
LEMMA IteratedList ==
    ASSUME TypeOK, Reading, mode = "iterate", ~overlapped
    PROVE  /\ IsPrefix(got, Wanted)
           /\ cache = <<>> => got = Parts[Read(next)]
           /\ cache = <<>> /\ next = 0 => got = Wanted
<1>0. /\ got \in Seq(Resources) /\ cache \in Seq(Resources) /\ maxResults \in Nat
      /\ next \in PageNumbers /\ Len(Pages) \in Nat
  BY Types, PagesType
<1>1. got \o cache = Parts[Read(next)]
  BY DEF Reading, Iterating, Read
<1>2. Read(next) \in 0 .. Len(Pages) /\ (next = 0 => Read(next) = Len(Pages))
  BY <1>0 DEF Read, PageNumbers
<1>3. Wanted = List
  BY <1>0, WantedWhole
<1>4. IsPrefix(Parts[Read(next)], List) /\ (next = 0 => Parts[Read(next)] = List)
  BY <1>2, PartsType, SeenByPage DEF List
<1>5. got \o cache \in Seq(Resources) /\ IsPrefix(got, got \o cache)
  BY <1>0, PrefixOfConcat, ConcatType
<1>6. IsPrefix(got, List)
  BY <1>0, <1>1, <1>4, <1>5, ListType, PrefixTransitive
<1>7. cache = <<>> => got \o cache = got
  BY <1>0
<1> QED
  BY <1>1, <1>3, <1>4, <1>6, <1>7

LEMMA ReadingIsPrefix == TypeOK /\ Reading => PrefixOfList
<1> SUFFICES ASSUME TypeOK, Reading, ~overlapped
             PROVE  /\ IsPrefix(got, Wanted)
                    /\ outcome = "ended" =>
                          \/ got = Wanted
                          \/ /\ mode = "iterate"
                             /\ next > MaxAttemptsEmptyResponse + 1
                             /\ \A p \in next - MaxAttemptsEmptyResponse - 1 .. next - 1 :
                                   Pages[p] = <<>>
  BY DEF PrefixOfList
<1>1. CASE mode = "collect"
  BY <1>1 DEF Reading, Collecting
<1>2. CASE mode = "stream"
  BY <1>2 DEF Reading, Streaming
<1>3. CASE mode = "iterate"
  <2>1. outcome = "ended" =>
            cache = <<>> /\ (next = 0 \/ EmptyBefore(next, MaxAttemptsEmptyResponse + 1))
    BY <1>3 DEF Reading, Iterating
  <2>2. next \in Nat /\ MaxAttemptsEmptyResponse \in Nat
    BY Types, PagesType DEF PageNumbers
  <2>3. next - MaxAttemptsEmptyResponse - 1 = next - (MaxAttemptsEmptyResponse + 1)
    BY <2>2
  <2>4. EmptyBefore(next, MaxAttemptsEmptyResponse + 1) =>
            /\ next > MaxAttemptsEmptyResponse + 1
            /\ \A p \in next - MaxAttemptsEmptyResponse - 1 .. next - 1 : Pages[p] = <<>>
    BY <2>2, <2>3 DEF EmptyBefore
  <2> QED
    BY <1>3, <2>1, <2>4, IteratedList
<1> QED
  BY <1>1, <1>2, <1>3, Types

LEMMA ReadingAsksInTurn == TypeOK /\ Reading => AsksForNextPage
<1> SUFFICES ASSUME TypeOK, Reading, NEW c \in Callers,
                    calls[c] # 0, ~overlapped, outcome # "ended by user"
             PROVE  /\ got = Seen(calls[c] - 1)
                    /\ cache = <<>>
                    /\ mode # "iterate" => maxResults = 0 \/ Len(got) < maxResults
  BY DEF AsksForNextPage
<1>1. calls[c] \in 1 .. Len(Pages) /\ Parts[calls[c] - 1] = Seen(calls[c] - 1)
  <2>1. calls[c] \in PageNumbers
    BY Types
  <2> QED
    BY <2>1, PageNumbersType, PartsType
<1>2. CASE mode # "iterate"
  <2>1. c = Loop /\ cache = <<>>
    BY <1>2 DEF Reading, OneReader, Callers
  <2>2. HasBefore(calls[c])
    BY <1>2, <2>1, Types DEF Reading, Collecting, Streaming
  <2> QED
    BY <1>1, <2>1, <2>2 DEF HasBefore, Room
<1>3. CASE mode = "iterate"
  <2>1. c \in Consumers /\ calls[c] = next /\ cache = <<>>
    BY <1>3 DEF Reading, OneReader, Iterating, Callers
  <2>2. got = Parts[calls[c] - 1]
    BY <1>3, <2>1, IteratedList DEF Read
  <2> QED
    BY <1>1, <1>3, <2>1, <2>2
<1> QED
  BY <1>2, <1>3

(* However calls, pauses, failures and cancels interleave, the user gets    *)
(* the resources in the list's order, without a gap or a repeat and not     *)
(* more than maxResults, and a reader that ends by itself has given all of  *)
(* them; for every list, every limit, and any number of consumers.          *)
THEOREM ReadersKeepTheOrder == Spec => []PrefixOfList
  BY ReadingInvariant, ReadingIsPrefix, PTL

(* No page is asked for again after a pause or a failure, none before what  *)
(* comes before it has been handed over, and none after maxResults.         *)
THEOREM PagesAskedInTurn == Spec => []AsksForNextPage
  BY ReadingInvariant, ReadingAsksInTurn, PTL

=============================================================================
