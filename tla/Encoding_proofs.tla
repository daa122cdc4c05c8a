--------------------------- MODULE Encoding_proofs ---------------------------
(***************************************************************************)
(* What the pure operators behind REST requests do, for any templates,     *)
(* names, rules and requests: PathTemplates and Transcoding.  StreamProxy  *)
(* states it of the requests that are made.                                *)
(***************************************************************************)
EXTENDS PathTemplates, Transcoding, SequenceLemmas, FiniteSetTheorems

-----------------------------------------------------------------------------
(* PathTemplates: the segments of a name that each segment of a template    *)
(* stands for.                                                              *)

Width(segment) == IF IsWild(segment) THEN 2 ELSE 1
NamesOf(segment) == {segment.variables[i].name : i \in 1 .. Len(segment.variables)}

(* How many segments of a name those of a template up to the k-th take.     *)
WildUpto(template, k) == \E j \in 1 .. k : IsWild(template[j])
Before(template) ==
    [k \in 0 .. Len(template) |-> IF WildUpto(template, k) THEN k + 1 ELSE k]

LEMMA ParsedSegments ==
    ASSUME NEW t, IsTemplate(t)
    PROVE  /\ Len(t) \in Nat /\ DOMAIN t = 1 .. Len(t) /\ DOMAIN Parsed(t) = 1 .. Len(t)
           /\ \A k \in 1 .. Len(t) : IsWild(Parsed(t)[k]) <=> IsWild(t[k])
<1>1. Len(t) \in Nat /\ DOMAIN t = 1 .. Len(t)
  BY DEF IsTemplate
<1>2. DOMAIN Parsed(t) = 1 .. Len(t)
  BY <1>1 DEF Parsed
<1>3. ASSUME NEW k \in 1 .. Len(t)
      PROVE  IsWild(Parsed(t)[k]) <=> IsWild(t[k])
  <2> DEFINE unnamed == t[k].variables # <<>> /\ t[k].variables[1].name = ""
  <2>1. CASE ~unnamed
    <3>1. Parsed(t)[k] = t[k]
      BY <1>1, <2>1 DEF Parsed
    <3> QED
      BY <3>1
  <2>2. CASE unnamed
    <3>1. PICK name : Parsed(t)[k] = Named(name, t[k].variables[1].pattern)
      BY <1>1, <2>2 DEF Parsed
    <3> DEFINE v == Var(name, t[k].variables[1].pattern)
    <3>5. Parsed(t)[k] = Named(name, t[k].variables[1].pattern)
      BY <3>1
    <3>6. Named(name, t[k].variables[1].pattern).variables = <<v>>
      BY DEF Named, Variables
    <3>4. v.pattern = t[k].variables[1].pattern
      BY DEF Var
    <3> HIDE DEF v
    <3>3. Parsed(t)[k].variables = <<v>>
      BY ONLY <3>5, <3>6
    <3>2. /\ Parsed(t)[k].variables # <<>>
          /\ Parsed(t)[k].variables[1].pattern = t[k].variables[1].pattern
      BY <3>3, <3>4
    <3> QED
      BY <2>2, <3>2 DEF IsWild
  <2> QED
    BY <2>1, <2>2
<1> QED
  BY <1>1, <1>2, <1>3

LEMMA WidthsAddUp ==
    ASSUME NEW t, IsTemplate(t), CanParse(t)
    PROVE  /\ Before(t) \in [0 .. Len(t) -> Nat] /\ Before(t)[0] = 0
           /\ Before(t)[Len(t)] = Len(t) + Wildcards(t)
           /\ \A k \in 1 .. Len(t) : Before(t)[k] = Before(t)[k - 1] + Width(Parsed(t)[k])
<1> DEFINE n == Len(t)
           W == {k \in DOMAIN t : IsWild(t[k])}
<1>1. /\ n \in Nat /\ DOMAIN t = 1 .. n
      /\ \A k \in 1 .. n : IsWild(Parsed(t)[k]) <=> IsWild(t[k])
  BY ParsedSegments
<1>2. W \subseteq 1 .. n /\ IsFiniteSet(W)
  <2>1. W \subseteq 1 .. n
    BY <1>1
  <2>2. IsFiniteSet(1 .. n)
    BY <1>1, FS_Interval
  <2> HIDE DEF W, n
  <2> QED
    BY <2>1, <2>2, FS_Subset
<1>3. Cardinality(W) \in Nat /\ Cardinality(W) =< 1 /\ Wildcards(t) = Cardinality(W)
  BY <1>2, FS_CardinalityType DEF CanParse, Wildcards
<1>4. \/ W = {} /\ Wildcards(t) = 0
      \/ Wildcards(t) = 1 /\ \E w \in 1 .. n : W = {w}
  <2>1. CASE Cardinality(W) = 0
    BY <1>2, <1>3, <2>1, FS_EmptySet
  <2>2. CASE Cardinality(W) = 1
    <3>1. PICK w : W = {w}
      BY <1>2, <2>2, FS_Singleton
    <3> HIDE DEF W
    <3> QED
      BY <1>2, <1>3, <2>2, <3>1
  <2> HIDE DEF W
  <2> QED
    BY <1>3, <2>1, <2>2
<1>5. \A k \in 0 .. n : WildUpto(t, k) <=> \E j \in W : j =< k
  BY <1>1 DEF WildUpto
<1>6. \A k \in 1 .. n : IsWild(Parsed(t)[k]) <=> k \in W
  BY <1>1
<1> HIDE DEF W, n
<1>7. /\ Before(t) = [k \in 0 .. n |-> IF WildUpto(t, k) THEN k + 1 ELSE k]
      /\ \A k \in 1 .. n : Width(Parsed(t)[k]) = IF k \in W THEN 2 ELSE 1
  BY <1>6 DEF Before, Width, n
<1>8. CASE W = {} /\ Wildcards(t) = 0
  <2>1. \A k \in 0 .. n : ~WildUpto(t, k)
    BY <1>5, <1>8
  <2>2. \A k \in 0 .. n : Before(t)[k] = k
    BY <1>7, <2>1
  <2>3. \A k \in 1 .. n : Width(Parsed(t)[k]) = 1 /\ k - 1 \in 0 .. n /\ k \in 0 .. n
    BY <1>1, <1>7, <1>8
  <2>4. Before(t) \in [0 .. n -> Nat]
    BY <1>1, <1>7
  <2>5. 0 \in 0 .. n /\ n \in 0 .. n
    BY <1>1
  <2>6. \A k \in 1 .. n : Before(t)[k] = Before(t)[k - 1] + Width(Parsed(t)[k])
    BY <1>1, <2>2, <2>3
  <2> QED
    BY <1>1, <1>8, <2>2, <2>4, <2>5, <2>6 DEF n
<1>9. CASE Wildcards(t) = 1 /\ \E w \in 1 .. n : W = {w}
  <2>1. PICK w \in 1 .. n : W = {w}
    BY <1>9
  <2>2. \A k \in 0 .. n : WildUpto(t, k) <=> w =< k
    BY <1>5, <2>1
  <2>3. \A k \in 1 .. n : k - 1 \in 0 .. n /\ k \in 0 .. n
    BY <1>1
  <2>4. \A k \in 0 .. n : Before(t)[k] = IF w =< k THEN k + 1 ELSE k
    BY <1>7, <2>2
  <2>5. \A k \in 1 .. n : Width(Parsed(t)[k]) = IF k = w THEN 2 ELSE 1
    BY <1>7, <2>1
  <2>6. Before(t) \in [0 .. n -> Nat]
    BY <1>1, <1>7
  <2>7. 0 \in 0 .. n /\ n \in 0 .. n /\ ~(w =< 0) /\ w =< n
    BY <1>1, <2>1
  <2>8. Before(t)[0] = 0 /\ Before(t)[n] = n + 1
    BY <2>4, <2>7
  <2>9. \A k \in 1 .. n : Before(t)[k] = Before(t)[k - 1] + Width(Parsed(t)[k])
    BY <1>1, <2>3, <2>4, <2>5
  <2> QED
    BY <1>9, <2>6, <2>8, <2>9 DEF n
<1> QED
  BY <1>4, <1>8, <1>9


-----------------------------------------------------------------------------
(* match(), segment by segment.                                             *)

(* Segments and their parts.  (The provers do better when they do not look  *)
(* into STRING.)                                                            *)
Text == STRING \cup {"undefined", "other"}

LEMMA OneElement ==
    ASSUME NEW X, NEW x \in X
    PROVE  <<x>> \in Seq(X)
  OBVIOUS

LEMMA OneLong ==
    ASSUME NEW x
    PROVE  Len(<<x>>) = 1 /\ 1 \in DOMAIN <<x>> /\ <<x>>[1] = x /\ x \in ToSet(<<x>>)
  BY DEF ToSet

BindingsOf(t) == UNION {[S -> Seq(Text)] : S \in SUBSET Keys(t)}
States(t) == [ok : BOOLEAN, left : Seq(Text), bindings : BindingsOf(t)]

LEMMA LargerSeq ==
    ASSUME NEW X, NEW Y, X \subseteq Y
    PROVE  Seq(X) \subseteq Seq(Y)
  OBVIOUS

LEMMA SequenceOf ==
    ASSUME NEW X, NEW n \in Nat, NEW s \in [1 .. n -> X]
    PROVE  s \in Seq(X) /\ Len(s) = n /\ DOMAIN s = 1 .. n
  OBVIOUS

LEMMA PartsType ==
    ASSUME NEW s \in Text
    PROVE  PartsOf(s) \in Seq(Text)
<1>1. s \in DOMAIN Compounds => Compounds[s] \in Seq(Text)
  <2> DEFINE S == STRING
  <2>1. S \subseteq Text
    BY DEF Text
  <2>2. s \in DOMAIN Compounds => Compounds[s] \in Seq(S)
    BY CompoundsAssumption
  <2> HIDE DEF S
  <2> QED
    BY <2>1, <2>2, LargerSeq
<1>2. <<s>> \in Seq(Text)
  BY OneElement
<1> QED
  BY <1>1, <1>2 DEF PartsOf

LEMMA NamesAreKeys ==
    ASSUME NEW t, IsTemplate(t)
    PROVE  /\ \A k \in 1 .. Len(t) : NamesOf(Parsed(t)[k]) \subseteq Keys(t)
           /\ \A n \in Keys(t) : \E k \in 1 .. Len(t) : n \in NamesOf(Parsed(t)[k])
<1> DEFINE P == Parsed(t)
<1>1. DOMAIN t = 1 .. Len(t) /\ DOMAIN P = 1 .. Len(t)
  BY ParsedSegments
<1>2. ASSUME NEW k \in 1 .. Len(t)
      PROVE  NamesOf(P[k]) = {v.name : v \in ToSet(P[k].variables)}
  <2>1. P[k].variables \in Seq(ToSet(P[k].variables))
    BY <1>1 DEF IsTemplate, IsSegment
  <2>2. DOMAIN P[k].variables = 1 .. Len(P[k].variables)
    BY <2>1
  <2> QED
    BY <2>2 DEF NamesOf, ToSet
<1>3. Keys(t) = UNION {{v.name : v \in ToSet(P[k].variables)} : k \in 1 .. Len(t)}
  BY <1>1 DEF Keys, VariablesOf
<1> HIDE DEF P
<1>4. Keys(t) = UNION {NamesOf(P[k]) : k \in 1 .. Len(t)}
  BY <1>2, <1>3
<1> QED
  BY <1>4 DEF P

(* What the variables of a segment take.                                    *)
TakenBy(segment, left, i) ==
    LET parts == PartsOf(left[1])
    IN  IF IsWild(segment) THEN TakeTwo(left).value
        ELSE IF Len(segment.variables) = 1 THEN <<left[1]>>
        ELSE IF 2 * i - 1 =< Len(parts) THEN <<parts[2 * i - 1]>> ELSE <<>>

LEMMA TakenIs ==
    ASSUME NEW segment, IsSegment(segment), NEW left
    PROVE  /\ DOMAIN Taken(segment, left) = NamesOf(segment)
           /\ Taken(segment, left) = [n \in NamesOf(segment) |-> Taken(segment, left)[n]]
           /\ \A n \in NamesOf(segment) : \E i \in 1 .. Len(segment.variables) :
                 /\ segment.variables[i].name = n
                 /\ Taken(segment, left)[n] = TakenBy(segment, left, i)
<1> DEFINE parts == PartsOf(left[1])
           count == Len(segment.variables)
           place(n) == CHOOSE j \in 1 .. count : segment.variables[j].name = n
           value(n) == CASE IsWild(segment) -> TakeTwo(left).value
                         [] count = 1 /\ ~IsWild(segment) -> <<left[1]>>
                         [] count > 1 /\ ~IsWild(segment) ->
                              IF 2 * place(n) - 1 =< Len(parts)
                              THEN <<parts[2 * place(n) - 1]>> ELSE <<>>
<1>1. Taken(segment, left) = [n \in NamesOf(segment) |-> value(n)]
  BY DEF Taken, NamesOf
<1>2. ASSUME NEW n \in NamesOf(segment)
      PROVE  /\ place(n) \in 1 .. count /\ segment.variables[place(n)].name = n
             /\ value(n) = TakenBy(segment, left, place(n))
  <2>1. place(n) \in 1 .. count /\ segment.variables[place(n)].name = n
    BY DEF NamesOf
  <2>2. count \in Nat /\ count > 0
    BY <2>1 DEF IsSegment
  <2> HIDE DEF place
  <2>3. IsWild(segment) => value(n) = TakenBy(segment, left, place(n))
    BY DEF TakenBy
  <2>4. ~IsWild(segment) /\ count = 1 => value(n) = TakenBy(segment, left, place(n))
    BY DEF TakenBy
  <2>5. ASSUME ~IsWild(segment), count > 1
        PROVE  value(n) = TakenBy(segment, left, place(n))
    <3> DEFINE taken == IF 2 * place(n) - 1 =< Len(parts)
                        THEN <<parts[2 * place(n) - 1]>> ELSE <<>>
    <3>1. TakenBy(segment, left, place(n)) =
             IF IsWild(segment) THEN TakeTwo(left).value
             ELSE IF count = 1 THEN <<left[1]>> ELSE taken
      BY DEF TakenBy
    <3>2. value(n) = CASE IsWild(segment) -> TakeTwo(left).value
                       [] count = 1 /\ ~IsWild(segment) -> <<left[1]>>
                       [] count > 1 /\ ~IsWild(segment) -> taken
      OBVIOUS
    <3> HIDE DEF taken, value, count
    <3>3. count # 1
      BY <2>2, <2>5
    <3> QED
      BY <2>5, <3>1, <3>2, <3>3
  <2> HIDE DEF value, count
  <2>6. count = 1 \/ count > 1
    BY <2>2
  <2> QED
    BY <2>1, <2>3, <2>4, <2>5, <2>6
<1> HIDE DEF value, place
<1> QED
  BY <1>1, <1>2

LEMMA TwoTaken ==
    ASSUME NEW left \in Seq(Text), left # <<>>
    PROVE  TakeTwo(left).value \in Seq(Text) /\ TakeTwo(left).left \in Seq(Text)
<1>1. Len(left) \in Nat /\ Len(left) > 0 /\ left[1] \in Text
  OBVIOUS
<1>2. SubSeq(left, 3, Len(left)) \in Seq(Text) /\ <<left[1], "undefined">> \in Seq(Text)
  <2>1. <<left[1], "undefined">> \in Seq(Text)
    <3>1. "undefined" \in Text
      BY DEF Text
    <3> QED
      BY <1>1, <3>1
  <2>2. SubSeq(left, 3, Len(left)) \in Seq(Text)
    <3>1. CASE Len(left) > 2
      BY <1>1, <3>1
    <3>2. CASE Len(left) =< 2
      <4>1. SubSeq(left, 3, Len(left)) = <<>>
        BY <1>1, <3>2
      <4> QED
        BY <4>1
    <3> QED
      BY <1>1, <3>1, <3>2
  <2> QED
    BY <2>1, <2>2
<1>3. Len(left) > 1 => SubSeq(left, 1, 2) \in Seq(Text)
  BY <1>1
<1> QED
  BY <1>2, <1>3 DEF TakeTwo

LEMMA TakenType ==
    ASSUME NEW segment, IsSegment(segment), NEW left \in Seq(Text), left # <<>>
    PROVE  Taken(segment, left) \in [NamesOf(segment) -> Seq(Text)]
<1> DEFINE f == Taken(segment, left)
<1>1. left[1] \in Text
  OBVIOUS
<1>2. PartsOf(left[1]) \in Seq(Text)
  BY <1>1, PartsType
<1>3. ASSUME NEW n, NEW i \in 1 .. Len(segment.variables)
      PROVE  TakenBy(segment, left, i) \in Seq(Text)
  <2> DEFINE parts == PartsOf(left[1])
  <2>1. TakeTwo(left).value \in Seq(Text) /\ <<left[1]>> \in Seq(Text)
        /\ <<>> \in Seq(Text)
    BY <1>1, TwoTaken
  <2>2. ASSUME 2 * i - 1 =< Len(parts) PROVE <<parts[2 * i - 1]>> \in Seq(Text)
    <3>1. 2 * i - 1 \in 1 .. Len(parts)
      BY <1>2, <2>2 DEF IsSegment
    <3>2. parts[2 * i - 1] \in Text
      BY <1>2, <3>1
    <3> QED
      BY <3>2
  <2> HIDE DEF parts
  <2> QED
    BY <2>1, <2>2 DEF TakenBy, parts
<1>4. /\ DOMAIN f = NamesOf(segment)
      /\ \A n \in NamesOf(segment) : f[n] \in Seq(Text)
  BY <1>3, TakenIs
<1>5. f = [n \in NamesOf(segment) |-> f[n]]
  BY TakenIs
<1> HIDE DEF f
<1> QED
  BY <1>4, <1>5 DEF f

(* What is left of a name before each segment takes its own.                *)
Left(template, name, k) == SubSeq(name, Before(template)[k] + 1, Len(name))

LEMMA BeforeGrows ==
    ASSUME NEW t, IsTemplate(t), CanParse(t)
    PROVE  \A k \in 1 .. Len(t) :
              /\ Before(t)[k - 1] \in Nat /\ Before(t)[k] \in Nat
              /\ Before(t)[k] = Before(t)[k - 1] + Width(Parsed(t)[k])
              /\ Before(t)[k] =< Before(t)[Len(t)]
<1> DEFINE n == Len(t)
           at == Before(t)
<1>1. /\ n \in Nat /\ at \in [0 .. n -> Nat]
      /\ \A k \in 1 .. n : at[k] = at[k - 1] + Width(Parsed(t)[k])
  BY ParsedSegments, WidthsAddUp
<1>2. \A k \in 1 .. n : Width(Parsed(t)[k]) \in {1, 2}
  BY DEF Width
<1> HIDE DEF n, at
<1>3. \A k \in 1 .. n : at[k - 1] \in Nat /\ at[k] \in Nat
  BY <1>1
<1>4. \A i \in 0 .. n - 1 : at[i] =< at[i + 1]
  <2> SUFFICES ASSUME NEW i \in 0 .. n - 1 PROVE at[i] =< at[i + 1]
    OBVIOUS
  <2> DEFINE w == Width(Parsed(t)[i + 1])
  <2>1. i + 1 \in 1 .. n /\ i + 1 - 1 = i
    BY <1>1
  <2>2. w \in {1, 2} /\ at[i + 1] = at[i] + w /\ at[i] \in Nat
    BY <1>1, <1>2, <1>3, <2>1
  <2> HIDE DEF w
  <2> QED
    BY <2>2
<1>5. \A x \in 0 .. n : \A y \in x .. n : at[x] =< at[y]
  BY <1>1, <1>4, NeverFalls
<1>6. \A k \in 1 .. n : k \in 0 .. n /\ n \in k .. n
  BY <1>1
<1> QED
  BY <1>1, <1>3, <1>5, <1>6 DEF n, at

(* A part of what is left is a part of the whole.                           *)
LEMMA PartOfTheRest ==
    ASSUME NEW X, NEW s \in Seq(X), NEW a \in 0 .. Len(s),
           NEW rest, rest = SubSeq(s, a + 1, Len(s)), NEW i \in Nat, i > 0, NEW j \in Nat,
           j =< Len(s) - a
    PROVE  SubSeq(rest, i, j) = SubSeq(s, a + i, a + j)
<1> DEFINE p == SubSeq(rest, i, j)
           q == SubSeq(s, a + i, a + j)
<1>1. /\ rest \in Seq(X) /\ Len(rest) = Len(s) - a
      /\ \A k \in 1 .. Len(rest) : rest[k] = s[a + k]
  <2>1. CASE a + 1 =< Len(s)
    BY <2>1
  <2>2. CASE a = Len(s)
    <3>1. SubSeq(s, a + 1, Len(s)) = <<>>
      BY <2>2
    <3> QED
      BY <2>2, <3>1
  <2> QED
    BY <2>1, <2>2
<1>2. CASE j < i
  <2>1. SubSeq(rest, i, j) = <<>> /\ SubSeq(s, a + i, a + j) = <<>>
    BY <1>1, <1>2
  <2> QED
    BY <2>1
<1>3. CASE i =< j
  <2>1. /\ p \in Seq(X) /\ Len(p) = j - i + 1
        /\ \A k \in 1 .. Len(p) : p[k] = rest[i + k - 1]
    BY <1>1, <1>3
  <2>2. /\ q \in Seq(X) /\ Len(q) = j - i + 1
        /\ \A k \in 1 .. Len(q) : q[k] = s[a + i + k - 1]
    BY <1>1, <1>3
  <2> HIDE DEF p, q
  <2>3. \A k \in 1 .. Len(p) : p[k] = q[k]
    <3> SUFFICES ASSUME NEW k \in 1 .. Len(p) PROVE p[k] = q[k]
      OBVIOUS
    <3>1. i + k - 1 \in 1 .. Len(rest) /\ a + (i + k - 1) = a + i + k - 1
      BY <1>1, <2>1
    <3>2. rest[i + k - 1] = s[a + (i + k - 1)]
      BY <1>1, <3>1
    <3> QED
      BY <2>1, <2>2, <3>1, <3>2
  <2>4. p = q
    BY <2>1, <2>2, <2>3, SeqEqual
  <2> QED
    BY <2>4 DEF p, q
<1> QED
  BY <1>2, <1>3

LEMMA LeftIs ==
    ASSUME NEW t, IsTemplate(t), CanParse(t), NEW name \in Seq(Text),
           Len(name) = Before(t)[Len(t)], NEW k \in 1 .. Len(t)
    PROVE  LET left    == Left(t, name, k - 1)
               segment == Parsed(t)[k]
           IN  /\ left \in Seq(Text) /\ left # <<>>
               /\ left[1] = name[Before(t)[k - 1] + 1]
               /\ IsWild(segment) => /\ TakeTwo(left).left = Left(t, name, k)
                                     /\ TakeTwo(left).value = Piece(name, Before(t), k)
               /\ ~IsWild(segment) => /\ Tail(left) = Left(t, name, k)
                                      /\ <<left[1]>> = Piece(name, Before(t), k)
<1> DEFINE a == Before(t)[k - 1]
           b == Before(t)[k]
           left == Left(t, name, k - 1)
<1>1. a \in Nat /\ b \in Nat /\ b = a + Width(Parsed(t)[k]) /\ b =< Len(name)
  BY BeforeGrows
<1>2. /\ left = SubSeq(name, a + 1, Len(name)) /\ Left(t, name, k) = SubSeq(name, b + 1, Len(name))
      /\ Piece(name, Before(t), k) = SubSeq(name, a + 1, b)
  BY DEF Left, Piece
<1>3. Width(Parsed(t)[k]) = IF IsWild(Parsed(t)[k]) THEN 2 ELSE 1
  BY DEF Width
<1> HIDE DEF a, b, left
<1>4. /\ left \in Seq(Text) /\ Len(left) = Len(name) - a
      /\ \A i \in 1 .. Len(left) : left[i] = name[a + i]
  <2>1. a + 1 =< Len(name)
    BY <1>1, <1>3
  <2> QED
    BY <1>1, <1>2, <2>1
<1>5. Len(left) > 0 /\ left[1] = name[a + 1]
  BY <1>1, <1>3, <1>4
<1>9. \A i \in Nat, j \in Nat :
        i > 0 /\ j =< Len(left) => SubSeq(left, i, j) = SubSeq(name, a + i, a + j)
  <2>1. a \in 0 .. Len(name)
    BY <1>1, <1>3
  <2> QED
    BY <1>2, <1>4, <2>1, PartOfTheRest
<1>6. ASSUME IsWild(Parsed(t)[k])
      PROVE  TakeTwo(left).left = Left(t, name, k) /\ TakeTwo(left).value = Piece(name, Before(t), k)
  <2>1. b = a + 2 /\ Len(left) > 1
    BY <1>1, <1>3, <1>4, <1>6
  <2>6. /\ 1 \in Nat /\ 2 \in Nat /\ 3 \in Nat /\ Len(left) \in Nat
        /\ 1 > 0 /\ 3 > 0 /\ 2 =< Len(left) /\ Len(left) =< Len(left)
    BY <1>4, <2>1
  <2>2. SubSeq(left, 1, 2) = SubSeq(name, a + 1, a + 2)
    BY ONLY <1>9, <2>6, Zenon
  <2>3. SubSeq(left, 3, Len(left)) = SubSeq(name, a + 3, a + Len(left))
    BY ONLY <1>9, <2>6, Zenon
  <2>5. a + 2 = b /\ a + 3 = b + 1 /\ a + Len(left) = Len(name)
    BY <1>1, <1>4, <2>1
  <2>4. /\ TakeTwo(left).left = SubSeq(left, 3, Len(left))
        /\ TakeTwo(left).value = SubSeq(left, 1, 2)
    BY <2>1 DEF TakeTwo
  <2> QED
    BY <1>2, <2>2, <2>3, <2>4, <2>5
<1>7. ASSUME ~IsWild(Parsed(t)[k])
      PROVE  Tail(left) = Left(t, name, k) /\ <<left[1]>> = Piece(name, Before(t), k)
  <2>1. b = a + 1
    BY <1>1, <1>3, <1>7
  <2>2. Tail(left) = SubSeq(left, 2, Len(left)) /\ <<left[1]>> = SubSeq(left, 1, 1)
    BY <1>4, <1>5
  <2>3. SubSeq(left, 1, 1) = SubSeq(name, a + 1, a + 1)
    BY <1>4, <1>5, <1>9, <2>1
  <2>6. 2 \in Nat /\ Len(left) \in Nat /\ 2 > 0 /\ Len(left) =< Len(left)
    BY <1>4
  <2>4. SubSeq(left, 2, Len(left)) = SubSeq(name, a + 2, a + Len(left))
    BY ONLY <1>9, <2>6, Zenon
  <2>5. a + 1 = b /\ a + 2 = b + 1 /\ a + Len(left) = Len(name)
    BY <1>1, <1>4, <2>1
  <2> QED
    BY <1>2, <2>2, <2>3, <2>4, <2>5
<1>8. left # <<>>
  BY <1>5
<1> QED
  BY <1>4, <1>5, <1>6, <1>7, <1>8 DEF left, a

LEMMA BindType ==
    ASSUME NEW t, NEW bindings \in BindingsOf(t), NEW S \in SUBSET Keys(t),
           NEW added \in [S -> Seq(Text)]
    PROVE  Bind(bindings, added) \in BindingsOf(t)
<1>1. PICK D \in SUBSET Keys(t) : bindings \in [D -> Seq(Text)]
  BY DEF BindingsOf
<1>2. DOMAIN bindings = D /\ DOMAIN added = S /\ D \cup S \in SUBSET Keys(t)
  BY <1>1
<1>3. Bind(bindings, added) \in [D \cup S -> Seq(Text)]
  BY <1>1, <1>2 DEF Bind
<1> QED
  BY <1>2, <1>3 DEF BindingsOf

LEMMA MatchSegmentType ==
    ASSUME NEW t, IsTemplate(t), NEW k \in 1 .. Len(t), NEW state \in States(t)
    PROVE  MatchSegment(state, Parsed(t)[k]) \in States(t)
<1> DEFINE segment == Parsed(t)[k]
           after == [ok |-> Agrees(segment, state.left[1]),
                     left |-> IF IsWild(segment) THEN TakeTwo(state.left).left
                              ELSE Tail(state.left),
                     bindings |-> Bind(state.bindings, Taken(segment, state.left))]
<1>1. /\ state.ok \in BOOLEAN /\ state.left \in Seq(Text) /\ state.bindings \in BindingsOf(t)
  BY DEF States
<1>2. IsSegment(segment) /\ NamesOf(segment) \in SUBSET Keys(t)
  BY ParsedSegments, NamesAreKeys DEF IsTemplate
<1>3. CASE ~state.ok \/ state.left = <<>>
  BY <1>3 DEF MatchSegment
<1>4. CASE state.ok /\ state.left # <<>>
  <2>1. MatchSegment(state, segment) = after
    BY <1>4 DEF MatchSegment
  <2>2. Agrees(segment, state.left[1]) \in BOOLEAN
    BY DEF Agrees
  <2>3. TakeTwo(state.left).left \in Seq(Text) /\ Tail(state.left) \in Seq(Text)
    BY <1>1, <1>4, TwoTaken
  <2>4. Bind(state.bindings, Taken(segment, state.left)) \in BindingsOf(t)
    <3>1. Taken(segment, state.left) \in [NamesOf(segment) -> Seq(Text)]
      BY <1>1, <1>2, <1>4, TakenType
    <3> HIDE DEF segment
    <3> QED
      BY <1>1, <1>2, <3>1, BindType
  <2> HIDE DEF segment
  <2>5. after \in States(t)
    BY <2>2, <2>3, <2>4 DEF States
  <2> QED
    BY <2>1, <2>5 DEF segment
<1> QED
  BY <1>1, <1>3, <1>4

(* Matching is a run over the segments.                                     *)
Start(template, name) ==
    [ok |-> \/ Len(name) = Len(template)
            \/ Wildcards(template) > 0 /\ Len(name) = Len(template) + 1,
     left |-> name, bindings |-> <<>>]

MatchingOver(template, name, f) ==
    /\ f \in [0 .. Len(template) -> States(template)] /\ f[0] = Start(template, name)
    /\ \A k \in 1 .. Len(template) : f[k] = MatchSegment(f[k - 1], Parsed(template)[k])

LEMMA MatchingRuns ==
    ASSUME NEW t, IsTemplate(t), NEW name \in Seq(Text)
    PROVE  MatchingOver(t, name, Matching(t, name))
<1> DEFINE n == Len(t)
           V == States(t)
           next(state, k) == MatchSegment(state, Parsed(t)[k])
           step == [k \in 0 + 1 .. n |-> [state \in V |-> next(state, k)]]
           Is(f) == f = [k \in 0 .. n |-> IF k = 0 THEN Start(t, name) ELSE next(f[k - 1], k)]
<1>0. n \in Nat /\ 0 \in Nat /\ 0 =< n
  BY ParsedSegments
<1>1. Start(t, name) \in V
  <2>1. <<>> \in BindingsOf(t)
    <3>1. <<>> \in [{} -> Seq(Text)] /\ {} \in SUBSET Keys(t)
      OBVIOUS
    <3> QED
      BY <3>1 DEF BindingsOf
  <2> QED
    BY <2>1 DEF Start, States
<1>2. \A k \in 1 .. n : \A state \in V : next(state, k) \in V
  BY MatchSegmentType
<1> HIDE DEF n, V, next
<1>3. step \in [0 + 1 .. n -> [V -> V]]
  BY <1>0, <1>2
<1>4. PICK f : Runs(V, Start(t, name), step, f, 0, n)
  <2> HIDE DEF step
  <2> QED
    BY <1>0, <1>1, <1>3, RecursionBetween
<1>5. f \in [0 .. n -> V] /\ f[0] = Start(t, name)
  BY <1>4 DEF Runs
<1>6. ASSUME NEW k \in 1 .. n PROVE f[k] = next(f[k - 1], k)
  <2>1. k \in 0 + 1 .. n /\ k - 1 \in 0 .. n
    BY <1>0
  <2>2. f[k] = step[k][f[k - 1]] /\ f[k - 1] \in V
    BY <1>4, <1>5, <2>1 DEF Runs
  <2> QED
    BY <2>1, <2>2
<1> HIDE DEF step
<1>7. Is(f)
  <2>1. \A k \in 0 .. n : k # 0 => k \in 1 .. n
    BY <1>0
  <2>2. \A k \in 0 .. n : f[k] = IF k = 0 THEN Start(t, name) ELSE next(f[k - 1], k)
    BY <1>5, <1>6, <2>1
  <2> QED
    BY <1>5, <2>2
<1> DEFINE g == CHOOSE f1 : Is(f1)
<1>8. Is(g)
  <2> HIDE DEF Is
  <2> QED
    BY <1>7
<1>9. Matching(t, name) = g
  BY DEF Matching, Start, next, n
<1> HIDE DEF g
<1>10. \A k \in 0 .. n : g[k] = IF k = 0 THEN Start(t, name) ELSE next(g[k - 1], k)
  BY <1>8
<1>11. g[0] = Start(t, name) /\ \A k \in 1 .. n : g[k] = next(g[k - 1], k)
  <2>1. 0 \in 0 .. n /\ \A k \in 1 .. n : k \in 0 .. n /\ k # 0
    BY <1>0
  <2> QED
    BY <1>10, <2>1
<1>12. \A k \in 0 .. n : f[k] = g[k]
  <2>1. \A k \in 0 .. n - 1 : f[k] = g[k] => f[k + 1] = g[k + 1]
    <3> SUFFICES ASSUME NEW k \in 0 .. n - 1, f[k] = g[k] PROVE f[k + 1] = g[k + 1]
      OBVIOUS
    <3>1. k + 1 \in 1 .. n /\ k + 1 - 1 = k
      BY <1>0
    <3>2. f[k + 1] = next(f[k], k + 1) /\ g[k + 1] = next(g[k], k + 1)
      BY <1>6, <1>11, <3>1
    <3> QED
      BY <3>2
  <2> QED
    BY <1>0, <1>5, <1>11, <2>1, SameSteps
<1>13. g \in [0 .. n -> V]
  <2>1. g = [k \in 0 .. n |-> IF k = 0 THEN Start(t, name) ELSE next(g[k - 1], k)]
    BY <1>8
  <2>2. \A k \in 0 .. n : g[k] \in V
    BY <1>5, <1>12
  <2> QED
    BY <2>1, <2>2
<1> QED
  BY <1>9, <1>11, <1>13 DEF MatchingOver, n, V, next

(* What the state is after the k-th segment, of a name that is as long as   *)
(* the template asks for.                                                   *)
MatchedUpto(template, name, k, state) ==
    LET segment(j) == Parsed(template)[j]
        left(j)    == Left(template, name, j - 1)
    IN  /\ state.ok <=> \A j \in 1 .. k : Agrees(segment(j), left(j)[1])
        /\ state.ok =>
              /\ state.left = Left(template, name, k)
              /\ DOMAIN state.bindings = UNION {NamesOf(segment(j)) : j \in 1 .. k}
              /\ \A j \in 1 .. k : \A n \in NamesOf(segment(j)) :
                    state.bindings[n] = Taken(segment(j), left(j))[n]

LEMMA NamesApart ==
    ASSUME NEW t, IsTemplate(t), NEW k \in 1 .. Len(t), NEW l \in 1 .. Len(t), k # l
    PROVE  NamesOf(Parsed(t)[k]) \cap NamesOf(Parsed(t)[l]) = {}
<1> DEFINE P == Parsed(t)
<1>1. DOMAIN t = 1 .. Len(t)
  BY ParsedSegments
<1>2. \A m \in DOMAIN t : DOMAIN P[m].variables = 1 .. Len(P[m].variables)
  BY DEF IsTemplate, IsSegment
<1>3. \A i \in DOMAIN P[k].variables : \A j \in DOMAIN P[l].variables :
         P[k].variables[i].name # P[l].variables[j].name
  BY <1>1 DEF IsTemplate
<1> HIDE DEF P
<1>4. NamesOf(P[k]) \cap NamesOf(P[l]) = {}
  BY <1>1, <1>2, <1>3 DEF NamesOf
<1> QED
  BY <1>4 DEF P

LEMMA MatchIs ==
    ASSUME NEW t, IsTemplate(t), CanParse(t), NEW name \in Seq(Text),
           Len(name) = Before(t)[Len(t)]
    PROVE  MatchedUpto(t, name, Len(t), Match(t, name))
<1> DEFINE n == Len(t)
           run == Matching(t, name)
           segment(j) == Parsed(t)[j]
           left(j) == Left(t, name, j - 1)
           Good == {k \in Nat : k =< n => MatchedUpto(t, name, k, run[k])}
<1>0. n \in Nat /\ MatchingOver(t, name, run)
  BY ParsedSegments, MatchingRuns
<1>1. 0 \in Good
  <2>1. run[0] = Start(t, name)
    BY <1>0 DEF MatchingOver
  <2>2. Start(t, name).ok
    <3>1. Len(name) = n + Wildcards(t)
      BY WidthsAddUp
    <3>2. Wildcards(t) \in Nat /\ Wildcards(t) =< 1
      <4>1. IsFiniteSet({k \in DOMAIN t : IsWild(t[k])})
        <5>1. DOMAIN t = 1 .. n
          BY ParsedSegments
        <5>2. IsFiniteSet(1 .. n)
          BY <1>0, FS_Interval
        <5> QED
          BY <5>1, <5>2, FS_Subset
      <4> QED
        BY <4>1, FS_CardinalityType DEF CanParse, Wildcards
    <3> QED
      BY <1>0, <3>1, <3>2 DEF Start
  <2>3. Start(t, name).left = Left(t, name, 0)
    <3>1. Before(t)[0] = 0
      BY WidthsAddUp
    <3> QED
      BY <3>1 DEF Start, Left
  <2>4. DOMAIN Start(t, name).bindings = {}
    BY DEF Start
  <2>5. \A j \in 1 .. 0 : FALSE
    OBVIOUS
  <2>6. MatchedUpto(t, name, 0, run[0])
    BY <2>1, <2>2, <2>3, <2>4, <2>5 DEF MatchedUpto
  <2> QED
    BY <2>6
<1>2. ASSUME NEW k \in Nat, k \in Good PROVE k + 1 \in Good
  <2> SUFFICES ASSUME k + 1 =< n PROVE MatchedUpto(t, name, k + 1, run[k + 1])
    OBVIOUS
  <2> DEFINE s == segment(k + 1)
             l == left(k + 1)
             state == run[k]
  <2>1. /\ k + 1 \in 1 .. n /\ k \in 0 .. n /\ k + 1 - 1 = k /\ MatchedUpto(t, name, k, state)
        /\ \A j \in 1 .. k + 1 : j \in 1 .. k \/ j = k + 1
        /\ \A j \in 1 .. k : j \in 1 .. n /\ j \in 1 .. k + 1 /\ j # k + 1
    BY <1>0, <1>2
  <2>2. run[k + 1] = MatchSegment(state, s) /\ state \in States(t)
    BY <1>0, <2>1 DEF MatchingOver
  <2>3. /\ l = Left(t, name, k) /\ l # <<>>
        /\ IsWild(s) => TakeTwo(l).left = Left(t, name, k + 1)
        /\ ~IsWild(s) => Tail(l) = Left(t, name, k + 1)
    <3> DEFINE m == k + 1
    <3>1. m \in 1 .. n /\ m - 1 = k
      BY <2>1
    <3> HIDE DEF m
    <3>2. /\ left(m) # <<>>
          /\ IsWild(segment(m)) => TakeTwo(left(m)).left = Left(t, name, m)
          /\ ~IsWild(segment(m)) => Tail(left(m)) = Left(t, name, m)
      BY <3>1, LeftIs
    <3>3. left(m) = Left(t, name, k)
      BY <3>1
    <3> HIDE DEF left, segment
    <3> QED
      BY <3>2, <3>3 DEF m
  <2>4. /\ state.ok <=> \A j \in 1 .. k : Agrees(segment(j), left(j)[1])
        /\ state.ok =>
              /\ state.left = l
              /\ DOMAIN state.bindings = UNION {NamesOf(segment(j)) : j \in 1 .. k}
              /\ \A j \in 1 .. k : \A x \in NamesOf(segment(j)) :
                    state.bindings[x] = Taken(segment(j), left(j))[x]
    BY <2>1, <2>3 DEF MatchedUpto
  <2>5. IsSegment(s)
    BY <2>1, ParsedSegments DEF IsTemplate
  <2>6. \A j \in 1 .. k : NamesOf(segment(j)) \cap NamesOf(s) = {}
    BY <2>1, NamesApart
  <2> DEFINE next == MatchSegment(state, s)
  <2> HIDE DEF segment, left, s, l, state
  <2>7. CASE ~state.ok
    <3>1. next = state
      BY <2>7 DEF MatchSegment
    <3>2. ~\A j \in 1 .. k + 1 : Agrees(segment(j), left(j)[1])
      BY <2>1, <2>4, <2>7
    <3> HIDE DEF next
    <3> QED
      BY <2>2, <2>7, <3>1, <3>2 DEF MatchedUpto, segment, left, next
  <2>8. CASE state.ok
    <3> DEFINE new == Taken(s, l)
               bound == Bind(state.bindings, new)
    <3>1. /\ next.ok = Agrees(s, l[1])
          /\ next.left = Left(t, name, k + 1)
          /\ next.bindings = bound
      <4>1. state.left = l /\ state.left # <<>>
        BY <2>3, <2>4, <2>8
      <4>2. next = [ok |-> Agrees(s, l[1]),
                    left |-> IF IsWild(s) THEN TakeTwo(l).left ELSE Tail(l),
                    bindings |-> bound]
        BY <2>8, <4>1 DEF MatchSegment
      <4>3. (IF IsWild(s) THEN TakeTwo(l).left ELSE Tail(l)) = Left(t, name, k + 1)
        BY <2>3
      <4> HIDE DEF next, bound
      <4> QED
        BY <4>2, <4>3
    <3>2. DOMAIN new = NamesOf(s)
      BY <2>5, TakenIs
    <3> HIDE DEF new
    <3>3. /\ DOMAIN bound = DOMAIN state.bindings \cup NamesOf(s)
          /\ \A x \in NamesOf(s) : bound[x] = new[x]
          /\ \A x \in DOMAIN state.bindings : x \notin NamesOf(s) => bound[x] = state.bindings[x]
      BY <3>2 DEF Bind
    <3> HIDE DEF bound, next
    <3>4. s = segment(k + 1) /\ l = left(k + 1)
      BY DEF s, l
    <3>5. next.ok <=> \A j \in 1 .. k + 1 : Agrees(segment(j), left(j)[1])
      <4>1. \A j \in 1 .. k : Agrees(segment(j), left(j)[1])
        BY <2>4, <2>8
      <4>2. k + 1 \in 1 .. k + 1
        OBVIOUS
      <4>3. next.ok <=> Agrees(segment(k + 1), left(k + 1)[1])
        BY <3>1, <3>4
      <4> QED
        BY <2>1, <4>1, <4>2, <4>3
    <3>6. DOMAIN next.bindings = UNION {NamesOf(segment(j)) : j \in 1 .. k + 1}
      <4>1. k + 1 \in 1 .. k + 1
        OBVIOUS
      <4>2. DOMAIN next.bindings =
               (UNION {NamesOf(segment(j)) : j \in 1 .. k}) \cup NamesOf(segment(k + 1))
        BY <2>4, <2>8, <3>1, <3>3, <3>4
      <4> QED
        BY <2>1, <4>1, <4>2
    <3>7. ASSUME NEW j \in 1 .. k + 1, NEW x \in NamesOf(segment(j))
          PROVE  next.bindings[x] = Taken(segment(j), left(j))[x]
      <4>1. CASE j = k + 1
        BY <3>1, <3>3, <3>4, <4>1 DEF new
      <4>2. CASE j \in 1 .. k
        <5>1. x \in DOMAIN state.bindings /\ x \notin NamesOf(s)
              /\ state.bindings[x] = Taken(segment(j), left(j))[x]
          BY <2>4, <2>6, <2>8, <4>2
        <5> QED
          BY <3>1, <3>3, <5>1
      <4> QED
        BY <2>1, <4>1, <4>2
    <3>8. MatchedUpto(t, name, k + 1, next)
      BY <3>1, <3>5, <3>6, <3>7 DEF MatchedUpto, segment, left
    <3> QED
      BY <2>2, <3>8 DEF next
  <2>9. state.ok \in BOOLEAN
    BY <2>2 DEF States
  <2> QED
    BY <2>7, <2>8, <2>9
<1> HIDE DEF Good
<1>3. Nat \subseteq Good
  BY <1>1, <1>2, Induction
<1>4. n \in Good
  BY <1>0, <1>3
<1> QED
  BY <1>0, <1>4 DEF Good, Match

-----------------------------------------------------------------------------
(* render(), segment by segment.                                            *)

(* What a segment with several variables is made of.                        *)
Made(segment, bindings) ==
    [i \in 1 .. 2 * Len(segment.variables) - 1 |->
        IF i % 2 = 1 THEN bindings[segment.variables[(i + 1) \div 2].name][1]
        ELSE segment.separators[i \div 2]]

LEMMA RenderedIs ==
    ASSUME NEW segment, IsSegment(segment), NEW b
    PROVE  LET count == Len(segment.variables) IN
           /\ count = 0 => RenderSegment(segment, b) = <<segment.text>>
           /\ count = 1 => RenderSegment(segment, b) = b[segment.variables[1].name]
           /\ count > 1 => RenderSegment(segment, b) = <<JoinSegment(Made(segment, b))>>
<1> DEFINE vs == segment.variables
           count == Len(vs)
           values == [i \in DOMAIN vs |-> b[vs[i].name]]
           firsts == [i \in DOMAIN values |-> values[i][1]]
           joined == JoinSegment(Separated(firsts, segment.separators))
<1>1. count \in Nat /\ DOMAIN vs = 1 .. count /\ (vs = <<>> <=> count = 0)
  BY DEF IsSegment
<1>2. DOMAIN values = 1 .. count /\ Len(values) = count
  BY <1>1
<1>3. DOMAIN firsts = 1 .. count /\ Len(firsts) = count
  BY <1>1, <1>2
<1>4. RenderSegment(segment, b) =
         CASE vs = <<>> -> <<segment.text>>
           [] Len(values) = 1 -> values[1]
           [] Len(values) > 1 -> <<joined>>
  BY DEF RenderSegment
<1>5. ASSUME count > 1 PROVE Separated(firsts, segment.separators) = Made(segment, b)
  <2>1. Len(segment.separators) = count - 1
    BY <1>5 DEF IsSegment
  <2>2. Len(firsts) + Len(segment.separators) = 2 * count - 1
    BY <1>1, <1>3, <2>1
  <2>3. \A i \in 1 .. 2 * count - 1 : i % 2 = 1 => (i + 1) \div 2 \in 1 .. count
    BY <1>1
  <2>4. \A j \in 1 .. count : firsts[j] = b[vs[j].name][1]
    BY <1>1
  <2> HIDE DEF firsts, values, count, vs
  <2>5. Separated(firsts, segment.separators) =
           [i \in 1 .. 2 * count - 1 |->
              IF i % 2 = 1 THEN firsts[(i + 1) \div 2] ELSE segment.separators[i \div 2]]
    BY <2>2 DEF Separated
  <2>6. Separated(firsts, segment.separators) =
           [i \in 1 .. 2 * count - 1 |->
              IF i % 2 = 1 THEN b[vs[(i + 1) \div 2].name][1] ELSE segment.separators[i \div 2]]
    BY <2>3, <2>4, <2>5
  <2> QED
    BY <2>6 DEF Made, count, vs
<1>6. count = 1 => values[1] = b[vs[1].name]
  BY <1>1
<1> HIDE DEF values, firsts, vs, count
<1>7. count = 0 => RenderSegment(segment, b) = <<segment.text>>
  BY <1>1, <1>2, <1>4
<1>8. count = 1 => RenderSegment(segment, b) = b[vs[1].name]
  BY <1>1, <1>2, <1>4, <1>6
<1>9. count > 1 => RenderSegment(segment, b) = <<JoinSegment(Made(segment, b))>>
  <2> SUFFICES ASSUME count > 1
               PROVE  RenderSegment(segment, b) = <<JoinSegment(Made(segment, b))>>
    OBVIOUS
  <2>1. vs # <<>> /\ Len(values) # 1 /\ Len(values) > 1
    BY <1>1, <1>2
  <2>2. RenderSegment(segment, b) = <<joined>>
    BY <1>4, <2>1
  <2> QED
    BY <1>5, <2>2
<1> QED
  BY <1>7, <1>8, <1>9 DEF count, vs

(* A segment that is known by what it is made of.                           *)
LEMMA JoinedIs ==
    ASSUME NEW parts
    PROVE  /\ JoinSegment(parts) \in Text
           /\ JoinSegment(parts) # "other" => PartsOf(JoinSegment(parts)) = parts
           /\ \A s \in DOMAIN Compounds : Compounds[s] = parts => JoinSegment(parts) = s
<1> DEFINE compounds == {s \in DOMAIN Compounds : Compounds[s] = parts}
           chosen == CHOOSE s \in compounds : TRUE
<1>1. JoinSegment(parts) = IF compounds = {} THEN "other" ELSE chosen
  BY DEF JoinSegment
<1>2. "other" \in Text /\ DOMAIN Compounds \subseteq Text
  BY CompoundsAssumption DEF Text
<1>3. compounds # {} => chosen \in compounds
  OBVIOUS
<1>4. \A s \in compounds : s \in DOMAIN Compounds /\ Compounds[s] = parts
  OBVIOUS
<1> HIDE DEF chosen
<1>5. \A s, u \in compounds : s = u
  BY CompoundsAssumption
<1>6. \A s \in DOMAIN Compounds : Compounds[s] = parts => s \in compounds
  OBVIOUS
<1> HIDE DEF compounds
<1>7. CASE compounds = {}
  BY <1>1, <1>2, <1>6, <1>7
<1>8. CASE compounds # {}
  <2>1. JoinSegment(parts) = chosen /\ chosen \in DOMAIN Compounds /\ Compounds[chosen] = parts
    BY <1>1, <1>3, <1>4, <1>8
  <2>2. PartsOf(chosen) = parts
    BY <2>1 DEF PartsOf
  <2> QED
    BY <1>2, <1>3, <1>5, <1>6, <1>8, <2>1, <2>2
<1> QED
  BY <1>7, <1>8

(* What of a name stands for a segment: rendered from the values that are   *)
(* taken from it, and the other way round.                                  *)
PieceOf(segment, left) == IF IsWild(segment) THEN TakeTwo(left).value ELSE <<left[1]>>

Distinct(segment) ==
    \A i, j \in 1 .. Len(segment.variables) :
        segment.variables[i].name = segment.variables[j].name => i = j

LEMMA MadeParts ==
    ASSUME NEW segment, IsSegment(segment), NEW b
    PROVE  LET count == Len(segment.variables) IN
           count > 1 =>
              /\ Len(Made(segment, b)) = 2 * count - 1
              /\ \A i \in DOMAIN segment.separators :
                    Made(segment, b)[2 * i] = segment.separators[i]
              /\ \A i \in 1 .. count :
                    Made(segment, b)[2 * i - 1] = b[segment.variables[i].name][1]
<1> DEFINE count == Len(segment.variables)
<1> SUFFICES ASSUME count > 1
             PROVE  /\ Len(Made(segment, b)) = 2 * count - 1
                    /\ \A i \in DOMAIN segment.separators :
                          Made(segment, b)[2 * i] = segment.separators[i]
                    /\ \A i \in 1 .. count :
                          Made(segment, b)[2 * i - 1] = b[segment.variables[i].name][1]
  OBVIOUS
<1>1. count \in Nat /\ DOMAIN segment.separators = 1 .. count - 1
  BY DEF IsSegment
<1>2. \A i \in 1 .. count - 1 : 2 * i \in 1 .. 2 * count - 1 /\ (2 * i) % 2 = 0 /\ (2 * i) \div 2 = i
  BY <1>1
<1>3. \A i \in 1 .. count : /\ 2 * i - 1 \in 1 .. 2 * count - 1 /\ (2 * i - 1) % 2 = 1
                            /\ (2 * i - 1 + 1) \div 2 = i
  BY <1>1
<1>4. 2 * count - 1 \in Nat
  BY <1>1
<1>5. Made(segment, b) =
        [i \in 1 .. 2 * count - 1 |->
            IF i % 2 = 1 THEN b[segment.variables[(i + 1) \div 2].name][1]
            ELSE segment.separators[i \div 2]]
  BY DEF Made
<1> HIDE DEF count
<1>6. Len(Made(segment, b)) = 2 * count - 1
  BY <1>4, <1>5
<1>7. \A i \in 1 .. count - 1 : Made(segment, b)[2 * i] = segment.separators[i]
  <2> SUFFICES ASSUME NEW i \in 1 .. count - 1
               PROVE  Made(segment, b)[2 * i] = segment.separators[i]
    OBVIOUS
  <2> DEFINE k == 2 * i
  <2>1. k \in 1 .. 2 * count - 1 /\ k % 2 # 1 /\ k \div 2 = i
    BY <1>2
  <2> HIDE DEF k
  <2>2. Made(segment, b)[k] = segment.separators[i]
    BY <1>5, <2>1
  <2> QED
    BY <2>2 DEF k
<1>8. \A i \in 1 .. count :
         Made(segment, b)[2 * i - 1] = b[segment.variables[i].name][1]
  <2> SUFFICES ASSUME NEW i \in 1 .. count
               PROVE  Made(segment, b)[2 * i - 1] = b[segment.variables[i].name][1]
    OBVIOUS
  <2> DEFINE k == 2 * i - 1
  <2>1. k \in 1 .. 2 * count - 1 /\ k % 2 = 1 /\ (k + 1) \div 2 = i
    BY <1>3
  <2> HIDE DEF k
  <2>2. Made(segment, b)[k] = b[segment.variables[i].name][1]
    BY <1>5, <2>1
  <2> QED
    BY <2>2 DEF k
<1> QED
  BY <1>1, <1>6, <1>7, <1>8

LEMMA SegmentReadsBack ==
    ASSUME NEW segment, IsSegment(segment), NEW left, left[1] # "other", NEW b,
           \A n \in NamesOf(segment) : b[n] \in Seq(Text),
           Len(segment.variables) > 1 => \A n \in NamesOf(segment) : Len(b[n]) = 1,
           RenderSegment(segment, b) = PieceOf(segment, left)
    PROVE  /\ Agrees(segment, left[1])
           /\ \A n \in NamesOf(segment) : Taken(segment, left)[n] = b[n]
<1> DEFINE count == Len(segment.variables)
           parts == PartsOf(left[1])
           vs == segment.variables
<1>1. count \in Nat /\ DOMAIN segment.separators \subseteq Int
  BY DEF IsSegment
<1>2. /\ count = 0 => RenderSegment(segment, b) = <<segment.text>>
      /\ count = 1 => RenderSegment(segment, b) = b[vs[1].name]
      /\ count > 1 => RenderSegment(segment, b) = <<JoinSegment(Made(segment, b))>>
  BY RenderedIs
<1>3. Agrees(segment, left[1]) <=>
        /\ count = 0 => segment.text = left[1]
        /\ count > 1 => /\ Len(parts) = 2 * count - 1
                        /\ \A i \in DOMAIN segment.separators :
                              parts[2 * i] = segment.separators[i]
  BY DEF Agrees
<1>4. \A n \in NamesOf(segment) : \E i \in 1 .. count :
         vs[i].name = n /\ Taken(segment, left)[n] = TakenBy(segment, left, i)
  BY TakenIs
<1>5. \A i \in 1 .. count : TakenBy(segment, left, i) =
         IF IsWild(segment) THEN TakeTwo(left).value
         ELSE IF count = 1 THEN <<left[1]>>
         ELSE IF 2 * i - 1 =< Len(parts) THEN <<parts[2 * i - 1]>> ELSE <<>>
  BY DEF TakenBy
<1>6. /\ IsWild(segment) => PieceOf(segment, left) = TakeTwo(left).value
      /\ ~IsWild(segment) => PieceOf(segment, left) = <<left[1]>>
  BY DEF PieceOf
<1>7. count # 1 => ~IsWild(segment)
  <2>1. IsWild(segment) => vs # <<>> /\ vs[1].pattern = "**"
    BY DEF IsWild
  <2>2. vs # <<>> => count > 0 /\ vs[1] \in ToSet(vs)
    BY DEF IsSegment, ToSet
  <2>3. count > 1 => \A v \in ToSet(vs) : v.pattern = "*"
    BY DEF IsSegment
  <2> HIDE DEF vs, count
  <2> QED
    BY <1>1, <2>1, <2>2, <2>3
<1>8. \A i \in 1 .. count : vs[i].name \in NamesOf(segment)
  BY DEF NamesOf
<1>9. count > 1 =>
         /\ Len(Made(segment, b)) = 2 * count - 1
         /\ \A i \in DOMAIN segment.separators : Made(segment, b)[2 * i] = segment.separators[i]
         /\ \A i \in 1 .. count : Made(segment, b)[2 * i - 1] = b[vs[i].name][1]
  BY MadeParts
<1> HIDE DEF count, parts, vs
<1>10. CASE count = 0
  <2>1. <<segment.text>> = <<left[1]>>
    BY <1>2, <1>6, <1>7, <1>10
  <2>2. segment.text = left[1]
    BY <2>1
  <2> QED
    BY <1>3, <1>4, <1>10, <2>2
<1>11. CASE count = 1
  <2>1. \A i \in 1 .. count : i = 1 /\ TakenBy(segment, left, i) = PieceOf(segment, left)
    BY <1>5, <1>6, <1>11
  <2>2. Agrees(segment, left[1])
    BY <1>3, <1>11
  <2> QED
    BY <1>2, <1>4, <1>11, <2>1, <2>2
<1>12. CASE count > 1
  <2>1. <<JoinSegment(Made(segment, b))>> = <<left[1]>>
    BY <1>2, <1>6, <1>7, <1>12
  <2>2. JoinSegment(Made(segment, b)) = left[1]
    BY <2>1
  <2>3. parts = Made(segment, b)
    BY <2>2, JoinedIs DEF parts
  <2>4. Agrees(segment, left[1])
    BY <1>3, <1>9, <1>12, <2>3
  <2>5. ASSUME NEW n \in NamesOf(segment) PROVE Taken(segment, left)[n] = b[n]
    <3>1. PICK i \in 1 .. count :
             vs[i].name = n /\ Taken(segment, left)[n] = TakenBy(segment, left, i)
      BY <1>4
    <3>2. 2 * i - 1 =< Len(parts) /\ parts[2 * i - 1] = b[n][1]
      BY <1>1, <1>9, <1>12, <2>3, <3>1
    <3>3. TakenBy(segment, left, i) = <<parts[2 * i - 1]>>
      BY <1>5, <1>7, <1>12, <3>2
    <3>4. b[n] = <<b[n][1]>>
      <4>1. b[n] \in Seq(Text) /\ Len(b[n]) = 1
        BY <1>12 DEF count
      <4> QED
        BY <4>1
    <3> QED
      BY <3>1, <3>2, <3>3, <3>4
  <2> QED
    BY <2>4, <2>5
<1> QED
  BY <1>1, <1>10, <1>11, <1>12

LEMMA SegmentRendersBack ==
    ASSUME NEW segment, IsSegment(segment), Distinct(segment), NEW left \in Seq(Text),
           left # <<>>, Agrees(segment, left[1]), NEW b,
           \A n \in NamesOf(segment) : b[n] = Taken(segment, left)[n]
    PROVE  /\ RenderSegment(segment, b) = PieceOf(segment, left)
           /\ \A i \in 1 .. Len(segment.variables) :
                 LET value == b[segment.variables[i].name] IN
                 /\ IsWild(segment) => value = TakeTwo(left).value
                 /\ ~IsWild(segment) /\ "" \notin ToSet(PartsOf(left[1])) =>
                       1 \in DOMAIN value /\ value[1] # ""
<1> DEFINE count == Len(segment.variables)
           parts == PartsOf(left[1])
           vs == segment.variables
<1>1. count \in Nat /\ left[1] \in Text
  BY DEF IsSegment
<1>2. /\ count = 0 => RenderSegment(segment, b) = <<segment.text>>
      /\ count = 1 => RenderSegment(segment, b) = b[vs[1].name]
      /\ count > 1 => RenderSegment(segment, b) = <<JoinSegment(Made(segment, b))>>
  BY RenderedIs
<1>3. /\ count = 0 => segment.text = left[1]
      /\ count > 1 => /\ Len(parts) = 2 * count - 1
                      /\ \A i \in DOMAIN segment.separators :
                            parts[2 * i] = segment.separators[i]
  BY DEF Agrees
<1>4. \A n \in NamesOf(segment) : \E i \in 1 .. count :
         vs[i].name = n /\ b[n] = TakenBy(segment, left, i)
  BY TakenIs
<1>5. \A i \in 1 .. count : vs[i].name \in NamesOf(segment)
  BY DEF NamesOf
<1>6. \A i \in 1 .. count : b[vs[i].name] = TakenBy(segment, left, i)
  BY <1>4, <1>5 DEF Distinct
<1>7. \A i \in 1 .. count : TakenBy(segment, left, i) =
         IF IsWild(segment) THEN TakeTwo(left).value
         ELSE IF count = 1 THEN <<left[1]>>
         ELSE IF 2 * i - 1 =< Len(parts) THEN <<parts[2 * i - 1]>> ELSE <<>>
  BY DEF TakenBy
<1>8. /\ IsWild(segment) => PieceOf(segment, left) = TakeTwo(left).value
      /\ ~IsWild(segment) => PieceOf(segment, left) = <<left[1]>>
  BY DEF PieceOf
<1>9. count # 1 => ~IsWild(segment)
  <2>1. IsWild(segment) => vs # <<>> /\ vs[1].pattern = "**"
    BY DEF IsWild
  <2>2. vs # <<>> => count > 0 /\ vs[1] \in ToSet(vs)
    BY DEF IsSegment, ToSet
  <2>3. count > 1 => \A v \in ToSet(vs) : v.pattern = "*"
    BY DEF IsSegment
  <2> HIDE DEF vs, count
  <2> QED
    BY <1>1, <2>1, <2>2, <2>3
<1>10. count > 1 =>
         /\ Len(Made(segment, b)) = 2 * count - 1
         /\ \A i \in DOMAIN segment.separators : Made(segment, b)[2 * i] = segment.separators[i]
         /\ \A i \in 1 .. count : Made(segment, b)[2 * i - 1] = b[vs[i].name][1]
  BY MadeParts
<1>11. /\ parts \in Seq(Text)
       /\ parts # <<left[1]>> => left[1] \in DOMAIN Compounds /\ Compounds[left[1]] = parts
  BY <1>1, PartsType DEF PartsOf
<1>12. left[1] = "" => parts = <<"">>
  BY CompoundsAssumption DEF PartsOf
<1>13. DOMAIN segment.separators = 1 .. Len(segment.separators)
       /\ (count > 1 => Len(segment.separators) = count - 1)
  BY DEF IsSegment
<1> DEFINE good(value) == 1 \in DOMAIN value /\ value[1] # ""
<1> HIDE DEF count, parts, vs
<1>14. CASE count = 0
  <2>1. RenderSegment(segment, b) = PieceOf(segment, left)
    BY <1>2, <1>3, <1>8, <1>9, <1>14
  <2> QED
    BY <1>14, <2>1 DEF count
<1>15. CASE count = 1
  <2>1. 1 \in 1 .. count /\ TakenBy(segment, left, 1) = PieceOf(segment, left)
    BY <1>7, <1>8, <1>15
  <2>2. b[vs[1].name] = PieceOf(segment, left)
    BY <1>6, <2>1
  <2>3. ASSUME ~IsWild(segment), "" \notin ToSet(parts) PROVE good(PieceOf(segment, left))
    <3>1. PieceOf(segment, left) = <<left[1]>>
      BY <1>8, <2>3
    <3>2. left[1] # ""
      BY <1>12, <2>3, OneLong
    <3> QED
      BY <3>1, <3>2, OneLong
  <2>4. \A i \in 1 .. count : i = 1
    BY <1>15
  <2> HIDE DEF good
  <2>5. /\ RenderSegment(segment, b) = PieceOf(segment, left)
        /\ \A i \in 1 .. count :
              /\ IsWild(segment) => b[vs[i].name] = TakeTwo(left).value
              /\ ~IsWild(segment) /\ "" \notin ToSet(parts) => good(b[vs[i].name])
    BY <1>2, <1>8, <1>15, <2>2, <2>3, <2>4
  <2> QED
    BY <2>5 DEF good, count, parts, vs
<1>16. CASE count > 1
  <2>1. ASSUME NEW i \in 1 .. count
        PROVE  2 * i - 1 \in 1 .. Len(parts) /\ b[vs[i].name] = <<parts[2 * i - 1]>>
    <3>1. 2 * i - 1 \in 1 .. Len(parts)
      BY <1>1, <1>3, <1>16
    <3>2. TakenBy(segment, left, i) = <<parts[2 * i - 1]>>
      BY <1>7, <1>9, <1>16, <3>1
    <3> QED
      BY <1>6, <3>1, <3>2
  <2>2. Made(segment, b) = parts
    <3> DEFINE made == Made(segment, b)
    <3>1. Len(made) = 2 * count - 1 /\ 2 * count - 1 \in Nat /\ Len(parts) = 2 * count - 1
      BY <1>1, <1>3, <1>10, <1>16
    <3>2. made = [k \in 1 .. 2 * count - 1 |-> made[k]]
      BY DEF Made, count
    <3>3. ASSUME NEW k \in 1 .. 2 * count - 1 PROVE made[k] = parts[k]
      <4>1. CASE k % 2 = 1
        <5>1. PICK i \in 1 .. count : k = 2 * i - 1
          <6>1. (k + 1) \div 2 \in 1 .. count /\ k = 2 * ((k + 1) \div 2) - 1
            BY <1>1, <4>1
          <6> QED
            BY <6>1
        <5>2. made[k] = b[vs[i].name][1]
          BY <1>10, <1>16, <5>1
        <5> QED
          BY <2>1, <5>1, <5>2
      <4>2. CASE k % 2 # 1
        <5>1. PICK i \in 1 .. count - 1 : k = 2 * i
          <6>1. k \div 2 \in 1 .. count - 1 /\ k = 2 * (k \div 2)
            BY <1>1, <4>2
          <6> QED
            BY <6>1
        <5>2. i \in DOMAIN segment.separators
          BY <1>13, <1>16, <5>1
        <5> QED
          BY <1>3, <1>10, <1>16, <5>1, <5>2
      <4> QED
        BY <4>1, <4>2
    <3> HIDE DEF made
    <3>4. made \in [1 .. 2 * count - 1 -> Text]
      BY <1>11, <3>1, <3>2, <3>3
    <3>5. made \in Seq(Text)
      BY <3>1, <3>4
    <3>6. made = parts
      BY <1>11, <3>1, <3>3, <3>5, SeqEqual
    <3> QED
      BY <3>6 DEF made
  <2>3. left[1] \in DOMAIN Compounds /\ Compounds[left[1]] = parts
    <3> DEFINE m == Len(parts)
    <3>1. m # 1
      <4>1. Len(parts) = 2 * count - 1
        BY <1>3, <1>16
      <4>2. 2 * count - 1 # 1
        BY <1>1, <1>16
      <4> QED
        BY ONLY <4>1, <4>2, Zenon
    <3>2. parts # <<left[1]>>
      <4>1. Len(<<left[1]>>) = 1
        BY OneLong
      <4> QED
        BY ONLY <3>1, <4>1, Zenon
    <3> QED
      BY <1>11, <3>2
  <2>4. JoinSegment(Made(segment, b)) = left[1]
    BY <2>2, <2>3, JoinedIs
  <2>5. RenderSegment(segment, b) = PieceOf(segment, left)
    BY <1>2, <1>8, <1>9, <1>16, <2>4
  <2>6. ASSUME NEW i \in 1 .. count, "" \notin ToSet(parts) PROVE good(b[vs[i].name])
    <3>1. 2 * i - 1 \in DOMAIN parts
      BY <1>11, <2>1
    <3>2. parts[2 * i - 1] # ""
      BY <2>6, <3>1 DEF ToSet
    <3> QED
      BY <2>1, <3>2, OneLong
  <2> HIDE DEF good
  <2>7. /\ RenderSegment(segment, b) = PieceOf(segment, left)
        /\ \A i \in 1 .. count :
              /\ IsWild(segment) => b[vs[i].name] = TakeTwo(left).value
              /\ ~IsWild(segment) /\ "" \notin ToSet(parts) => good(b[vs[i].name])
    <3>1. ~IsWild(segment)
      BY <1>9, <1>16
    <3> QED
      BY ONLY <2>5, <2>6, <3>1, Zenon
  <2> QED
    BY <2>7 DEF good, count, parts, vs
<1>17. count = 0 \/ count = 1 \/ count > 1
  BY <1>1
<1> QED
  BY ONLY <1>14, <1>15, <1>16, <1>17, Zenon

-----------------------------------------------------------------------------
(* A name and the values of its variables.                                  *)

(* Rendering is a name if its pieces are what the segments render.          *)
LEMMA RenderedPieces ==
    ASSUME NEW t, IsTemplate(t), CanParse(t), NEW name \in Seq(Text), NEW b,
           \A k \in 1 .. Len(t) : /\ RenderSegment(Parsed(t)[k], b) \in Seq(Text)
                                  /\ Len(RenderSegment(Parsed(t)[k], b)) = Width(Parsed(t)[k])
    PROVE  Render(t, b) = name <=>
              /\ Len(name) = Before(t)[Len(t)]
              /\ \A k \in 1 .. Len(t) :
                    RenderSegment(Parsed(t)[k], b) = Piece(name, Before(t), k)
<1> DEFINE n == Len(t)
           P == Parsed(t)
           ss == [k \in DOMAIN P |-> RenderSegment(P[k], b)]
           at == Before(t)
<1>1. n \in Nat /\ DOMAIN P = 1 .. n
  BY ParsedSegments
<1>2. Render(t, b) = FlattenSeq(ss)
  BY DEF Render
<1>3. /\ at \in [0 .. n -> Nat] /\ at[0] = 0
      /\ \A k \in 1 .. n : at[k] = at[k - 1] + Width(P[k])
  BY WidthsAddUp
<1>4. \A k \in 1 .. n : /\ RenderSegment(P[k], b) \in Seq(Text)
                        /\ Len(RenderSegment(P[k], b)) = Width(P[k])
  OBVIOUS
<1> HIDE DEF P, n, at
<1>5. ss \in Seq(Seq(Text)) /\ Len(ss) = n /\ \A k \in 1 .. n : ss[k] = RenderSegment(P[k], b)
  BY <1>1, <1>4
<1> HIDE DEF ss
<1>6. EndsAt(ss, at)
  BY <1>3, <1>4, <1>5 DEF EndsAt
<1>7. FlattenSeq(ss) = name <=>
         Len(name) = at[Len(ss)] /\ \A k \in 1 .. Len(ss) : ss[k] = Piece(name, at, k)
  <2>1. name \in Seq(Text)
    OBVIOUS
  <2> QED
    BY ONLY <1>5, <1>6, <2>1, ConcatenatedPieces
<1> QED
  BY <1>2, <1>5, <1>7 DEF P, n, at

(* What the values of a template's variables are like, to be rendered into  *)
(* as many segments as the template takes.                                  *)
LEMMA RenderedWidth ==
    ASSUME NEW segment, IsSegment(segment), NEW b,
           \A n \in NamesOf(segment) : b[n] \in Seq(Text),
           \A v \in ToSet(segment.variables) :
              Len(b[v.name]) = IF v.pattern = "**" THEN 2 ELSE 1
    PROVE  /\ RenderSegment(segment, b) \in Seq(Text)
           /\ Len(RenderSegment(segment, b)) = Width(segment)
           /\ Len(segment.variables) > 1 => \A n \in NamesOf(segment) : Len(b[n]) = 1
<1> DEFINE count == Len(segment.variables)
           vs == segment.variables
<1>1. count \in Nat /\ DOMAIN vs = 1 .. count /\ (vs = <<>> <=> count = 0)
  BY DEF IsSegment
<1>2. /\ count = 0 => RenderSegment(segment, b) = <<segment.text>>
      /\ count = 1 => RenderSegment(segment, b) = b[vs[1].name]
      /\ count > 1 => RenderSegment(segment, b) = <<JoinSegment(Made(segment, b))>>
  BY RenderedIs
<1>3. /\ segment.text \in Text
      /\ count > 1 => \A v \in ToSet(vs) : v.pattern = "*"
  BY DEF IsSegment, Text
<1>4. \A i \in 1 .. count : vs[i] \in ToSet(vs) /\ vs[i].name \in NamesOf(segment)
  BY <1>1 DEF ToSet, NamesOf
<1>5. \A n \in NamesOf(segment) : \E i \in 1 .. count : n = vs[i].name
  BY DEF NamesOf
<1>6. IsWild(segment) <=> vs # <<>> /\ vs[1].pattern = "**"
  BY DEF IsWild
<1>7. Width(segment) = IF IsWild(segment) THEN 2 ELSE 1
  BY DEF Width
<1>8. \A v \in ToSet(vs) : Len(b[v.name]) = IF v.pattern = "**" THEN 2 ELSE 1
  OBVIOUS
<1> HIDE DEF count, vs
<1>9. CASE count = 0
  <2>1. ~IsWild(segment) /\ RenderSegment(segment, b) = <<segment.text>>
    BY <1>1, <1>2, <1>6, <1>9
  <2>2. Len(<<segment.text>>) = 1 /\ <<segment.text>> \in Seq(Text)
    BY <1>3, OneLong, OneElement
  <2> QED
    BY <1>7, <1>9, <2>1, <2>2 DEF count
<1>10. CASE count = 1
  <2>1. 1 \in 1 .. count /\ vs # <<>>
    BY <1>1, <1>10
  <2>2. b[vs[1].name] \in Seq(Text) /\ Len(b[vs[1].name]) = Width(segment)
    BY <1>4, <1>6, <1>7, <1>8, <2>1
  <2> QED
    BY <1>2, <1>10, <2>2 DEF count
<1>11. CASE count > 1
  <2>1. 1 \in 1 .. count
    BY <1>1, <1>11
  <2>2. ~IsWild(segment)
    BY <1>3, <1>4, <1>6, <1>11, <2>1
  <2>3. JoinSegment(Made(segment, b)) \in Text
    BY JoinedIs
  <2>4. RenderSegment(segment, b) = <<JoinSegment(Made(segment, b))>>
    BY <1>2, <1>11
  <2>5. Len(RenderSegment(segment, b)) = 1 /\ RenderSegment(segment, b) \in Seq(Text)
    BY <2>3, <2>4, OneLong, OneElement
  <2>6. \A n \in NamesOf(segment) : Len(b[n]) = 1
    <3> SUFFICES ASSUME NEW n \in NamesOf(segment) PROVE Len(b[n]) = 1
      OBVIOUS
    <3>1. PICK i \in 1 .. count : n = vs[i].name
      BY <1>5
    <3>2. vs[i] \in ToSet(vs) /\ vs[i].pattern # "**"
      BY <1>3, <1>4, <1>11
    <3>3. Len(b[vs[i].name]) = 1
      BY <1>8, <3>2
    <3> QED
      BY <3>1, <3>3
  <2> QED
    BY <1>7, <2>2, <2>5, <2>6
<1>12. count = 0 \/ count = 1 \/ count > 1
  BY <1>1
<1> QED
  BY ONLY <1>9, <1>10, <1>11, <1>12, Zenon

Segments == Seq(STRING \ {"other"})

LEMMA SegmentsAreText ==
    ASSUME NEW name \in Segments
    PROVE  name \in Seq(Text) /\ \A k \in 1 .. Len(name) : name[k] # "other"
<1> DEFINE S == STRING \ {"other"}
<1>1. S \subseteq Text /\ \A s \in S : s # "other"
  BY DEF Text
<1>2. name \in Seq(S)
  BY DEF Segments
<1> HIDE DEF S
<1> QED
  BY <1>1, <1>2, LargerSeq

LEMMA KeysOf ==
    ASSUME NEW t, IsTemplate(t)
    PROVE  Keys(t) = UNION {NamesOf(Parsed(t)[k]) : k \in 1 .. Len(t)}
<1> DEFINE N == [k \in 1 .. Len(t) |-> NamesOf(Parsed(t)[k])]
<1>1. /\ \A k \in 1 .. Len(t) : N[k] \subseteq Keys(t)
      /\ \A n \in Keys(t) : \E k \in 1 .. Len(t) : n \in N[k]
  BY NamesAreKeys
<1>2. Keys(t) = UNION {N[k] : k \in 1 .. Len(t)}
  <2> HIDE DEF N
  <2> QED
    BY <1>1
<1> QED
  BY <1>2

LEMMA DistinctNames ==
    ASSUME NEW t, IsTemplate(t), NEW k \in 1 .. Len(t)
    PROVE  IsSegment(Parsed(t)[k]) /\ Distinct(Parsed(t)[k])
<1> DEFINE P == Parsed(t)
<1>1. DOMAIN t = 1 .. Len(t)
  BY ParsedSegments
<1>2. IsSegment(P[k])
  BY <1>1 DEF IsTemplate
<1>3. DOMAIN P[k].variables = 1 .. Len(P[k].variables)
  BY <1>2 DEF IsSegment
<1>4. \A i, j \in DOMAIN P[k].variables :
         P[k].variables[i].name = P[k].variables[j].name => i = j
  BY <1>1 DEF IsTemplate
<1> HIDE DEF P
<1>5. Distinct(P[k])
  BY <1>3, <1>4 DEF Distinct
<1> QED
  BY <1>2, <1>5 DEF P

(* A name that is rendered from values that a name can keep apart, plain    *)
(* ones, reads as these values.  The template is one whose bare variables   *)
(* are rewritten in their own place, with names that match() recognizes and *)
(* one of - _ . ~ between those of a segment (pathTemplate.ts:48-122,       *)
(* 132-163, 181-227).                                                       *)
THEOREM RenderedNamesRead ==
    ASSUME NEW t, IsTemplate(t), CanParse(t), NEW bindings \in [Keys(t) -> Seq(STRING)],
           Separable(t, bindings), Render(t, bindings) \in Segments
    PROVE  LET match == Match(t, Render(t, bindings)) IN
           match.ok /\ match.bindings = bindings
<1> DEFINE n == Len(t)
           P == Parsed(t)
           name == Render(t, bindings)
           match == Match(t, name)
           at == Before(t)
           segment(k) == Parsed(t)[k]
           left(k) == Left(t, name, k - 1)
<1>1. n \in Nat /\ DOMAIN t = 1 .. n
  BY ParsedSegments
<1>2. name \in Seq(Text) /\ \A k \in 1 .. Len(name) : name[k] # "other"
  BY SegmentsAreText
<1>3. \A x \in Keys(t) : bindings[x] \in Seq(Text)
  <2> DEFINE S == STRING
  <2>1. S \subseteq Text
    BY DEF Text
  <2>2. \A x \in Keys(t) : bindings[x] \in Seq(S)
    OBVIOUS
  <2> HIDE DEF S
  <2> QED
    BY <2>1, <2>2, LargerSeq
<1>4. ASSUME NEW k \in 1 .. n
      PROVE  /\ IsSegment(segment(k))
             /\ \A x \in NamesOf(segment(k)) : bindings[x] \in Seq(Text)
             /\ \A v \in ToSet(segment(k).variables) :
                   Len(bindings[v.name]) = IF v.pattern = "**" THEN 2 ELSE 1
  <2>1. IsSegment(segment(k))
    BY DistinctNames
  <2>2. \A x \in NamesOf(segment(k)) : bindings[x] \in Seq(Text)
    BY <1>3, NamesAreKeys
  <2>3. \A v \in ToSet(segment(k).variables) :
           Len(bindings[v.name]) = IF v.pattern = "**" THEN 2 ELSE 1
    BY <1>1 DEF Separable
  <2> QED
    BY <2>1, <2>2, <2>3
<1> HIDE DEF segment, name
<1>5. \A k \in 1 .. n : /\ RenderSegment(segment(k), bindings) \in Seq(Text)
                        /\ Len(RenderSegment(segment(k), bindings)) = Width(segment(k))
                        /\ Len(segment(k).variables) > 1 =>
                              \A x \in NamesOf(segment(k)) : Len(bindings[x]) = 1
  BY <1>4, RenderedWidth
<1>6. /\ Len(name) = at[n]
      /\ \A k \in 1 .. n : RenderSegment(segment(k), bindings) = Piece(name, at, k)
  BY <1>2, <1>5, RenderedPieces DEF segment, name
<1>7. MatchedUpto(t, name, n, match)
  BY <1>2, <1>6, MatchIs
<1>8. ASSUME NEW k \in 1 .. n
      PROVE  /\ Agrees(segment(k), left(k)[1])
             /\ \A x \in NamesOf(segment(k)) : Taken(segment(k), left(k))[x] = bindings[x]
  <2>1. /\ left(k) \in Seq(Text) /\ left(k) # <<>> /\ left(k)[1] = name[at[k - 1] + 1]
        /\ IsWild(segment(k)) => TakeTwo(left(k)).value = Piece(name, at, k)
        /\ ~IsWild(segment(k)) => <<left(k)[1]>> = Piece(name, at, k)
    BY <1>2, <1>6, LeftIs DEF segment
  <2>2. left(k)[1] # "other"
    <3>1. at[k - 1] \in Nat /\ at[k] = at[k - 1] + Width(segment(k)) /\ at[k] =< Len(name)
      BY <1>6, BeforeGrows DEF segment
    <3>2. Width(segment(k)) \in {1, 2}
      BY DEF Width
    <3>3. at[k - 1] + 1 \in 1 .. Len(name)
      BY <1>2, <3>1, <3>2
    <3> QED
      BY <1>2, <2>1, <3>3
  <2>3. RenderSegment(segment(k), bindings) = PieceOf(segment(k), left(k))
    BY <1>6, <2>1 DEF PieceOf
  <2> HIDE DEF left
  <2> QED
    BY <1>4, <1>5, <2>2, <2>3, SegmentReadsBack
<1>9. /\ match.ok
      /\ DOMAIN match.bindings = UNION {NamesOf(segment(k)) : k \in 1 .. n}
      /\ \A k \in 1 .. n : \A x \in NamesOf(segment(k)) :
            match.bindings[x] = Taken(segment(k), left(k))[x]
  BY <1>7, <1>8 DEF MatchedUpto, segment
<1>10. match \in States(t)
  <2>1. Matching(t, name) \in [0 .. n -> States(t)] /\ n \in 0 .. n
    BY <1>1, <1>2, MatchingRuns DEF MatchingOver
  <2> QED
    BY <2>1 DEF Match
<1>11. Keys(t) = UNION {NamesOf(segment(k)) : k \in 1 .. n}
  BY KeysOf DEF segment
<1> HIDE DEF match, left, n, at
<1>12. \A x \in Keys(t) : match.bindings[x] = bindings[x]
  BY <1>8, <1>9, <1>11
<1>13. match.bindings \in BindingsOf(t)
  BY <1>10 DEF States
<1>14. PICK D \in SUBSET Keys(t) : match.bindings \in [D -> Seq(Text)]
  BY <1>13 DEF BindingsOf
<1>15. match.bindings = bindings
  <2> DEFINE found == match.bindings
             K == Keys(t)
  <2>1. found = [x \in K |-> found[x]] /\ bindings = [x \in K |-> bindings[x]]
    BY <1>9, <1>11, <1>14
  <2>2. \A x \in K : found[x] = bindings[x]
    BY <1>12
  <2> HIDE DEF found, K
  <2>3. found = bindings
    BY ONLY <2>1, <2>2
  <2> QED
    BY <2>3 DEF found
<1> QED
  BY <1>9, <1>15 DEF match, name

(* What such a template reads in a name of plain segments, with nothing     *)
(* empty in it, and with two segments for its ** if it has one, renders the *)
(* same name again (pathTemplate.ts:48-122, 132-163, 181-227).              *)
THEOREM ReadNamesRender ==
    ASSUME NEW t, IsTemplate(t), CanParse(t), NEW name \in Segments, ToSet(name) \subseteq Plain,
           Len(name) = Len(t) + Wildcards(t), ~HasGaps(name), Match(t, name).ok
    PROVE  LET bindings == Match(t, name).bindings IN
           CanRender(t, bindings) /\ Render(t, bindings) = name
<1> DEFINE n == Len(t)
           match == Match(t, name)
           bindings == match.bindings
           at == Before(t)
           segment(k) == Parsed(t)[k]
           left(k) == Left(t, name, k - 1)
<1>1. n \in Nat /\ DOMAIN t = 1 .. n /\ DOMAIN Parsed(t) = 1 .. n
  BY ParsedSegments
<1>2. name \in Seq(Text) /\ Len(name) \in Nat
  BY SegmentsAreText
<1>3. Len(name) = at[n]
  BY WidthsAddUp
<1>4. MatchedUpto(t, name, n, match)
  BY <1>2, <1>3, MatchIs
<1>5. /\ DOMAIN bindings = UNION {NamesOf(segment(k)) : k \in 1 .. n}
      /\ \A k \in 1 .. n : Agrees(segment(k), left(k)[1])
      /\ \A k \in 1 .. n : \A x \in NamesOf(segment(k)) :
            bindings[x] = Taken(segment(k), left(k))[x]
  BY <1>4 DEF MatchedUpto
<1>6. DOMAIN bindings = Keys(t)
  BY <1>5, KeysOf
<1>7. \A k \in 1 .. n : IsSegment(segment(k)) /\ Distinct(segment(k))
  BY DistinctNames
<1> HIDE DEF segment, match, n
<1>8. ASSUME NEW k \in 1 .. n
      PROVE  /\ RenderSegment(segment(k), bindings) = Piece(name, at, k)
             /\ Len(Piece(name, at, k)) = Width(segment(k)) /\ Piece(name, at, k) \in Seq(Text)
             /\ \A i \in 1 .. Len(segment(k).variables) :
                   LET value == bindings[segment(k).variables[i].name] IN
                   /\ IsWild(segment(k)) => value = Piece(name, at, k)
                   /\ ~IsWild(segment(k)) => 1 \in DOMAIN value /\ value[1] # ""
  <2>1. /\ left(k) \in Seq(Text) /\ left(k) # <<>> /\ left(k)[1] = name[at[k - 1] + 1]
        /\ IsWild(segment(k)) => TakeTwo(left(k)).value = Piece(name, at, k)
        /\ ~IsWild(segment(k)) => <<left(k)[1]>> = Piece(name, at, k)
    BY <1>2, <1>3, LeftIs DEF segment, n
  <2>2. /\ at[k - 1] \in Nat /\ at[k] \in Nat
        /\ at[k] = at[k - 1] + Width(segment(k)) /\ at[k] =< Len(name)
    BY <1>3, BeforeGrows DEF segment, n
  <2>3. Width(segment(k)) = IF IsWild(segment(k)) THEN 2 ELSE 1
    BY DEF Width
  <2>4. "" \notin ToSet(PartsOf(left(k)[1]))
    <3>1. at[k - 1] + 1 \in DOMAIN name
      BY <1>2, <2>2, <2>3
    <3> QED
      BY <2>1, <3>1 DEF HasGaps
  <2>5. Piece(name, at, k) \in Seq(Text) /\ Len(Piece(name, at, k)) = Width(segment(k))
    <3> DEFINE a == at[k - 1]
               w == Width(segment(k))
    <3>1. Piece(name, at, k) = SubSeq(name, a + 1, a + w)
      BY <2>2 DEF Piece
    <3>2. a \in Nat /\ w \in {1, 2} /\ a + w =< Len(name)
      BY <2>2, <2>3
    <3> HIDE DEF a, w
    <3>3. SubSeq(name, a + 1, a + w) \in Seq(Text) /\ Len(SubSeq(name, a + 1, a + w)) = w
      BY <1>2, <3>2
    <3> QED
      BY <3>1, <3>3 DEF w
  <2>6. PieceOf(segment(k), left(k)) = Piece(name, at, k)
    BY <2>1 DEF PieceOf
  <2> HIDE DEF left, bindings, at
  <2>7. /\ RenderSegment(segment(k), bindings) = PieceOf(segment(k), left(k))
        /\ \A i \in 1 .. Len(segment(k).variables) :
              LET value == bindings[segment(k).variables[i].name] IN
              /\ IsWild(segment(k)) => value = TakeTwo(left(k)).value
              /\ ~IsWild(segment(k)) /\ "" \notin ToSet(PartsOf(left(k)[1])) =>
                    1 \in DOMAIN value /\ value[1] # ""
    BY <1>5, <1>7, <2>1, SegmentRendersBack
  <2> QED
    BY <2>1, <2>4, <2>5, <2>6, <2>7
<1>9. Render(t, bindings) = name
  <2>1. \A k \in 1 .. n : /\ RenderSegment(segment(k), bindings) \in Seq(Text)
                          /\ Len(RenderSegment(segment(k), bindings)) = Width(segment(k))
    BY <1>8
  <2>2. \A k \in 1 .. n : RenderSegment(segment(k), bindings) = Piece(name, at, k)
    BY <1>8
  <2> HIDE DEF bindings
  <2> QED
    BY <1>2, <1>3, <2>1, <2>2, RenderedPieces DEF segment, n
<1>10. ASSUME NEW v \in VariablesOf(Parsed(t))
       PROVE  IF v.pattern = "**" THEN bindings[v.name] \notin {<<>>, <<"">>}
              ELSE \E i \in DOMAIN bindings[v.name] : bindings[v.name][i] # ""
  <2>1. PICK k \in 1 .. n : v \in ToSet(segment(k).variables)
    BY <1>1 DEF VariablesOf, segment, n
  <2>2. PICK i \in 1 .. Len(segment(k).variables) : v = segment(k).variables[i]
    BY <1>7, <2>1 DEF ToSet, IsSegment
  <2> DEFINE vs == segment(k).variables
             count == Len(vs)
             value == bindings[v.name]
  <2>3. /\ IsWild(segment(k)) => value = Piece(name, at, k)
        /\ ~IsWild(segment(k)) => 1 \in DOMAIN value /\ value[1] # ""
    BY <1>8, <2>2
  <2>4. v.pattern = "**" <=> IsWild(segment(k))
    <3>1. count \in Nat /\ vs # <<>> /\ (count > 1 => \A u \in ToSet(vs) : u.pattern = "*")
      BY <1>7, <2>2 DEF IsSegment
    <3>2. vs[1] \in ToSet(vs)
      BY <1>7, <3>1 DEF IsSegment, ToSet
    <3>3. IsWild(segment(k)) <=> vs[1].pattern = "**"
      BY <3>1 DEF IsWild
    <3>4. CASE count > 1
      BY <2>1, <3>1, <3>2, <3>3, <3>4
    <3>5. CASE count =< 1
      <4>1. i = 1
        BY <2>2, <3>1, <3>5
      <4> QED
        BY <2>2, <3>3, <4>1
    <3> QED
      BY <3>1, <3>4, <3>5
  <2> HIDE DEF value, vs, count
  <2>5. CASE IsWild(segment(k))
    <3>1. Len(value) = 2
      BY <1>8, <2>3, <2>5 DEF Width
    <3>2. value # <<>> /\ value # <<"">>
      <4>1. Len(<<>>) # 2 /\ Len(<<"">>) # 2
        OBVIOUS
      <4> QED
        BY ONLY <3>1, <4>1, Zenon
    <3> QED
      BY <2>4, <2>5, <3>2 DEF value
  <2>6. CASE ~IsWild(segment(k))
    BY <2>3, <2>4, <2>6 DEF value
  <2> QED
    BY <2>5, <2>6
<1>11. CanRender(t, bindings)
  BY <1>6, <1>10 DEF CanRender
<1> QED
  BY <1>9, <1>11 DEF match

-----------------------------------------------------------------------------
(* Transcoding: where in a value the parts of a pattern may end.            *)
(* (The SMT solver cannot do with the empty string itself.)                 *)
Blank == ""

NextEnds(p, value, from) ==
    IF p = "**" THEN {n \in DOMAIN value : \E m \in from : m < n /\ ~(n = m + 1 /\ value[n] = Blank)}
    ELSE {n \in DOMAIN value : /\ n - 1 \in from
                               /\ IF p = "*" THEN value[n] # Blank ELSE value[n] = p}

EndsOver(pattern, value, f) ==
    /\ f \in [0 .. Len(pattern) -> SUBSET Nat] /\ f[0] = {0}
    /\ \A k \in 1 .. Len(pattern) : f[k] = NextEnds(pattern[k], value, f[k - 1])

LEMMA EndsRun ==
    ASSUME NEW X, NEW pattern \in Seq(X), NEW value \in Seq(X)
    PROVE  EndsOver(pattern, value, Ends(pattern, value))
<1> DEFINE n == Len(pattern)
           V == SUBSET Nat
           b == {0}
           next(from, k) == NextEnds(pattern[k], value, from)
           step == [k \in 0 + 1 .. n |-> [from \in V |-> next(from, k)]]
           Is(f) == f = [k \in 0 .. n |-> IF k = 0 THEN b ELSE next(f[k - 1], k)]
<1>0. n \in Nat /\ 0 \in Nat /\ 0 =< n /\ b \in V
  OBVIOUS
<1>1. \A k \in 1 .. n : \A from \in V : next(from, k) \in V
  <2>1. DOMAIN value \subseteq Nat
    OBVIOUS
  <2> QED
    BY <2>1 DEF NextEnds
<1>2. Ends(pattern, value) = CHOOSE f : Is(f)
  BY DEF Ends, NextEnds, Blank
<1> HIDE DEF n, V, next, b
<1>3. step \in [0 + 1 .. n -> [V -> V]]
  BY <1>0, <1>1
<1>4. PICK f : Runs(V, b, step, f, 0, n)
  <2> HIDE DEF step
  <2> QED
    BY <1>0, <1>3, RecursionBetween
<1>5. f \in [0 .. n -> V] /\ f[0] = b
  BY <1>4 DEF Runs
<1>6. ASSUME NEW k \in 1 .. n PROVE f[k] = next(f[k - 1], k)
  <2>1. k \in 0 + 1 .. n /\ k - 1 \in 0 .. n
    BY <1>0
  <2>2. f[k] = step[k][f[k - 1]] /\ f[k - 1] \in V
    BY <1>4, <1>5, <2>1 DEF Runs
  <2> QED
    BY <2>1, <2>2
<1> HIDE DEF step
<1>7. Is(f)
  <2>1. \A k \in 0 .. n : k # 0 => k \in 1 .. n
    BY <1>0
  <2>2. \A k \in 0 .. n : f[k] = IF k = 0 THEN b ELSE next(f[k - 1], k)
    BY <1>5, <1>6, <2>1
  <2> QED
    BY <1>5, <2>2
<1> DEFINE g == CHOOSE f1 : Is(f1)
<1>8. Is(g)
  <2> HIDE DEF Is
  <2> QED
    BY <1>7
<1> HIDE DEF g
<1>10. \A k \in 0 .. n : g[k] = IF k = 0 THEN b ELSE next(g[k - 1], k)
  BY <1>8
<1>11. g[0] = b /\ \A k \in 1 .. n : g[k] = next(g[k - 1], k)
  <2>1. 0 \in 0 .. n /\ \A k \in 1 .. n : k \in 0 .. n /\ k # 0
    BY <1>0
  <2> QED
    BY <1>10, <2>1
<1>12. \A k \in 0 .. n : f[k] = g[k]
  <2>1. \A k \in 0 .. n - 1 : f[k] = g[k] => f[k + 1] = g[k + 1]
    <3> SUFFICES ASSUME NEW k \in 0 .. n - 1, f[k] = g[k] PROVE f[k + 1] = g[k + 1]
      OBVIOUS
    <3>1. k + 1 \in 1 .. n /\ k + 1 - 1 = k
      BY <1>0
    <3>2. f[k + 1] = next(f[k], k + 1) /\ g[k + 1] = next(g[k], k + 1)
      BY <1>6, <1>11, <3>1
    <3> QED
      BY <3>2
  <2> QED
    BY <1>0, <1>5, <1>11, <2>1, SameSteps
<1>13. g \in [0 .. n -> V]
  <2>1. g = [k \in 0 .. n |-> IF k = 0 THEN b ELSE next(g[k - 1], k)]
    BY <1>8
  <2>2. \A k \in 0 .. n : g[k] \in V
    BY <1>5, <1>12
  <2> QED
    BY <2>1, <2>2
<1>14. Ends(pattern, value) = g
  BY <1>2 DEF g
<1> QED
  BY <1>11, <1>13, <1>14 DEF EndsOver, n, V, next, b

(* A pattern within a longer one, and a value within a longer one.          *)
LEMMA EndsWithin ==
    ASSUME NEW X, NEW p \in Seq(X), NEW v \in Seq(X), NEW q \in Seq(X), NEW w \in Seq(X),
           NEW a \in Nat, NEW b \in Nat,
           \A k \in 1 .. Len(p) : b + k \in 1 .. Len(q) /\ q[b + k] = p[k],
           \A n \in 1 .. Len(v) : a + n \in 1 .. Len(w) /\ w[a + n] = v[n],
           a \in Ends(q, w)[b]
    PROVE  \A k \in 0 .. Len(p) : \A m \in Ends(p, v)[k] : a + m \in Ends(q, w)[b + k]
<1> DEFINE E == Ends(p, v)
           F == Ends(q, w)
           Good == {k \in Nat : k =< Len(p) => \A m \in E[k] : a + m \in F[b + k]}
<1>0. EndsOver(p, v, E) /\ EndsOver(q, w, F) /\ Len(p) \in Nat /\ Len(q) \in Nat
  BY EndsRun
<1>1. \A k \in 1 .. Len(p) : b + k \in 1 .. Len(q) /\ q[b + k] = p[k]
  OBVIOUS
<1>2. \A n \in DOMAIN v : n \in Nat /\ a + n \in DOMAIN w /\ w[a + n] = v[n]
  <2>1. DOMAIN v = 1 .. Len(v) /\ DOMAIN w = 1 .. Len(w)
    OBVIOUS
  <2>2. \A n \in 1 .. Len(v) : n \in Nat /\ a + n \in 1 .. Len(w) /\ w[a + n] = v[n]
    OBVIOUS
  <2> QED
    BY ONLY <2>1, <2>2
<1>3. a \in F[b]
  OBVIOUS
<1> HIDE DEF E, F
<1>4. 0 \in Good
  <2>1. E[0] = {0}
    BY <1>0 DEF EndsOver
  <2> QED
    BY <1>3, <2>1
<1>5. ASSUME NEW k \in Nat, k \in Good PROVE k + 1 \in Good
  <2> SUFFICES ASSUME k + 1 =< Len(p), NEW n \in E[k + 1] PROVE a + n \in F[b + (k + 1)]
    OBVIOUS
  <2> DEFINE from == E[k]
             from2 == F[b + k]
  <2>1. /\ k + 1 \in 1 .. Len(p) /\ k + 1 - 1 = k /\ k \in 0 .. Len(p)
        /\ b + (k + 1) \in 1 .. Len(q) /\ b + (k + 1) - 1 = b + k /\ q[b + (k + 1)] = p[k + 1]
    BY <1>0, <1>1
  <2>2. n \in NextEnds(p[k + 1], v, from) /\ F[b + (k + 1)] = NextEnds(p[k + 1], w, from2)
    BY <1>0, <2>1 DEF EndsOver
  <2>3. from \subseteq Nat /\ \A m \in from : a + m \in from2
    <3>1. E[k] \in SUBSET Nat
      BY <1>0, <2>1 DEF EndsOver
    <3>2. k =< Len(p)
      BY <2>1
    <3>3. \A m \in E[k] : a + m \in F[b + k]
      BY <1>5, <3>2
    <3> QED
      BY <3>1, <3>3
  <2> HIDE DEF from, from2
  <2>4. n \in DOMAIN v
    BY <2>2 DEF NextEnds
  <2>5. n \in Nat /\ a + n \in DOMAIN w /\ w[a + n] = v[n]
    BY <1>2, <2>4
  <2>6. CASE p[k + 1] = "**"
    <3>1. PICK m \in from : m < n /\ ~(n = m + 1 /\ v[n] = Blank)
      BY <2>2, <2>6 DEF NextEnds
    <3>4. m \in Nat /\ a + m \in from2
      BY <2>3
    <3>5. n \in Nat /\ m < n
      BY <2>5, <3>1
    <3>2. a + m < a + n /\ (a + n = a + m + 1 => n = m + 1)
      BY ONLY <3>4, <3>5, a \in Nat
    <3> DEFINE x == a + n
               y == a + m
    <3>6. x \in DOMAIN w /\ y \in from2 /\ y < x /\ ~(x = y + 1 /\ w[x] = Blank)
      BY <2>5, <3>1, <3>2, <3>4
    <3> HIDE DEF x, y
    <3>3. x \in NextEnds("**", w, from2)
      BY <3>6 DEF NextEnds
    <3> QED
      BY <2>2, <2>6, <3>3 DEF x
  <2>7. CASE p[k + 1] # "**"
    <3>1. n - 1 \in from /\ IF p[k + 1] = "*" THEN v[n] # Blank ELSE v[n] = p[k + 1]
      BY <2>2, <2>7 DEF NextEnds
    <3>2. a + (n - 1) \in from2 /\ a + (n - 1) = (a + n) - 1
      BY <2>3, <2>5, <3>1
    <3> DEFINE c == p[k + 1]
               x == a + n
    <3>6. x \in DOMAIN w /\ w[x] = v[n]
      BY <2>5
    <3>7. x - 1 \in from2
      BY ONLY <3>2, Zenon
    <3>3. x \in DOMAIN w /\ x - 1 \in from2 /\ (IF c = "*" THEN w[x] # Blank ELSE w[x] = c)
      BY ONLY <3>1, <3>6, <3>7
    <3>4. c # "**"
      BY <2>7
    <3> HIDE DEF c, x
    <3>5. x \in NextEnds(c, w, from2)
      BY <3>3, <3>4 DEF NextEnds
    <3> QED
      BY <2>2, <3>5 DEF c, x
  <2> QED
    BY <2>6, <2>7
<1> HIDE DEF Good
<1>6. Nat \subseteq Good
  BY <1>4, <1>5, Induction
<1> QED
  BY <1>0, <1>6 DEF Good, E, F

LEMMA FitTogether ==
    ASSUME NEW X, NEW p1 \in Seq(X), NEW v1 \in Seq(X), NEW p2 \in Seq(X), NEW v2 \in Seq(X),
           Fits(p1, v1), Fits(p2, v2)
    PROVE  Fits(p1 \o p2, v1 \o v2)
<1> DEFINE q == p1 \o p2
           w == v1 \o v2
           a == Len(v1)
           b == Len(p1)
<1>1. /\ q \in Seq(X) /\ w \in Seq(X) /\ a \in Nat /\ b \in Nat
      /\ Len(q) = b + Len(p2) /\ Len(w) = a + Len(v2)
  OBVIOUS
<1>2. a \in Ends(q, w)[b]
  <2>1. 0 \in Ends(q, w)[0]
    <3>1. EndsOver(q, w, Ends(q, w))
      BY <1>1, EndsRun
    <3> QED
      BY <3>1 DEF EndsOver
  <2>2. \A k \in 1 .. Len(p1) : 0 + k \in 1 .. Len(q) /\ q[0 + k] = p1[k]
    OBVIOUS
  <2>3. \A n \in 1 .. Len(v1) : 0 + n \in 1 .. Len(w) /\ w[0 + n] = v1[n]
    OBVIOUS
  <2>4. 0 \in Nat /\ a \in Ends(p1, v1)[b] /\ b \in 0 .. Len(p1) /\ 0 + a = a /\ 0 + b = b
    BY <1>1 DEF Fits
  <2> HIDE DEF q, w, a, b
  <2>5. \A k \in 0 .. Len(p1) : \A m \in Ends(p1, v1)[k] : 0 + m \in Ends(q, w)[0 + k]
    BY <1>1, <2>1, <2>2, <2>3, <2>4, EndsWithin
  <2>6. 0 + a \in Ends(q, w)[0 + b]
    BY <2>4, <2>5
  <2> QED
    BY <2>4, <2>6
<1>3. \A k \in 1 .. Len(p2) : b + k \in 1 .. Len(q) /\ q[b + k] = p2[k]
  OBVIOUS
<1>4. \A n \in 1 .. Len(v2) : a + n \in 1 .. Len(w) /\ w[a + n] = v2[n]
  OBVIOUS
<1>5. Len(v2) \in Ends(p2, v2)[Len(p2)] /\ Len(p2) \in 0 .. Len(p2)
  BY DEF Fits
<1> HIDE DEF q, w, a, b
<1>6. \A k \in 0 .. Len(p2) : \A m \in Ends(p2, v2)[k] : a + m \in Ends(q, w)[b + k]
  BY <1>1, <1>2, <1>3, <1>4, EndsWithin
<1>7. Len(w) \in Ends(q, w)[Len(q)]
  BY <1>1, <1>5, <1>6
<1> QED
  BY <1>7 DEF Fits, q, w

-----------------------------------------------------------------------------
(* A URL has the shape of its template.                                     *)
PatternOf(part) == IF Anything(part.pattern) THEN <<"*">> ELSE part.pattern

UrlOf(part, request) ==
    IF part.field = <<>> THEN <<part.pattern>> ELSE Encode(part.pattern, request[part.field])

SegmentsOf(url) == [k \in DOMAIN url |-> IF Len(url[k]) = 1 THEN url[k][1] ELSE "%2F"]

Strings == STRING \cup {"*", "%2F"}

LEMMA OneFits ==
    ASSUME NEW p \in Strings, NEW s \in Strings, s # Blank, p \in {"*", "**"} \/ p = s
    PROVE  Fits(<<p>>, <<s>>)
<1> DEFINE pattern == <<p>>
           value == <<s>>
           E == Ends(pattern, value)
<1>6. pattern \in Seq(Strings) /\ value \in Seq(Strings)
  BY OneElement
<1>7. Len(pattern) = 1 /\ Len(value) = 1 /\ pattern[1] = p /\ value[1] = s
  BY OneLong
<1> HIDE DEF pattern, value
<1>1. /\ pattern \in Seq(Strings) /\ value \in Seq(Strings)
      /\ Len(pattern) = 1 /\ Len(value) = 1 /\ pattern[1] = p
      /\ 1 \in DOMAIN value /\ value[1] = s
  BY <1>6, <1>7
<1>2. EndsOver(pattern, value, E)
  BY <1>1, EndsRun
<1> HIDE DEF E
<1>3. E[0] = {0} /\ E[1] = NextEnds(p, value, E[0])
  <2>1. 1 \in 1 .. Len(pattern) /\ 1 - 1 = 0
    BY <1>1
  <2> QED
    BY <1>1, <1>2, <2>1 DEF EndsOver
<1>4. 1 \in NextEnds(p, value, {0})
  <2>1. CASE p = "**"
    <3>1. 0 \in {0} /\ 0 < 1 /\ ~(1 = 0 + 1 /\ value[1] = Blank)
      BY <1>1
    <3> QED
      BY <1>1, <2>1, <3>1 DEF NextEnds
  <2>2. CASE p # "**"
    <3>1. 1 - 1 \in {0} /\ IF p = "*" THEN value[1] # Blank ELSE value[1] = p
      BY <1>1, <2>2
    <3> QED
      BY <1>1, <2>2, <3>1 DEF NextEnds
  <2> QED
    BY <2>1, <2>2
<1>5. Fits(pattern, value)
  BY <1>1, <1>3, <1>4 DEF Fits, E
<1> QED
  BY <1>5 DEF pattern, value

(* Each part of the URL has the shape of its part of the template.          *)
IsPart(part) ==
    /\ part.pattern \in Seq(Strings)
    /\ part.field = <<>> => Len(part.pattern) = 1

LEMMA PartHasShape ==
    ASSUME NEW part, IsPart(part), NEW r,
           part.field # <<>> => /\ r[part.field] \in Seq(Strings)
                                /\ Anything(part.pattern) \/ Fits(part.pattern, r[part.field])
    PROVE  /\ UrlOf(part, r) \in Seq(Seq(Strings))
           /\ PatternOf(part) \in Seq(Strings) /\ SegmentsOf(UrlOf(part, r)) \in Seq(Strings)
           /\ (\A k \in DOMAIN UrlOf(part, r) : UrlOf(part, r)[k] # <<Blank>>) =>
                 Fits(PatternOf(part), SegmentsOf(UrlOf(part, r)))
<1> DEFINE url == UrlOf(part, r)
           pattern == part.pattern
           value == r[part.field]
<1>0. /\ pattern \in Seq(Strings) /\ "*" \in Strings /\ "%2F" \in Strings
      /\ part.field = <<>> => Len(pattern) = 1
  BY DEF IsPart, Strings
<1>1. PatternOf(part) \in Seq(Strings)
  BY <1>0, OneElement DEF PatternOf
<1>2. ASSUME NEW whole \in Seq(Strings), url = <<whole>>,
             Anything(pattern) \/ (Len(pattern) = 1 /\ whole = pattern)
      PROVE  /\ url \in Seq(Seq(Strings)) /\ SegmentsOf(url) \in Seq(Strings)
             /\ (\A k \in DOMAIN url : url[k] # <<Blank>>) => Fits(PatternOf(part), SegmentsOf(url))
  <2> DEFINE s == IF Len(whole) = 1 THEN whole[1] ELSE "%2F"
  <2>1. s \in Strings
    BY <1>0
  <2>2. DOMAIN url = {1} /\ url[1] = whole /\ url \in Seq(Seq(Strings))
    BY <1>2, OneLong, OneElement
  <2>3. SegmentsOf(url) = <<s>>
    <3>1. SegmentsOf(url) = [k \in {1} |-> s]
      BY <2>2 DEF SegmentsOf
    <3> HIDE DEF s
    <3> QED
      BY <3>1
  <2>4. <<s>> \in Seq(Strings)
    BY <2>1, OneElement
  <2>5. ASSUME \A k \in DOMAIN url : url[k] # <<Blank>>
        PROVE  s # Blank
    <3>1. whole # <<Blank>>
      BY <2>2, <2>5
    <3>2. Len(whole) = 1 => whole = <<whole[1]>>
      OBVIOUS
    <3>3. "%2F" # Blank
      BY Zenon DEF Blank
    <3> QED
      BY <3>1, <3>2, <3>3
  <2>6. ASSUME s # Blank PROVE Fits(PatternOf(part), <<s>>)
    <3>1. CASE Anything(pattern)
      <4>1. PatternOf(part) = <<"*">>
        BY <3>1 DEF PatternOf
      <4> HIDE DEF s
      <4>2. Fits(<<"*">>, <<s>>)
        BY <1>0, <2>1, <2>6, OneFits
      <4> QED
        BY <4>1, <4>2
    <3>2. CASE ~Anything(pattern)
      <4>1. PatternOf(part) = <<pattern[1]>> /\ s = pattern[1] /\ pattern[1] \in Strings
        <5>1. Len(pattern) = 1 /\ whole = pattern
          BY <1>2, <3>2
        <5>2. pattern = <<pattern[1]>>
          BY <1>0, <5>1
        <5> QED
          BY <1>0, <3>2, <5>1, <5>2 DEF PatternOf
      <4> HIDE DEF s
      <4>2. Fits(<<pattern[1]>>, <<s>>)
        BY <2>6, <4>1, OneFits
      <4> QED
        BY <4>1, <4>2
    <3> QED
      BY <3>1, <3>2
  <2> HIDE DEF s
  <2> QED
    BY <2>2, <2>3, <2>4, <2>5, <2>6
<1>3. CASE part.field = <<>>
  <2>1. url = <<pattern>> /\ Len(pattern) = 1
    BY <1>0, <1>3 DEF UrlOf
  <2> HIDE DEF url, pattern
  <2>2. /\ url \in Seq(Seq(Strings)) /\ SegmentsOf(url) \in Seq(Strings)
        /\ (\A k \in DOMAIN url : url[k] # <<Blank>>) => Fits(PatternOf(part), SegmentsOf(url))
    BY <1>0, <1>2, <2>1
  <2> QED
    BY <1>1, <2>2 DEF url
<1>4. CASE part.field # <<>> /\ Anything(pattern)
  <2>1. url = <<value>> /\ value \in Seq(Strings)
    BY <1>4 DEF UrlOf, Encode
  <2> HIDE DEF url, value
  <2>2. /\ url \in Seq(Seq(Strings)) /\ SegmentsOf(url) \in Seq(Strings)
        /\ (\A k \in DOMAIN url : url[k] # <<Blank>>) => Fits(PatternOf(part), SegmentsOf(url))
    BY <1>2, <1>4, <2>1
  <2> QED
    BY <1>1, <2>2 DEF url
<1>5. CASE part.field # <<>> /\ ~Anything(pattern)
  <2>1. url = [k \in DOMAIN value |-> <<value[k]>>] /\ value \in Seq(Strings)
    BY <1>5 DEF UrlOf, Encode
  <2>2. Fits(pattern, value) /\ PatternOf(part) = pattern
    BY <1>5 DEF PatternOf
  <2> HIDE DEF url, value, pattern
  <2>3. /\ DOMAIN value = 1 .. Len(value) /\ Len(value) \in Nat
        /\ \A k \in DOMAIN value : value[k] \in Strings
    BY <2>1
  <2>4. url \in Seq(Seq(Strings))
    <3>1. \A k \in 1 .. Len(value) : <<value[k]>> \in Seq(Strings)
      BY <2>3, OneElement
    <3> QED
      BY <2>1, <2>3, <3>1
  <2>5. SegmentsOf(url) = value
    <3>1. \A k \in DOMAIN value : url[k] = <<value[k]>> /\ Len(url[k]) = 1 /\ url[k][1] = value[k]
      BY <2>1, OneLong
    <3>2. SegmentsOf(url) = [k \in DOMAIN value |-> value[k]]
      BY <2>1, <3>1 DEF SegmentsOf
    <3> QED
      BY <2>1, <3>2
  <2> QED
    BY <1>1, <2>1, <2>2, <2>4, <2>5 DEF url
<1> QED
  BY <1>3, <1>4, <1>5

UrlParts(template, r) == [k \in DOMAIN template |-> UrlOf(template[k], r)]
Patterns(template) == [k \in DOMAIN template |-> PatternOf(template[k])]

(* The templates of rules and what their variables are bound to.            *)
Bound(template, r) ==
    /\ Len(template) \in Nat /\ DOMAIN template = 1 .. Len(template)
    /\ \A k \in DOMAIN template :
          LET part == template[k] IN
          /\ IsPart(part)
          /\ part.field # <<>> =>
                /\ r[part.field] \in Seq(Strings)
                /\ Anything(part.pattern) \/ Fits(part.pattern, r[part.field])

LEMMA SegmentsOfMore ==
    ASSUME NEW u \in Seq(Seq(Strings)), NEW v \in Seq(Seq(Strings))
    PROVE  SegmentsOf(u \o v) = SegmentsOf(u) \o SegmentsOf(v)
<1> DEFINE one(x) == IF Len(x) = 1 THEN x[1] ELSE "%2F"
           w == u \o v
           p == [k \in DOMAIN u |-> one(u[k])]
           q == [k \in DOMAIN v |-> one(v[k])]
<1>1. SegmentsOf(u) = p /\ SegmentsOf(v) = q /\ SegmentsOf(w) = [k \in DOMAIN w |-> one(w[k])]
  BY DEF SegmentsOf
<1>4. \A x \in Seq(Strings) : one(x) \in Strings
  BY DEF Strings
<1> DEFINE all == [k \in DOMAIN w |-> one(w[k])]
<1> HIDE DEF one
<1>2. all = p \o q
  <2>1. /\ w \in Seq(Seq(Strings)) /\ Len(w) = Len(u) + Len(v)
        /\ \A k \in 1 .. Len(u) : w[k] = u[k]
        /\ \A k \in 1 .. Len(v) : w[Len(u) + k] = v[k]
    OBVIOUS
  <2>2. /\ p \in Seq(Strings) /\ Len(p) = Len(u) /\ \A k \in 1 .. Len(u) : p[k] = one(u[k])
        /\ q \in Seq(Strings) /\ Len(q) = Len(v) /\ \A k \in 1 .. Len(v) : q[k] = one(v[k])
    <3>1. /\ Len(u) \in Nat /\ DOMAIN u = 1 .. Len(u) /\ Len(v) \in Nat /\ DOMAIN v = 1 .. Len(v)
          /\ \A k \in 1 .. Len(u) : u[k] \in Seq(Strings)
          /\ \A k \in 1 .. Len(v) : v[k] \in Seq(Strings)
      OBVIOUS
    <3>2. p \in [1 .. Len(u) -> Strings] /\ \A k \in 1 .. Len(u) : p[k] = one(u[k])
      BY <1>4, <3>1
    <3>3. q \in [1 .. Len(v) -> Strings] /\ \A k \in 1 .. Len(v) : q[k] = one(v[k])
      BY <1>4, <3>1
    <3> HIDE DEF p, q
    <3>4. p \in Seq(Strings) /\ Len(p) = Len(u)
      BY <3>1, <3>2, SequenceOf
    <3>5. q \in Seq(Strings) /\ Len(q) = Len(v)
      BY <3>1, <3>3, SequenceOf
    <3> QED
      BY <3>2, <3>3, <3>4, <3>5
  <2> HIDE DEF w
  <2>3. /\ all \in Seq(Strings) /\ Len(all) = Len(w)
        /\ \A k \in 1 .. Len(w) : all[k] = one(w[k])
    BY <1>4, <2>1
  <2> HIDE DEF p, q, all
  <2>6. /\ p \o q \in Seq(Strings) /\ Len(p \o q) = Len(p) + Len(q)
        /\ \A k \in 1 .. Len(p) : (p \o q)[k] = p[k]
        /\ \A k \in 1 .. Len(q) : (p \o q)[Len(p) + k] = q[k]
    <3>1. p \in Seq(Strings) /\ q \in Seq(Strings)
      BY <2>2
    <3> QED
      BY ONLY <3>1
  <2>4. /\ p \o q \in Seq(Strings) /\ Len(p \o q) = Len(all)
        /\ \A k \in 1 .. Len(u) : (p \o q)[k] = p[k]
        /\ \A k \in 1 .. Len(v) : (p \o q)[Len(u) + k] = q[k]
        /\ Len(u) \in Nat /\ Len(v) \in Nat /\ Len(all) = Len(u) + Len(v)
    BY <2>1, <2>2, <2>3, <2>6
  <2>5. \A k \in 1 .. Len(all) : all[k] = (p \o q)[k]
    <3> SUFFICES ASSUME NEW k \in 1 .. Len(all) PROVE all[k] = (p \o q)[k]
      OBVIOUS
    <3>1. CASE k =< Len(u)
      BY <2>1, <2>2, <2>3, <2>4, <3>1
    <3>2. CASE k > Len(u)
      <4>1. PICK i \in 1 .. Len(v) : k = Len(u) + i
        <5>1. k - Len(u) \in 1 .. Len(v) /\ k = Len(u) + (k - Len(u))
          BY <2>1, <2>3, <3>2
        <5> QED
          BY <5>1
      <4>2. w[k] = v[i] /\ (p \o q)[k] = q[i] /\ q[i] = one(v[i])
        BY <2>1, <2>2, <2>4, <4>1
      <4>3. all[k] = one(w[k])
        BY <2>3
      <4> QED
        BY <4>2, <4>3
    <3> QED
      BY <2>4, <3>1, <3>2
  <2> QED
    BY <2>3, <2>4, <2>5, SeqEqual
<1> HIDE DEF w, p, q
<1>3. SegmentsOf(w) = SegmentsOf(u) \o SegmentsOf(v)
  BY <1>1, <1>2 DEF all
<1> QED
  BY <1>3 DEF w

LEMMA UrlHasShape ==
    ASSUME NEW template, NEW r, Bound(template, r),
           LET url == Url(template, r) IN \A k \in DOMAIN url : url[k] # <<Blank>>
    PROVE  Fits(FlattenSeq(Patterns(template)), SegmentsOf(Url(template, r)))
<1> DEFINE n == Len(template)
           urls == UrlParts(template, r)
           pats == Patterns(template)
           url == Url(template, r)
           X == Seq(Strings)
           segs(k) == SegmentsOf(Upto(urls, k))
           Good == {k \in Nat : k =< n => Fits(Upto(pats, k), segs(k)) /\ segs(k) \in X}
<1>1. n \in Nat /\ DOMAIN template = 1 .. n
  BY DEF Bound
<1>2. ASSUME NEW k \in 1 .. n
      PROVE  /\ UrlOf(template[k], r) \in Seq(X)
             /\ PatternOf(template[k]) \in X /\ SegmentsOf(UrlOf(template[k], r)) \in X
             /\ (\A i \in DOMAIN UrlOf(template[k], r) : UrlOf(template[k], r)[i] # <<Blank>>) =>
                   Fits(PatternOf(template[k]), SegmentsOf(UrlOf(template[k], r)))
  <2> DEFINE part == template[k]
  <2>1. /\ IsPart(part)
        /\ part.field # <<>> => /\ r[part.field] \in Seq(Strings)
                                /\ Anything(part.pattern) \/ Fits(part.pattern, r[part.field])
    BY <1>1 DEF Bound
  <2> HIDE DEF part
  <2>2. /\ UrlOf(part, r) \in Seq(X)
        /\ PatternOf(part) \in X /\ SegmentsOf(UrlOf(part, r)) \in X
        /\ (\A i \in DOMAIN UrlOf(part, r) : UrlOf(part, r)[i] # <<Blank>>) =>
              Fits(PatternOf(part), SegmentsOf(UrlOf(part, r)))
    BY <2>1, PartHasShape
  <2> QED
    BY <2>2 DEF part
<1>3. url = FlattenSeq(urls)
  BY DEF Url, UrlParts, UrlOf
<1>4. /\ urls \in Seq(Seq(X)) /\ pats \in Seq(X) /\ Len(urls) = n /\ Len(pats) = n
      /\ \A k \in 1 .. n : urls[k] = UrlOf(template[k], r) /\ pats[k] = PatternOf(template[k])
  BY <1>1, <1>2 DEF UrlParts, Patterns
<1>5. \A k \in DOMAIN url : url[k] # <<Blank>>
  OBVIOUS
<1> HIDE DEF n, urls, pats, url
<1>6. Accumulates(X, urls) /\ Accumulates(Strings, pats)
  BY <1>4, FlattenUpto DEF X
<1>7. \A k \in 1 .. n : Fits(pats[k], SegmentsOf(urls[k]))
  <2> SUFFICES ASSUME NEW k \in 1 .. n PROVE Fits(pats[k], SegmentsOf(urls[k]))
    OBVIOUS
  <2>1. ASSUME NEW i \in DOMAIN urls[k] PROVE urls[k][i] # <<Blank>>
    <3>1. i \in 1 .. Len(urls[k]) /\ k \in 1 .. Len(urls)
      BY <1>4
    <3> DEFINE m == Len(Upto(urls, k - 1)) + i
    <3>2. m \in 1 .. Len(url) /\ url[m] = urls[k][i]
      BY <1>3, <1>4, <3>1, FlattenAt
    <3>3. url \in Seq(X)
      BY <1>3, <1>4, FlattenType
    <3>4. DOMAIN url = 1 .. Len(url)
      BY <3>3
    <3> HIDE DEF m
    <3> QED
      BY <1>5, <3>2, <3>4
  <2> QED
    BY <1>2, <1>4, <2>1
<1>8. 0 \in Good
  <2>1. Upto(urls, 0) = <<>> /\ Upto(pats, 0) = <<>>
    BY <1>4, <1>6 DEF Accumulates
  <2>2. SegmentsOf(<<>>) = <<>> /\ <<>> \in X
    BY DEF SegmentsOf
  <2>3. Fits(<<>>, <<>>)
    <3>1. <<>> \in Seq(Strings) /\ Len(<<>>) = 0
      OBVIOUS
    <3>3. EndsOver(<<>>, <<>>, Ends(<<>>, <<>>))
      BY <3>1, EndsRun
    <3>2. Ends(<<>>, <<>>)[0] = {0}
      BY <3>3 DEF EndsOver
    <3> QED
      BY <3>1, <3>2 DEF Fits
  <2> QED
    BY <2>1, <2>2, <2>3
<1>9. ASSUME NEW k \in Nat, k \in Good PROVE k + 1 \in Good
  <2> SUFFICES ASSUME k + 1 =< n
               PROVE  Fits(Upto(pats, k + 1), segs(k + 1)) /\ segs(k + 1) \in X
    OBVIOUS
  <2>1. k + 1 \in 1 .. n /\ k \in 0 .. n /\ k + 1 - 1 = k /\ k =< n
    BY <1>1 DEF n
  <2>2. OneMore(urls, k + 1) /\ OneMore(pats, k + 1)
    BY <1>4, <1>6, <2>1 DEF Accumulates
  <2>3. Upto(urls, k + 1) = Upto(urls, k) \o urls[k + 1] /\ Upto(pats, k + 1) = Upto(pats, k) \o pats[k + 1]
    BY <2>1, <2>2 DEF OneMore
  <2>4. /\ Upto(urls, k) \in Seq(X) /\ Upto(pats, k) \in X
        /\ urls[k + 1] \in Seq(X) /\ pats[k + 1] \in X
        /\ SegmentsOf(urls[k + 1]) \in X
    BY <1>2, <1>4, <1>6, <2>1 DEF Accumulates
  <2>5. segs(k + 1) = segs(k) \o SegmentsOf(urls[k + 1])
    BY <2>3, <2>4, SegmentsOfMore
  <2>6. Fits(Upto(pats, k), segs(k)) /\ segs(k) \in X /\ Fits(pats[k + 1], SegmentsOf(urls[k + 1]))
    BY <1>7, <1>9, <2>1
  <2> HIDE DEF segs
  <2>7. Fits(Upto(pats, k) \o pats[k + 1], segs(k) \o SegmentsOf(urls[k + 1]))
    BY <2>4, <2>6, FitTogether
  <2>8. segs(k) \o SegmentsOf(urls[k + 1]) \in X
    BY <2>4, <2>6
  <2> QED
    BY <2>3, <2>5, <2>7, <2>8
<1> HIDE DEF Good
<1>10. Nat \subseteq Good
  BY <1>8, <1>9, Induction
<1>11. Fits(Upto(pats, n), segs(n))
  BY <1>1, <1>10 DEF Good, n
<1>12. Upto(pats, n) = FlattenSeq(pats) /\ Upto(urls, n) = url
  BY <1>3, <1>4, <1>6 DEF Accumulates
<1> QED
  BY <1>11, <1>12 DEF pats, url

-----------------------------------------------------------------------------
(* Transcoding: the names of fields, and the paths made of them, in snake   *)
(* case and back.                                                           *)
Words == [join : {"none", "_", "capital"}, word : STRING]

SnakeWord(w) == IF w.join = "capital" THEN Joined(w, "_") ELSE w
CamelWord(w) ==
    IF w.join # "_" THEN w ELSE Joined(w, IF w.word \in Caseless THEN "none" ELSE "capital")

LEMMA WordsSpelled ==
    ASSUME NEW w \in Words
    PROVE  /\ SnakeWord(w) \in Words /\ CamelWord(w) \in Words
           /\ CamelWord(SnakeWord(CamelWord(SnakeWord(w)))) = CamelWord(SnakeWord(w))
<1> DEFINE x == SnakeWord(w)
           y == CamelWord(x)
<1>1. \A v \in Words : SnakeWord(v) \in Words /\ CamelWord(v) \in Words
  BY DEF SnakeWord, CamelWord, Joined, Words
<1>2. x \in Words /\ y \in Words /\ x.join # "capital"
  <2>1. x.join # "capital"
    BY DEF SnakeWord, Joined, Words
  <2> HIDE DEF x
  <2>2. x \in Words
    BY <1>1 DEF x
  <2> QED
    BY <1>1, <2>1, <2>2
<1> SUFFICES CamelWord(SnakeWord(y)) = y
  BY <1>1
<1>3. CASE x.join # "_"
  <2>1. y = x
    BY <1>3 DEF CamelWord
  <2> HIDE DEF x, y
  <2>2. SnakeWord(y) = x
    BY <1>2, <2>1 DEF SnakeWord
  <2>3. CamelWord(SnakeWord(y)) = y
    BY ONLY <2>2 DEF y
  <2> QED
    BY <2>3
<1>4. CASE x.join = "_"
  <2> DEFINE case == IF x.word \in Caseless THEN "none" ELSE "capital"
  <2>1. y = [x EXCEPT !.join = case]
    BY <1>4 DEF CamelWord, Joined
  <2> HIDE DEF x, y
  <2>2. y.word = x.word /\ y.join = case
    BY <1>2, <2>1 DEF Words
  <2>3. CASE x.word \in Caseless
    <3>1. SnakeWord(y) = y /\ y.join # "_"
      BY <2>2, <2>3 DEF SnakeWord
    <3>2. CamelWord(y) = y
      BY <3>1 DEF CamelWord
    <3> QED
      BY <3>1, <3>2
  <2>4. CASE x.word \notin Caseless
    <3>1. SnakeWord(y) = [y EXCEPT !.join = "_"]
      BY <2>2, <2>4 DEF SnakeWord, Joined
    <3>4. x = [join |-> "_", word |-> x.word]
      BY <1>2, <1>4 DEF Words
    <3>5. y = [join |-> case, word |-> x.word]
      BY <2>1, <3>4
    <3>6. SnakeWord(y) = [join |-> "_", word |-> x.word]
      BY <3>1, <3>5
    <3>2. SnakeWord(y) = x
      BY <3>4, <3>6
    <3>3. CamelWord(SnakeWord(y)) = y
      BY ONLY <3>2 DEF y
    <3> QED
      BY <3>3
  <2> QED
    BY <2>3, <2>4
<1> QED
  BY <1>3, <1>4

LEMMA NamesSpelled ==
    ASSUME NEW name \in FieldNames
    PROVE  /\ Snake(name) \in FieldNames /\ Camel(name) \in FieldNames
           /\ Camel(Snake(Camel(Snake(name)))) = Camel(Snake(name))
<1>1. /\ \A n \in FieldNames :
            /\ Len(n) \in Nat /\ DOMAIN n = 1 .. Len(n) /\ \A i \in DOMAIN n : n[i] \in Words
            /\ Snake(n) = [i \in DOMAIN n |-> SnakeWord(n[i])]
            /\ Camel(n) = [i \in DOMAIN n |-> CamelWord(n[i])]
  <2> SUFFICES ASSUME NEW n \in FieldNames
               PROVE  /\ Len(n) \in Nat /\ DOMAIN n = 1 .. Len(n) /\ \A i \in DOMAIN n : n[i] \in Words
                      /\ Snake(n) = [i \in DOMAIN n |-> SnakeWord(n[i])]
                      /\ Camel(n) = [i \in DOMAIN n |-> CamelWord(n[i])]
    OBVIOUS
  <2>1. Snake(n) = [i \in DOMAIN n |-> SnakeWord(n[i])]
    BY Zenon DEF Snake, SnakeWord
  <2>2. Camel(n) = [i \in DOMAIN n |-> CamelWord(n[i])]
    BY Zenon DEF Camel, CamelWord
  <2>3. n \in Seq(Words)
    BY DEF FieldNames, Words
  <2> HIDE DEF FieldNames, Words
  <2>4. Len(n) \in Nat /\ DOMAIN n = 1 .. Len(n) /\ \A i \in DOMAIN n : n[i] \in Words
    BY <2>3
  <2> QED
    BY <2>1, <2>2, <2>4
<1>2. ASSUME NEW n \in FieldNames PROVE Snake(n) \in FieldNames /\ Camel(n) \in FieldNames
  <2>1. Snake(n) \in [1 .. Len(n) -> Words] /\ Camel(n) \in [1 .. Len(n) -> Words] /\ Len(n) \in Nat
    BY <1>1, <1>2, WordsSpelled
  <2>2. Snake(n) \in Seq(Words) /\ Camel(n) \in Seq(Words)
    BY <2>1, SequenceOf
  <2> QED
    BY <2>2 DEF FieldNames, Words
<1> DEFINE a == Snake(name)
           b == Camel(a)
           c == Snake(b)
           d == Camel(c)
<1>3. a \in FieldNames /\ b \in FieldNames /\ c \in FieldNames
  BY <1>2
<1>4. DOMAIN a = DOMAIN name /\ \A i \in DOMAIN name : a[i] = SnakeWord(name[i]) /\ name[i] \in Words
  BY <1>1
<1> HIDE DEF a
<1>5. DOMAIN b = DOMAIN a /\ \A i \in DOMAIN a : b[i] = CamelWord(a[i])
  BY <1>1, <1>3
<1>9. b = [i \in DOMAIN b |-> b[i]]
  <2>1. b = [i \in DOMAIN a |-> CamelWord(a[i])]
    BY <1>1, <1>3
  <2> HIDE DEF b
  <2> QED
    BY <2>1
<1> HIDE DEF b
<1>6. DOMAIN c = DOMAIN b /\ \A i \in DOMAIN b : c[i] = SnakeWord(b[i])
  BY <1>1, <1>3
<1> HIDE DEF c
<1>7. d = [i \in DOMAIN b |-> CamelWord(c[i])]
  BY <1>1, <1>3, <1>6
<1>8. \A i \in DOMAIN b : CamelWord(c[i]) = b[i]
  BY <1>4, <1>5, <1>6, WordsSpelled
<1>10. d = b
  BY <1>7, <1>8, <1>9
<1> QED
  BY <1>2, <1>10 DEF a, b, c, d

(* (Only this much of names matters from here on.)                          *)
IsPath(path) == path \in Seq(FieldNames) /\ path # <<>>

LEMMA PathsSpelled ==
    ASSUME NEW p \in Seq(FieldNames)
    PROVE  /\ Len(p) \in Nat /\ DOMAIN p = 1 .. Len(p)
           /\ SnakePath(p) \in Seq(FieldNames) /\ Len(SnakePath(p)) = Len(p)
           /\ CamelPath(p) \in Seq(FieldNames) /\ Len(CamelPath(p)) = Len(p)
           /\ \A i \in 1 .. Len(p) : /\ SnakePath(p)[i] = Snake(p[i])
                                     /\ CamelPath(p)[i] = Camel(p[i])
<1>1. Len(p) \in Nat /\ DOMAIN p = 1 .. Len(p) /\ \A i \in 1 .. Len(p) : p[i] \in FieldNames
  OBVIOUS
<1>2. /\ SnakePath(p) \in [1 .. Len(p) -> FieldNames]
      /\ CamelPath(p) \in [1 .. Len(p) -> FieldNames]
      /\ \A i \in 1 .. Len(p) : SnakePath(p)[i] = Snake(p[i]) /\ CamelPath(p)[i] = Camel(p[i])
  BY <1>1, NamesSpelled DEF SnakePath, CamelPath
<1> QED
  BY <1>1, <1>2, SequenceOf

LEMMA SpelledPath ==
    ASSUME NEW p \in Seq(FieldNames)
    PROVE  /\ Spelled(p) \in Seq(FieldNames) /\ Len(Spelled(p)) = Len(p)
           /\ \A i \in 1 .. Len(p) : Spelled(p)[i] = Camel(Snake(p[i]))
           /\ Spelled(Spelled(p)) = Spelled(p)
<1>1. ASSUME NEW q \in Seq(FieldNames)
      PROVE  /\ Spelled(q) \in Seq(FieldNames) /\ Len(Spelled(q)) = Len(q)
             /\ \A i \in 1 .. Len(q) : Spelled(q)[i] = Camel(Snake(q[i]))
  <2> DEFINE s == SnakePath(q)
  <2>1. s \in Seq(FieldNames) /\ Len(s) = Len(q) /\ \A i \in 1 .. Len(q) : s[i] = Snake(q[i])
    BY <1>1, PathsSpelled
  <2> HIDE DEF s
  <2>2. /\ CamelPath(s) \in Seq(FieldNames) /\ Len(CamelPath(s)) = Len(s)
        /\ \A i \in 1 .. Len(s) : CamelPath(s)[i] = Camel(s[i])
    BY <2>1, PathsSpelled
  <2>3. Spelled(q) = CamelPath(s)
    BY DEF Spelled, s
  <2> QED
    BY <2>1, <2>2, <2>3
<1> DEFINE s == Spelled(p)
           t == Spelled(s)
<1>2. s \in Seq(FieldNames) /\ Len(s) = Len(p) /\ \A i \in 1 .. Len(p) : s[i] = Camel(Snake(p[i]))
  BY <1>1
<1> HIDE DEF s
<1>3. t \in Seq(FieldNames) /\ Len(t) = Len(s) /\ \A i \in 1 .. Len(s) : t[i] = Camel(Snake(s[i]))
  BY <1>1, <1>2
<1> HIDE DEF t
<1>4. \A i \in 1 .. Len(p) : p[i] \in FieldNames
  OBVIOUS
<1>5. \A i \in 1 .. Len(s) : t[i] = s[i]
  BY <1>2, <1>3, <1>4, NamesSpelled
<1>6. t = s
  BY <1>2, <1>3, <1>5, SeqEqual
<1> QED
  BY <1>1, <1>6 DEF s, t

(* A path within another stays there however the two are spelled.           *)
LEMMA SpelledPrefix ==
    ASSUME NEW p \in Seq(FieldNames), NEW q \in Seq(FieldNames), IsPrefix(p, q)
    PROVE  IsPrefix(Spelled(p), Spelled(q))
<1>1. Len(p) =< Len(q) /\ \A i \in 1 .. Len(p) : p[i] = q[i]
  BY PrefixByElement
<1>2. /\ Spelled(p) \in Seq(FieldNames) /\ Len(Spelled(p)) = Len(p)
      /\ Spelled(q) \in Seq(FieldNames) /\ Len(Spelled(q)) = Len(q)
      /\ \A i \in 1 .. Len(p) : Spelled(p)[i] = Camel(Snake(p[i]))
      /\ \A i \in 1 .. Len(q) : Spelled(q)[i] = Camel(Snake(q[i]))
  BY SpelledPath
<1>3. Len(Spelled(p)) =< Len(Spelled(q)) /\ \A i \in 1 .. Len(Spelled(p)) : Spelled(p)[i] = Spelled(q)[i]
  <2>1. Len(p) \in Nat /\ Len(q) \in Nat
    OBVIOUS
  <2> QED
    BY <1>1, <1>2, <2>1
<1> QED
  BY <1>2, <1>3, PrefixByElement

(* Requests whose fields are told apart by their names, whichever way these *)
(* are spelled, as Requests are of which every name survives.               *)
IsRequest(r) ==
    \A p \in DOMAIN r :
        /\ IsPath(p)
        /\ r[p] = Undefined => Spelled(p) = p
        /\ \A q \in DOMAIN r : IsPrefix(Spelled(p), Spelled(q)) => p = q

LEMMA Spellings ==
    ASSUME NEW r, IsRequest(r), NEW p \in DOMAIN r, NEW q \in DOMAIN r
    PROVE  /\ IsPrefix(SnakePath(p), SnakePath(q)) => p = q
           /\ SnakePath(p) = SnakePath(q) => p = q
           /\ Spelled(p) = Spelled(q) => p = q
           /\ IsPrefix(Spelled(p), q) => p = q
<1>1. /\ p \in Seq(FieldNames) /\ q \in Seq(FieldNames)
      /\ IsPrefix(Spelled(p), Spelled(q)) => p = q
  BY DEF IsRequest, IsPath
<1>2. /\ Len(p) \in Nat /\ Len(q) \in Nat
      /\ SnakePath(p) \in Seq(FieldNames) /\ SnakePath(q) \in Seq(FieldNames)
      /\ Spelled(p) \in Seq(FieldNames) /\ Len(Spelled(p)) = Len(p)
      /\ Spelled(q) \in Seq(FieldNames) /\ Spelled(Spelled(p)) = Spelled(p)
  BY <1>1, PathsSpelled, SpelledPath
<1>3. ASSUME IsPrefix(SnakePath(p), SnakePath(q))
      PROVE  IsPrefix(Spelled(p), Spelled(q))
  <2> DEFINE s == SnakePath(p)
             t == SnakePath(q)
  <2>1. s \in Seq(FieldNames) /\ t \in Seq(FieldNames)
    BY <1>2
  <2>0. IsPrefix(s, t)
    BY <1>3
  <2> HIDE DEF s, t
  <2>2. Len(s) =< Len(t) /\ \A i \in 1 .. Len(s) : s[i] = t[i]
    BY <2>0, <2>1, PrefixByElement
  <2>3. /\ CamelPath(s) \in Seq(FieldNames) /\ Len(CamelPath(s)) = Len(s) /\ Len(s) \in Nat
        /\ CamelPath(t) \in Seq(FieldNames) /\ Len(CamelPath(t)) = Len(t) /\ Len(t) \in Nat
        /\ \A i \in 1 .. Len(s) : CamelPath(s)[i] = Camel(s[i])
        /\ \A i \in 1 .. Len(t) : CamelPath(t)[i] = Camel(t[i])
    BY <2>1, PathsSpelled
  <2>4. \A i \in 1 .. Len(CamelPath(s)) : CamelPath(s)[i] = CamelPath(t)[i]
    BY <2>2, <2>3
  <2>5. IsPrefix(CamelPath(s), CamelPath(t))
    BY <2>2, <2>3, <2>4, PrefixByElement
  <2> QED
    BY <2>5 DEF Spelled, s, t
<1>4. Spelled(p) = Spelled(q) => IsPrefix(Spelled(p), Spelled(q))
  BY <1>2, PrefixByElement
<1>5. SnakePath(p) = SnakePath(q) => Spelled(p) = Spelled(q)
  BY DEF Spelled
<1>6. IsPrefix(Spelled(p), q) => IsPrefix(Spelled(p), Spelled(q))
  BY <1>1, <1>2, SpelledPrefix
<1> QED
  BY <1>1, <1>3, <1>4, <1>5, <1>6

LEMMA SnakeIs ==
    ASSUME NEW r, IsRequest(r)
    PROVE  /\ DOMAIN SnakeRequest(r) = {SnakePath(p) : p \in DOMAIN r}
           /\ \A p \in DOMAIN r : SnakeRequest(r)[SnakePath(p)] = r[p]
<1>1. DOMAIN SnakeRequest(r) = {SnakePath(p) : p \in DOMAIN r}
  BY DEF SnakeRequest
<1>2. ASSUME NEW p \in DOMAIN r PROVE SnakeRequest(r)[SnakePath(p)] = r[p]
  <2> DEFINE x == CHOOSE q \in DOMAIN r : SnakePath(q) = SnakePath(p)
  <2>1. x \in DOMAIN r /\ SnakePath(x) = SnakePath(p)
    BY Zenon
  <2>2. SnakeRequest(r)[SnakePath(p)] = r[x]
    BY DEF SnakeRequest
  <2> HIDE DEF x
  <2> QED
    BY <2>1, <2>2, Spellings
<1> QED
  BY <1>1, <1>2

LEMMA CamelIs ==
    ASSUME NEW d, \A x, y \in DOMAIN d : CamelPath(x) = CamelPath(y) => x = y
    PROVE  /\ DOMAIN CamelRequest(d) = {CamelPath(x) : x \in DOMAIN d}
           /\ \A x \in DOMAIN d : CamelRequest(d)[CamelPath(x)] = d[x]
<1>1. DOMAIN CamelRequest(d) = {CamelPath(x) : x \in DOMAIN d}
  BY DEF CamelRequest
<1>2. ASSUME NEW x \in DOMAIN d PROVE CamelRequest(d)[CamelPath(x)] = d[x]
  <2> DEFINE y == CHOOSE q \in DOMAIN d : CamelPath(q) = CamelPath(x)
  <2>1. y \in DOMAIN d /\ CamelPath(y) = CamelPath(x)
    BY Zenon
  <2>2. CamelRequest(d)[CamelPath(x)] = d[y]
    BY DEF CamelRequest
  <2> HIDE DEF y
  <2> QED
    BY <2>1, <2>2
<1> QED
  BY <1>1, <1>2

(* The fields of a template are fields of what it matches.                  *)
LEMMA MatchedAreFields ==
    ASSUME NEW r, IsRequest(r), NEW template, Matches(template, SnakeRequest(r)),
           NEW f \in MatchedFields(template)
    PROVE  \E p \in DOMAIN r : f = SnakePath(p)
<1>1. PICK k \in DOMAIN template : f = template[k].field /\ f # <<>>
  BY DEF MatchedFields
<1>2. f \in DOMAIN SnakeRequest(r)
  BY <1>1 DEF Matches
<1> QED
  BY <1>2, SnakeIs

IsSet(r, p) == p \in DOMAIN r /\ ~(p \in {<<f>> : f \in OptionalFields} /\ r[p] = Undefined)

(* A field that is not set is optional by its name in snake case too.       *)
LEMMA OptionalEitherWay ==
    ASSUME NEW r, IsRequest(r), NEW p \in DOMAIN r, r[p] = Undefined
    PROVE  LET names    == {x[1] : x \in DOMAIN SnakeRequest(r)}
               optional == {f \in names : Camel(f) \in OptionalFields}
           IN  SnakePath(p) \in {<<f>> : f \in optional} <=> p \in {<<f>> : f \in OptionalFields}
<1> DEFINE names == {x[1] : x \in DOMAIN SnakeRequest(r)}
           optional == {f \in names : Camel(f) \in OptionalFields}
           s == SnakePath(p)
<1>1. p \in Seq(FieldNames) /\ p # <<>> /\ Spelled(p) = p
  BY DEF IsRequest, IsPath
<1>2. /\ Len(p) \in Nat /\ s \in Seq(FieldNames) /\ Len(s) = Len(p)
      /\ \A i \in 1 .. Len(p) : s[i] = Snake(p[i])
      /\ \A i \in 1 .. Len(p) : p[i] = Camel(Snake(p[i]))
  BY <1>1, PathsSpelled, SpelledPath
<1>3. 1 \in 1 .. Len(p)
  BY <1>1
<1>4. s[1] = Snake(p[1]) /\ p[1] = Camel(s[1]) /\ s[1] \in names
  <2>1. s \in DOMAIN SnakeRequest(r)
    BY SnakeIs
  <2> HIDE DEF s
  <2> QED
    BY <1>2, <1>3, <2>1
<1> HIDE DEF s, names
<1>5. ASSUME NEW f \in optional, s = <<f>>
      PROVE  p \in {<<g>> : g \in OptionalFields}
  <2>1. Len(p) = 1 /\ s[1] = f
    BY <1>2, <1>5, OneLong
  <2>2. p = <<p[1]>>
    BY <1>1, <2>1
  <2>3. p[1] = Camel(f) /\ Camel(f) \in OptionalFields
    BY <1>4, <2>1, <1>5
  <2> QED
    BY <2>2, <2>3
<1>6. ASSUME NEW g \in OptionalFields, p = <<g>>
      PROVE  s \in {<<f>> : f \in optional}
  <2>1. Len(s) = 1 /\ p[1] = g
    BY <1>2, <1>6, OneLong
  <2>2. s = <<s[1]>> /\ s[1] \in optional
    BY <1>2, <1>4, <1>6, <2>1
  <2> QED
    BY <2>2
<1> QED
  BY <1>5, <1>6 DEF s, names

LEMMA WholeIsNotNone == WholeBody # NoBody
<1> DEFINE star == [join |-> "none", word |-> "*"]
<1>1. WholeBody = <<star>> /\ NoBody = <<>>
  BY DEF WholeBody, NoBody
<1> HIDE DEF star
<1>2. <<star>> # <<>>
  OBVIOUS
<1> QED
  BY ONLY <1>1, <1>2

(* The body, when it is all of the request: the fields that are set and not *)
(* in the URL.                                                              *)
LEMMA WholeBodyData ==
    ASSUME NEW r, IsRequest(r), NEW binding, binding.body = WholeBody,
           Matches(binding.template, SnakeRequest(r))
    PROVE  LET matched == MatchedFields(binding.template)
               kept    == {p \in DOMAIN r : IsSet(r, p) /\ SnakePath(p) \notin matched}
           IN  /\ DOMAIN Data(r, binding) = {Spelled(p) : p \in kept}
               /\ \A p \in kept : Data(r, binding)[Spelled(p)] = r[p]
<1> DEFINE snake    == SnakeRequest(r)
           matched  == MatchedFields(binding.template)
           optional == {f \in {x[1] : x \in DOMAIN snake} : Camel(f) \in OptionalFields}
           w        == WithoutFields(snake, matched)
           d        == DropUnset(w, optional)
           kept     == {p \in DOMAIN r : IsSet(r, p) /\ SnakePath(p) \notin matched}
<1>1. Data(r, binding) = CamelRequest(d)
  BY WholeIsNotNone, Zenon DEF Data
<1>2. /\ DOMAIN w = {x \in DOMAIN snake : ~\E f \in matched : IsPrefix(f, x)}
      /\ \A x \in DOMAIN w : w[x] = snake[x]
  BY DEF WithoutFields
<1>3. /\ DOMAIN d = {x \in DOMAIN w : ~(x \in {<<f>> : f \in optional} /\ w[x] = Undefined)}
      /\ \A x \in DOMAIN d : d[x] = w[x]
  BY DEF DropUnset
<1>4. /\ DOMAIN snake = {SnakePath(p) : p \in DOMAIN r}
      /\ \A p \in DOMAIN r : snake[SnakePath(p)] = r[p]
  BY SnakeIs
<1>5. \A f \in matched : \E p \in DOMAIN r : f = SnakePath(p)
  BY MatchedAreFields
<1>6. \A p \in DOMAIN r : r[p] = Undefined =>
         (SnakePath(p) \in {<<f>> : f \in optional} <=> p \in {<<f>> : f \in OptionalFields})
  BY OptionalEitherWay
<1>7. \A p, q \in DOMAIN r : /\ IsPrefix(SnakePath(p), SnakePath(q)) => p = q
                             /\ Spelled(p) = Spelled(q) => p = q
  BY Spellings
<1>8. \A p \in DOMAIN r : IsPrefix(SnakePath(p), SnakePath(p))
  <2> SUFFICES ASSUME NEW p \in DOMAIN r PROVE IsPrefix(SnakePath(p), SnakePath(p))
    OBVIOUS
  <2>1. SnakePath(p) \in Seq(FieldNames)
    BY PathsSpelled DEF IsRequest, IsPath
  <2> QED
    BY <2>1, PrefixByElement
<1> HIDE DEF snake, matched, optional, w, d
<1>9. \A p \in DOMAIN r : SnakePath(p) \in DOMAIN w <=> SnakePath(p) \notin matched
  BY <1>2, <1>4, <1>5, <1>7, <1>8
<1>10. \A p \in DOMAIN r : SnakePath(p) \in DOMAIN d <=> p \in kept
  BY <1>2, <1>3, <1>4, <1>6, <1>9 DEF IsSet
<1>11. DOMAIN d = {SnakePath(p) : p \in kept}
  <2>1. \A x \in DOMAIN d : \E p \in DOMAIN r : x = SnakePath(p)
    BY <1>2, <1>3, <1>4
  <2> HIDE DEF kept
  <2>2. \A p \in kept : p \in DOMAIN r
    BY DEF kept
  <2> QED
    BY <1>10, <2>1, <2>2
<1>12. \A p \in kept : d[SnakePath(p)] = r[p]
  <2> SUFFICES ASSUME NEW p \in kept PROVE d[SnakePath(p)] = r[p]
    OBVIOUS
  <2>1. p \in DOMAIN r /\ SnakePath(p) \in DOMAIN d /\ SnakePath(p) \in DOMAIN w
    BY <1>9, <1>10
  <2> QED
    BY <1>2, <1>3, <1>4, <2>1
<1> HIDE DEF kept
<1>13. \A p \in kept : p \in DOMAIN r
  BY DEF kept
<1>14. \A x, y \in DOMAIN d : CamelPath(x) = CamelPath(y) => x = y
  BY <1>7, <1>11, <1>13 DEF Spelled
<1>15. /\ DOMAIN CamelRequest(d) = {CamelPath(x) : x \in DOMAIN d}
       /\ \A x \in DOMAIN d : CamelRequest(d)[CamelPath(x)] = d[x]
  BY <1>14, CamelIs
<1>16. DOMAIN CamelRequest(d) = {Spelled(p) : p \in kept}
  BY <1>11, <1>15 DEF Spelled
<1>17. \A p \in kept : CamelRequest(d)[Spelled(p)] = r[p]
  BY <1>11, <1>12, <1>15 DEF Spelled
<1> QED
  BY <1>1, <1>16, <1>17 DEF kept, matched

(* The body, when it is a field: what is in the message of that name, or    *)
(* under the path <<>> its value.                                           *)
IsBodyField(body) == body \in FieldNames /\ Snake(Camel(body)) = body /\ body \notin {WholeBody, NoBody}

Inside(r, body) ==
    {p \in DOMAIN r : /\ Snake(p[1]) = body
                      /\ ~(SnakePath(p) \in {<<f>> : f \in OptionalFields} /\ r[p] = Undefined)}

LEMMA PathsWithin ==
    ASSUME NEW p, IsPath(p), NEW body, Snake(p[1]) = body
    PROVE  /\ <<body>> \o Tail(SnakePath(p)) = SnakePath(p)
           /\ CamelPath(Tail(SnakePath(p))) = Tail(Spelled(p))
           /\ <<Camel(body)>> \o Tail(Spelled(p)) = Spelled(p)
           /\ Spelled(p)[1] = Camel(body)
<1> DEFINE s == SnakePath(p)
           c == CamelPath(s)
           t == Tail(s)
<1>1. p \in Seq(FieldNames) /\ Len(p) \in Nat /\ 1 \in 1 .. Len(p)
  BY DEF IsPath
<1>2. s \in Seq(FieldNames) /\ Len(s) = Len(p) /\ s[1] = body
  BY <1>1, PathsSpelled
<1> HIDE DEF s
<1>3. c \in Seq(FieldNames) /\ Len(c) = Len(s) /\ \A i \in 1 .. Len(s) : c[i] = Camel(s[i])
  BY <1>2, PathsSpelled
<1>4. t \in Seq(FieldNames) /\ Len(t) = Len(s) - 1 /\ \A i \in 1 .. Len(s) - 1 : t[i] = s[i + 1]
  BY <1>1, <1>2
<1> HIDE DEF t
<1>5. CamelPath(t) \in Seq(FieldNames) /\ Len(CamelPath(t)) = Len(t)
      /\ \A i \in 1 .. Len(t) : CamelPath(t)[i] = Camel(t[i])
  BY <1>4, PathsSpelled
<1> HIDE DEF c
<1>6. /\ Tail(c) \in Seq(FieldNames) /\ Len(Tail(c)) = Len(c) - 1
      /\ \A i \in 1 .. Len(c) - 1 : Tail(c)[i] = c[i + 1]
  BY <1>1, <1>2, <1>3
<1>7. CamelPath(t) = Tail(c)
  <2>1. Len(CamelPath(t)) = Len(Tail(c))
    BY <1>1, <1>2, <1>3, <1>4, <1>5, <1>6
  <2>2. \A i \in 1 .. Len(CamelPath(t)) : CamelPath(t)[i] = Tail(c)[i]
    <3> SUFFICES ASSUME NEW i \in 1 .. Len(CamelPath(t)) PROVE CamelPath(t)[i] = Tail(c)[i]
      OBVIOUS
    <3>1. /\ i \in 1 .. Len(t) /\ i \in 1 .. Len(s) - 1 /\ i \in 1 .. Len(c) - 1
          /\ i + 1 \in 1 .. Len(s)
      BY <1>1, <1>2, <1>3, <1>4, <1>5
    <3> QED
      BY <1>3, <1>4, <1>5, <1>6, <3>1
  <2> QED
    BY <1>5, <1>6, <2>1, <2>2, SeqEqual
<1>8. ASSUME NEW q \in Seq(FieldNames), q # <<>> PROVE <<q[1]>> \o Tail(q) = q
  BY <1>8
<1>9. s # <<>> /\ c # <<>>
  BY <1>1, <1>2, <1>3
<1>10. <<s[1]>> \o t = s /\ <<c[1]>> \o Tail(c) = c
  BY <1>2, <1>3, <1>8, <1>9 DEF t
<1>11. c[1] = Camel(body)
  BY <1>1, <1>2, <1>3
<1> QED
  BY <1>2, <1>7, <1>10, <1>11 DEF s, c, t, Spelled

LEMMA FieldBodyData ==
    ASSUME NEW r, IsRequest(r), NEW binding, IsBodyField(binding.body)
    PROVE  LET inside == Inside(r, binding.body)
           IN  /\ DOMAIN Data(r, binding) = {Tail(Spelled(p)) : p \in inside}
               /\ \A p \in inside : /\ Data(r, binding)[Tail(Spelled(p))] = r[p]
                                    /\ <<Camel(binding.body)>> \o Tail(Spelled(p)) = Spelled(p)
<1> DEFINE snake  == SnakeRequest(r)
           body   == binding.body
           kept   == DropUnset(snake, OptionalFields)
           found  == {x \in DOMAIN kept : x[1] = body}
           d      == BodyField(snake, body)
           inside == Inside(r, body)
<1>1. Data(r, binding) = CamelRequest(d)
  BY DEF Data, IsBodyField
<1>2. /\ DOMAIN d = {Tail(x) : x \in found}
      /\ \A x \in found : d[Tail(x)] = snake[<<body>> \o Tail(x)]
  BY DEF BodyField
<1>3. DOMAIN kept = {x \in DOMAIN snake : ~(x \in {<<f>> : f \in OptionalFields}
                                            /\ snake[x] = Undefined)}
  BY DEF DropUnset
<1>4. /\ DOMAIN snake = {SnakePath(p) : p \in DOMAIN r}
      /\ \A p \in DOMAIN r : snake[SnakePath(p)] = r[p]
  BY SnakeIs
<1>5. \A p \in DOMAIN r : IsPath(p) /\ SnakePath(p)[1] = Snake(p[1])
  <2> SUFFICES ASSUME NEW p \in DOMAIN r PROVE IsPath(p) /\ SnakePath(p)[1] = Snake(p[1])
    OBVIOUS
  <2>1. p \in Seq(FieldNames) /\ p # <<>> /\ IsPath(p)
    BY DEF IsRequest, IsPath
  <2>2. 1 \in 1 .. Len(p)
    BY <2>1
  <2> QED
    BY <2>1, <2>2, PathsSpelled
<1>6. \A p, q \in DOMAIN r : Spelled(p) = Spelled(q) => p = q
  BY Spellings
<1>7. \A p \in inside : /\ p \in DOMAIN r
                        /\ <<body>> \o Tail(SnakePath(p)) = SnakePath(p)
                        /\ CamelPath(Tail(SnakePath(p))) = Tail(Spelled(p))
                        /\ <<Camel(body)>> \o Tail(Spelled(p)) = Spelled(p)
  BY <1>5, PathsWithin DEF Inside
<1> HIDE DEF snake, kept, d, body
<1>8. found = {SnakePath(p) : p \in inside}
  BY <1>3, <1>4, <1>5 DEF Inside
<1> HIDE DEF found, inside
<1>9. \A p \in inside : SnakePath(p) \in found
  BY <1>8
<1>10. DOMAIN d = {Tail(SnakePath(p)) : p \in inside}
  BY <1>2, <1>8
<1>11. \A p \in inside : d[Tail(SnakePath(p))] = r[p]
  <2> SUFFICES ASSUME NEW p \in inside PROVE d[Tail(SnakePath(p))] = r[p]
    OBVIOUS
  <2>1. d[Tail(SnakePath(p))] = snake[<<body>> \o Tail(SnakePath(p))]
    BY <1>2, <1>9
  <2> QED
    BY <1>4, <1>7, <2>1
<1>12. \A x, y \in DOMAIN d : CamelPath(x) = CamelPath(y) => x = y
  <2> SUFFICES ASSUME NEW x \in DOMAIN d, NEW y \in DOMAIN d, CamelPath(x) = CamelPath(y)
               PROVE  x = y
    OBVIOUS
  <2>1. PICK p \in inside : x = Tail(SnakePath(p))
    BY <1>10
  <2>2. PICK q \in inside : y = Tail(SnakePath(q))
    BY <1>10
  <2>3. Tail(Spelled(p)) = Tail(Spelled(q))
    BY <1>7, <2>1, <2>2
  <2>4. Spelled(p) = Spelled(q)
    BY <1>7, <2>3
  <2> QED
    BY <1>6, <1>7, <2>1, <2>2, <2>4
<1>13. /\ DOMAIN CamelRequest(d) = {CamelPath(x) : x \in DOMAIN d}
       /\ \A x \in DOMAIN d : CamelRequest(d)[CamelPath(x)] = d[x]
  BY <1>12, CamelIs
<1>14. \A p \in inside : Tail(SnakePath(p)) \in DOMAIN d
  BY <1>10
<1>15. DOMAIN CamelRequest(d) = {Tail(Spelled(p)) : p \in inside}
  <2>1. \A x \in DOMAIN d : \E p \in inside : CamelPath(x) = Tail(Spelled(p))
    BY <1>7, <1>10
  <2>2. \A p \in inside : Tail(Spelled(p)) \in {CamelPath(x) : x \in DOMAIN d}
    BY <1>7, <1>14
  <2> QED
    BY <1>13, <2>1, <2>2
<1>16. \A p \in inside : CamelRequest(d)[Tail(Spelled(p))] = r[p]
  <2> SUFFICES ASSUME NEW p \in inside PROVE CamelRequest(d)[Tail(Spelled(p))] = r[p]
    OBVIOUS
  <2>1. CamelRequest(d)[CamelPath(Tail(SnakePath(p)))] = d[Tail(SnakePath(p))]
    BY <1>13, <1>14
  <2> QED
    BY <1>7, <1>11, <2>1
<1> QED
  BY <1>1, <1>7, <1>15, <1>16 DEF inside, body

(* A field of the body's message that is set is inside.                     *)
LEMMA SetInside ==
    ASSUME NEW r, IsRequest(r), NEW body, IsBodyField(body), NEW p, IsSet(r, p),
           Snake(p[1]) = body
    PROVE  p \in Inside(r, body)
<1> SUFFICES ASSUME NEW f \in OptionalFields, SnakePath(p) = <<f>>, r[p] = Undefined
             PROVE  FALSE
  BY DEF Inside, IsSet
<1>1. p \in DOMAIN r /\ p \in Seq(FieldNames) /\ p # <<>> /\ Spelled(p) = p
  BY DEF IsSet, IsRequest, IsPath
<1>2. Len(SnakePath(p)) = Len(p) /\ SnakePath(p)[1] = Snake(p[1]) /\ p[1] = Camel(Snake(p[1]))
  <2>1. 1 \in 1 .. Len(p)
    BY <1>1
  <2> QED
    BY <1>1, <2>1, PathsSpelled, SpelledPath
<1>3. Len(p) = 1 /\ f = body
  BY <1>2, OneLong
<1>4. p = <<f>>
  <2>1. p[1] = f
    BY <1>2, <1>3, OptionalFieldsAssumption
  <2> QED
    BY <1>1, <1>3, <2>1
<1> QED
  BY <1>4 DEF IsSet

(* What is left for the query string.                                       *)
UsedBy(binding) ==
    MatchedFields(binding.template)
        \cup (IF binding.body = NoBody THEN {} ELSE {<<binding.body>>})

LEMMA LeftIsUnused ==
    ASSUME NEW r, IsRequest(r), NEW binding, binding.body # WholeBody,
           Matches(binding.template, SnakeRequest(r)),
           binding.body \in FieldNames, Snake(Camel(binding.body)) = binding.body
    PROVE  LET left == LeftForQuery(r, binding)
           IN  /\ \A p \in DOMAIN left :
                     /\ IsSet(r, p) /\ left[p] = r[p]
                     /\ \A f \in UsedBy(binding) : ~IsPrefix(CamelPath(f), p)
               /\ \A p : /\ IsSet(r, p)
                         /\ SnakePath(p) \notin MatchedFields(binding.template)
                         /\ binding.body # NoBody => Snake(p[1]) # binding.body
                         => p \in DOMAIN left
<1> DEFINE left    == LeftForQuery(r, binding)
           matched == MatchedFields(binding.template)
           body    == binding.body
           w       == WithoutFields(r, {CamelPath(f) : f \in UsedBy(binding)})
<1>1. left = DropUnset(w, OptionalFields)
  BY DEF LeftForQuery, UsedBy
<1>2. /\ DOMAIN w = {p \in DOMAIN r : ~\E f \in UsedBy(binding) : IsPrefix(CamelPath(f), p)}
      /\ \A p \in DOMAIN w : w[p] = r[p]
  BY DEF WithoutFields
<1>3. /\ DOMAIN left = {p \in DOMAIN w : ~(p \in {<<f>> : f \in OptionalFields} /\ w[p] = Undefined)}
      /\ \A p \in DOMAIN left : left[p] = w[p]
  BY <1>1 DEF DropUnset
<1>4. \A f \in matched : \E p \in DOMAIN r : f = SnakePath(p)
  BY MatchedAreFields
<1> HIDE DEF w, left, matched
<1>5. ASSUME NEW p \in DOMAIN r, NEW f \in matched, IsPrefix(CamelPath(f), p)
      PROVE  SnakePath(p) \in matched
  <2>1. PICK q \in DOMAIN r : f = SnakePath(q)
    BY <1>4
  <2>2. IsPrefix(Spelled(q), p)
    BY <1>5, <2>1 DEF Spelled
  <2>3. q = p
    BY <2>2, Spellings
  <2> QED
    BY <2>1, <2>3
<1>6. ASSUME NEW p \in DOMAIN r, body # NoBody, IsPrefix(CamelPath(<<body>>), p)
      PROVE  Snake(p[1]) = body
  <2>1. p \in Seq(FieldNames) /\ <<body>> \in Seq(FieldNames)
    BY OneElement DEF IsRequest, IsPath
  <2>2. Len(<<body>>) = 1 /\ <<body>>[1] = body
    BY OneLong
  <2> DEFINE one == <<body>>
  <2> HIDE DEF one
  <2>3. /\ CamelPath(one) \in Seq(FieldNames) /\ Len(CamelPath(one)) = 1
        /\ CamelPath(one)[1] = Camel(body)
    <3>1. one \in Seq(FieldNames) /\ Len(one) = 1 /\ one[1] = body
      BY <2>1, <2>2 DEF one
    <3> QED
      BY <3>1, PathsSpelled
  <2>4. p[1] = CamelPath(one)[1]
    <3>1. IsPrefix(CamelPath(one), p)
      BY <1>6 DEF one
    <3>2. CamelPath(one) \in Seq(FieldNames) /\ p \in Seq(FieldNames)
      BY <2>1, <2>3
    <3>3. \A i \in 1 .. Len(CamelPath(one)) : CamelPath(one)[i] = p[i]
      BY <3>1, <3>2, PrefixByElement
    <3> QED
      BY <2>3, <3>3
  <2> QED
    BY <2>3, <2>4
<1>7. \A p \in DOMAIN left : /\ IsSet(r, p) /\ left[p] = r[p]
                             /\ \A f \in UsedBy(binding) : ~IsPrefix(CamelPath(f), p)
  BY <1>2, <1>3 DEF IsSet
<1>8. ASSUME NEW p, IsSet(r, p), SnakePath(p) \notin matched, body # NoBody => Snake(p[1]) # body
      PROVE  p \in DOMAIN left
  <2>1. p \in DOMAIN r
    BY <1>8 DEF IsSet
  <2>2. ~\E f \in UsedBy(binding) : IsPrefix(CamelPath(f), p)
    BY <1>5, <1>6, <1>8, <2>1 DEF UsedBy, matched
  <2>3. p \in DOMAIN w /\ w[p] = r[p]
    BY <1>2, <2>1, <2>2
  <2> QED
    BY <1>3, <1>8, <2>3 DEF IsSet
<1> QED
  BY <1>7, <1>8 DEF left, matched

LEMMA QueryIs ==
    ASSUME NEW r, IsRequest(r), NEW binding,
           Matches(binding.template, SnakeRequest(r)),
           binding.body \in FieldNames, Snake(Camel(binding.body)) = binding.body
    PROVE  LET left  == LeftForQuery(r, binding)
               query == QueryString(left)
           IN  /\ binding.body = WholeBody => query = {} /\ DOMAIN left = {}
               /\ query = {Parameter(r, p) : p \in DOMAIN left}
               /\ \A p \in DOMAIN left : IsSet(r, p)
<1> DEFINE left == LeftForQuery(r, binding)
<1>1. CASE binding.body = WholeBody
  <2>1. DOMAIN left = {}
    BY <1>1 DEF LeftForQuery
  <2> HIDE DEF left
  <2>2. QueryString(left) = {}
    BY <2>1 DEF QueryString
  <2> QED
    BY <2>1, <2>2 DEF left
<1>2. CASE binding.body # WholeBody
  <2>1. \A p \in DOMAIN left : IsSet(r, p) /\ left[p] = r[p]
    BY <1>2, LeftIsUnused
  <2> HIDE DEF left
  <2>2. QueryString(left) = {Parameter(r, p) : p \in DOMAIN left}
    BY <2>1 DEF QueryString, Parameter
  <2> QED
    BY <1>2, <2>1, <2>2 DEF left
<1> QED
  BY <1>1, <1>2

(* The rule that is used.                                                   *)
LEMMA BindingFits ==
    ASSUME NEW r, CanTranscode(r)
    PROVE  /\ Min(Fitting(r)) \in DOMAIN Bindings
           /\ Matches(BindingFor(r).template, SnakeRequest(r))
           /\ BindingFor(r).body \in FieldNames
           /\ Snake(Camel(BindingFor(r).body)) = BindingFor(r).body
<1> DEFINE n == Min(Fitting(r))
<1>1. Fitting(r) # {} /\ Fitting(r) \subseteq DOMAIN Bindings
  BY DEF CanTranscode, Fitting
<1>2. DOMAIN Bindings \subseteq Nat
  <2>1. Bindings \in Seq(ToSet(Bindings))
    BY RulesAssumption
  <2>2. DOMAIN Bindings = 1 .. Len(Bindings) /\ Len(Bindings) \in Nat
    BY <2>1
  <2> QED
    BY <2>2
<1>3. \E k \in Fitting(r) : \A m \in Fitting(r) : k =< m
  BY <1>1, <1>2, LeastNatural
<1>4. n \in Fitting(r)
  BY <1>3, Zenon DEF Min
<1> HIDE DEF n
<1>5. n \in DOMAIN Bindings /\ Matches(Bindings[n].template, SnakeRequest(r))
  BY <1>4 DEF Fitting
<1>6. Bindings[n].body \in FieldNames /\ Snake(Camel(Bindings[n].body)) = Bindings[n].body
  BY <1>5, RulesAssumption
<1> QED
  BY <1>5, <1>6 DEF n, BindingFor

(* Whatever is set goes to the URL, the body or the query string.           *)
LEMMA SetGoesSomewhere ==
    ASSUME NEW r, IsRequest(r), CanTranscode(r), NEW p, IsSet(r, p)
    PROVE  LET binding == BindingFor(r)
               data    == Data(r, binding)
           IN  \/ SnakePath(p) \in MatchedFields(binding.template)
               \/ /\ binding.body = WholeBody
                  /\ Spelled(p) \in DOMAIN data /\ data[Spelled(p)] = r[p]
               \/ /\ IsBodyField(binding.body) /\ p \in Inside(r, binding.body)
               \/ p \in DOMAIN LeftForQuery(r, binding)
<1> DEFINE binding == BindingFor(r)
<1>1. /\ Matches(binding.template, SnakeRequest(r))
      /\ binding.body \in FieldNames /\ Snake(Camel(binding.body)) = binding.body
  BY BindingFits
<1> HIDE DEF binding
<1>2. p \in DOMAIN r
  BY DEF IsSet
<1> SUFFICES ASSUME SnakePath(p) \notin MatchedFields(binding.template)
             PROVE  LET data == Data(r, binding)
                    IN  \/ /\ binding.body = WholeBody
                           /\ Spelled(p) \in DOMAIN data /\ data[Spelled(p)] = r[p]
                        \/ IsBodyField(binding.body) /\ p \in Inside(r, binding.body)
                        \/ p \in DOMAIN LeftForQuery(r, binding)
  BY DEF binding
<1>3. CASE binding.body = WholeBody
  BY <1>1, <1>2, <1>3, WholeBodyData
<1>4. CASE binding.body # WholeBody /\ binding.body # NoBody /\ Snake(p[1]) = binding.body
  <2>1. IsBodyField(binding.body)
    BY <1>1, <1>4 DEF IsBodyField
  <2> QED
    BY <1>4, <2>1, SetInside
<1>5. CASE binding.body # WholeBody /\ (binding.body # NoBody => Snake(p[1]) # binding.body)
  BY <1>1, <1>5, LeftIsUnused
<1> QED
  BY <1>3, <1>4, <1>5

(* Two URLs of the same template that are the same are made of the same     *)
(* values: one part of a template at most is open, and each of the others   *)
(* takes up a fixed number of segments.                                     *)
LEMMA FixedWidth ==
    ASSUME NEW pattern \in Seq(Strings), NEW value \in Seq(Strings), "**" \notin ToSet(pattern),
           Fits(pattern, value)
    PROVE  Len(value) = Len(pattern)
<1> DEFINE E == Ends(pattern, value)
           n == Len(pattern)
           Good == {k \in Nat : k =< n => E[k] \subseteq {k}}
<1>1. EndsOver(pattern, value, E)
  BY EndsRun
<1>2. Len(value) \in E[n]
  BY DEF Fits
<1>3. n \in Nat /\ DOMAIN value \subseteq Nat /\ \A k \in 1 .. n : pattern[k] # "**"
  BY DEF ToSet
<1> HIDE DEF E, n
<1>4. E[0] = {0} /\ \A k \in 1 .. n : E[k] = NextEnds(pattern[k], value, E[k - 1])
  BY <1>1 DEF EndsOver, n
<1>5. 0 \in Good
  BY <1>4
<1>6. ASSUME NEW k \in Nat, k \in Good PROVE k + 1 \in Good
  <2> SUFFICES ASSUME k + 1 =< n PROVE E[k + 1] \subseteq {k + 1}
    OBVIOUS
  <2>1. k + 1 \in 1 .. n /\ (k + 1) - 1 = k /\ E[k] \subseteq {k}
    BY <1>3, <1>6
  <2>2. E[k + 1] = NextEnds(pattern[k + 1], value, E[k]) /\ pattern[k + 1] # "**"
    BY <1>3, <1>4, <2>1
  <2>3. \A m \in E[k + 1] : m \in Nat /\ m - 1 \in E[k]
    BY <1>3, <2>2 DEF NextEnds
  <2>4. \A m \in E[k + 1] : m \in Nat /\ m - 1 = k
    BY <2>1, <2>3
  <2> QED
    BY <2>4
<1>7. Nat \subseteq Good
  <2> HIDE DEF Good
  <2> QED
    BY <1>5, <1>6, Induction
<1>8. E[n] \subseteq {n}
  BY <1>3, <1>7
<1> QED
  BY <1>2, <1>8 DEF n

LEMMA UrlOfPart ==
    ASSUME NEW part, IsPart(part), NEW r, NEW s, UrlOf(part, r) = UrlOf(part, s),
           part.field # <<>>, r[part.field] \in Seq(Strings), s[part.field] \in Seq(Strings)
    PROVE  r[part.field] = s[part.field]
<1> DEFINE v == r[part.field]
           w == s[part.field]
<1>1. Encode(part.pattern, v) = Encode(part.pattern, w)
  BY DEF UrlOf
<1>2. v \in Seq(Strings) /\ w \in Seq(Strings)
  OBVIOUS
<1> HIDE DEF v, w
<1>3. CASE Anything(part.pattern)
  <2>1. <<v>> = <<w>>
    BY <1>1, <1>3 DEF Encode
  <2> QED
    BY <2>1 DEF v, w
<1>4. CASE ~Anything(part.pattern)
  <2> DEFINE x == [k \in DOMAIN v |-> <<v[k]>>]
             y == [k \in DOMAIN w |-> <<w[k]>>]
  <2>1. x = y
    BY <1>1, <1>4 DEF Encode
  <2>2. /\ DOMAIN x = DOMAIN v /\ DOMAIN y = DOMAIN w
        /\ \A k \in DOMAIN v : x[k] = <<v[k]>>
        /\ \A k \in DOMAIN w : y[k] = <<w[k]>>
    OBVIOUS
  <2> HIDE DEF x, y
  <2>3. DOMAIN v = DOMAIN w /\ \A k \in DOMAIN v : <<v[k]>> = <<w[k]>>
    BY <2>1, <2>2
  <2>4. \A k \in DOMAIN v : v[k] = w[k]
    BY <2>3
  <2>5. Len(v) = Len(w) /\ \A k \in 1 .. Len(v) : v[k] = w[k]
    <3>1. DOMAIN v = 1 .. Len(v) /\ DOMAIN w = 1 .. Len(w) /\ Len(v) \in Nat /\ Len(w) \in Nat
      BY <1>2
    <3>2. \A m, n \in Nat : 1 .. m = 1 .. n => m = n
      <4> SUFFICES ASSUME NEW m \in Nat, NEW n \in Nat, 1 .. m = 1 .. n PROVE m = n
        OBVIOUS
      <4>1. (m >= 1 => m \in 1 .. n) /\ (n >= 1 => n \in 1 .. m)
        OBVIOUS
      <4> QED
        BY <4>1
    <3> QED
      BY <2>3, <2>4, <3>1, <3>2
  <2>6. v = w
    BY <1>2, <2>5, SeqEqual
  <2> QED
    BY <2>6 DEF v, w
<1> QED
  BY <1>3, <1>4

LEMMA WidthOfPart ==
    ASSUME NEW part, IsPart(part), ~IsOpen(part), NEW r, NEW s,
           part.field # <<>> =>
               /\ r[part.field] \in Seq(Strings) /\ s[part.field] \in Seq(Strings)
               /\ Anything(part.pattern) \/ (Fits(part.pattern, r[part.field])
                                             /\ Fits(part.pattern, s[part.field]))
    PROVE  Len(UrlOf(part, r)) = Len(UrlOf(part, s))
<1> DEFINE v == r[part.field]
           w == s[part.field]
           pattern == part.pattern
<1>0. pattern \in Seq(Strings)
  BY DEF IsPart
<1>1. CASE part.field = <<>>
  BY <1>1 DEF UrlOf
<1>2. CASE part.field # <<>> /\ Anything(pattern)
  <2>1. UrlOf(part, r) = <<v>> /\ UrlOf(part, s) = <<w>>
    BY <1>2 DEF UrlOf, Encode
  <2> HIDE DEF v, w
  <2>2. Len(<<v>>) = 1 /\ Len(<<w>>) = 1
    BY OneLong
  <2> QED
    BY <2>1, <2>2
<1>3. CASE part.field # <<>> /\ ~Anything(pattern)
  <2>1. /\ UrlOf(part, r) = [k \in DOMAIN v |-> <<v[k]>>]
        /\ UrlOf(part, s) = [k \in DOMAIN w |-> <<w[k]>>]
    BY <1>3 DEF UrlOf, Encode
  <2>2. v \in Seq(Strings) /\ w \in Seq(Strings) /\ Fits(pattern, v) /\ Fits(pattern, w)
    BY <1>3
  <2>3. "**" \notin ToSet(pattern)
    BY <1>3 DEF IsOpen
  <2> HIDE DEF v, w, pattern
  <2>4. Len(v) = Len(pattern) /\ Len(w) = Len(pattern)
    BY <1>0, <2>2, <2>3, FixedWidth
  <2>5. ASSUME NEW x \in Seq(Strings) PROVE Len([k \in DOMAIN x |-> <<x[k]>>]) = Len(x)
    <3>1. DOMAIN x = 1 .. Len(x) /\ Len(x) \in Nat /\ \A k \in 1 .. Len(x) : x[k] \in Strings
      BY <2>5
    <3>2. [k \in DOMAIN x |-> <<x[k]>>] \in [1 .. Len(x) -> Seq(Strings)]
      BY <3>1, OneElement
    <3> QED
      BY <3>1, <3>2, SequenceOf
  <2> QED
    BY <2>1, <2>2, <2>4, <2>5
<1> QED
  BY <1>1, <1>2, <1>3

LEMMA UrlTellsValues ==
    ASSUME NEW template, NEW r, NEW s, Bound(template, r), Bound(template, s),
           \A j, k \in DOMAIN template : IsOpen(template[j]) /\ IsOpen(template[k]) => j = k,
           Url(template, r) = Url(template, s),
           NEW f \in MatchedFields(template)
    PROVE  r[f] = s[f]
<1> DEFINE n == Len(template)
           us == UrlParts(template, r)
           vs == UrlParts(template, s)
           X == Seq(Strings)
           a(k) == Len(Upto(us, k))
           b(k) == Len(Upto(vs, k))
<1>1. n \in Nat /\ DOMAIN template = 1 .. n
  BY DEF Bound
<1>2. ASSUME NEW k \in 1 .. n
      PROVE  /\ UrlOf(template[k], r) \in Seq(X) /\ UrlOf(template[k], s) \in Seq(X)
             /\ ~IsOpen(template[k]) => Len(UrlOf(template[k], r)) = Len(UrlOf(template[k], s))
             /\ template[k].field # <<>> /\ UrlOf(template[k], r) = UrlOf(template[k], s) =>
                   r[template[k].field] = s[template[k].field]
  <2> DEFINE part == template[k]
  <2>1. /\ IsPart(part)
        /\ part.field # <<>> =>
              /\ r[part.field] \in Seq(Strings) /\ s[part.field] \in Seq(Strings)
              /\ Anything(part.pattern) \/ (Fits(part.pattern, r[part.field])
                                            /\ Fits(part.pattern, s[part.field]))
    BY <1>1 DEF Bound
  <2> HIDE DEF part
  <2>2. UrlOf(part, r) \in Seq(X)
    BY <2>1, PartHasShape
  <2>3. UrlOf(part, s) \in Seq(X)
    BY <2>1, PartHasShape
  <2>4. ~IsOpen(part) => Len(UrlOf(part, r)) = Len(UrlOf(part, s))
    BY <2>1, WidthOfPart
  <2>5. part.field # <<>> /\ UrlOf(part, r) = UrlOf(part, s) => r[part.field] = s[part.field]
    BY <2>1, UrlOfPart
  <2> QED
    BY <2>2, <2>3, <2>4, <2>5 DEF part
<1>3. /\ us \in Seq(Seq(X)) /\ vs \in Seq(Seq(X)) /\ Len(us) = n /\ Len(vs) = n
      /\ \A k \in 1 .. n : /\ us[k] = UrlOf(template[k], r) /\ vs[k] = UrlOf(template[k], s)
                           /\ us[k] \in Seq(X) /\ vs[k] \in Seq(X)
  <2>1. us \in [1 .. n -> Seq(X)] /\ vs \in [1 .. n -> Seq(X)]
    BY <1>1, <1>2 DEF UrlParts
  <2>2. \A k \in 1 .. n : us[k] = UrlOf(template[k], r) /\ vs[k] = UrlOf(template[k], s)
    BY <1>1 DEF UrlParts
  <2> HIDE DEF us, vs, X, n
  <2> QED
    BY <1>1, <1>2, <2>1, <2>2, SequenceOf
<1>4. FlattenSeq(us) = FlattenSeq(vs)
  BY DEF Url, UrlParts, UrlOf
<1>5. PICK i \in 1 .. n : template[i].field = f /\ f # <<>>
  BY <1>1 DEF MatchedFields
<1>6. PICK j \in 1 .. n : \A k \in 1 .. n : IsOpen(template[k]) => k = j
  <2>1. CASE \E j \in 1 .. n : IsOpen(template[j])
    BY <1>1, <2>1
  <2>2. CASE ~\E j \in 1 .. n : IsOpen(template[j])
    BY <1>5, <2>2
  <2> QED
    BY <2>1, <2>2
<1> HIDE DEF n, us, vs, X
<1>7. Accumulates(X, us) /\ Accumulates(X, vs)
  BY <1>3, FlattenUpto
<1>8. /\ \A k \in 0 .. n : a(k) \in Nat /\ b(k) \in Nat
      /\ a(0) = 0 /\ b(0) = 0 /\ a(n) = b(n)
      /\ \A k \in 1 .. n : a(k) = a(k - 1) + Len(us[k]) /\ b(k) = b(k - 1) + Len(vs[k])
  <2>1. \A k \in 0 .. n : Upto(us, k) \in Seq(X) /\ Upto(vs, k) \in Seq(X)
    BY <1>3, <1>7 DEF Accumulates
  <2>2. Upto(us, 0) = <<>> /\ Upto(vs, 0) = <<>> /\ Upto(us, n) = Upto(vs, n)
    BY <1>3, <1>4, <1>7 DEF Accumulates
  <2>3. ASSUME NEW k \in 1 .. n
        PROVE  a(k) = a(k - 1) + Len(us[k]) /\ b(k) = b(k - 1) + Len(vs[k])
    <3>1. Upto(us, k) = Upto(us, k - 1) \o us[k] /\ Upto(vs, k) = Upto(vs, k - 1) \o vs[k]
      BY <1>3, <1>7 DEF Accumulates, OneMore
    <3>2. k - 1 \in 0 .. n
      BY <1>1
    <3> QED
      BY <1>3, <2>1, <3>1, <3>2
  <2>4. \A k \in 0 .. n : a(k) \in Nat /\ b(k) \in Nat
    BY <2>1
  <2> QED
    BY <2>2, <2>3, <2>4
<1> HIDE DEF a, b
<1>9. \A k \in 1 .. n : /\ Len(us[k]) \in Nat /\ Len(vs[k]) \in Nat
                        /\ k # j => Len(us[k]) = Len(vs[k])
  BY <1>2, <1>3, <1>6
<1> DEFINE d == Len(us[j]) - Len(vs[j])
           Good == {k \in Nat : k =< n => a(k) - b(k) = IF k >= j THEN d ELSE 0}
<1> HIDE DEF d
<1>10. 0 \in Good
  <2>1. a(0) - b(0) = 0 /\ ~(0 >= j)
    BY <1>1, <1>6, <1>8
  <2> QED
    BY <2>1
<1>11. ASSUME NEW k \in Nat, k \in Good PROVE k + 1 \in Good
  <2> SUFFICES ASSUME k + 1 =< n PROVE a(k + 1) - b(k + 1) = IF k + 1 >= j THEN d ELSE 0
    OBVIOUS
  <2>1. k + 1 \in 1 .. n /\ (k + 1) - 1 = k /\ k \in 0 .. n /\ k =< n
    BY <1>1
  <2>2. /\ a(k + 1) = a(k) + Len(us[k + 1]) /\ b(k + 1) = b(k) + Len(vs[k + 1])
        /\ a(k) \in Nat /\ b(k) \in Nat /\ Len(us[k + 1]) \in Nat /\ Len(vs[k + 1]) \in Nat
    BY <1>8, <1>9, <2>1
  <2>3. a(k) - b(k) = IF k >= j THEN d ELSE 0
    BY <1>11, <2>1
  <2>4. CASE k + 1 = j
    <3>1. us[k + 1] = us[j] /\ vs[k + 1] = vs[j]
      BY <2>4
    <3>2. d = Len(us[k + 1]) - Len(vs[k + 1])
      BY <3>1 DEF d
    <3>3. k + 1 >= j /\ ~(k >= j)
      BY <2>4
    <3>4. a(k) - b(k) = 0
      BY <2>3, <3>3
    <3>5. a(k + 1) - b(k + 1) = Len(us[k + 1]) - Len(vs[k + 1])
      <4> DEFINE w == a(k)
                 x == b(k)
                 y == Len(us[k + 1])
                 z == Len(vs[k + 1])
      <4>1. w \in Nat /\ x \in Nat /\ y \in Nat /\ z \in Nat /\ w - x = 0
        BY <2>2, <3>4
      <4>2. a(k + 1) = w + y /\ b(k + 1) = x + z
        BY <2>2
      <4> HIDE DEF w, x, y, z
      <4>3. (w + y) - (x + z) = y - z
        BY <4>1
      <4> QED
        BY <4>2, <4>3 DEF y, z
    <3> QED
      BY <3>2, <3>3, <3>5
  <2>5. CASE k + 1 # j
    <3>1. Len(us[k + 1]) = Len(vs[k + 1])
      BY <1>9, <2>1, <2>5
    <3>2. k + 1 >= j <=> k >= j
      BY <1>6, <2>5
    <3> QED
      BY <2>2, <2>3, <3>1, <3>2
  <2> QED
    BY <2>4, <2>5
<1>12. Nat \subseteq Good
  <2> HIDE DEF Good
  <2> QED
    BY <1>10, <1>11, Induction
<1>13. d = 0
  <2>2. n \in Good /\ n >= j
    <3>1. n \in Nat /\ n >= j
      BY <1>1, <1>6
    <3> HIDE DEF Good
    <3> QED
      BY <1>12, <3>1
  <2> HIDE DEF d
  <2>1. a(n) - b(n) = d
    BY <1>1, <2>2
  <2> QED
    BY <1>1, <1>8, <2>1
<1>14. Len(us[i]) = Len(vs[i]) /\ a(i - 1) = b(i - 1) /\ a(i - 1) \in Nat
  <2>1. Len(us[i]) = Len(vs[i])
    BY <1>9, <1>13 DEF d
  <2>2. i - 1 \in Nat /\ i - 1 \in 0 .. n /\ i - 1 =< n
    BY <1>1
  <2>3. a(i - 1) - b(i - 1) = 0
    BY <1>12, <1>13, <2>2
  <2>4. a(i - 1) \in Nat /\ b(i - 1) \in Nat
    BY <1>8, <2>2
  <2>5. a(i - 1) = b(i - 1)
    BY <2>3, <2>4
  <2> QED
    BY <2>1, <2>4, <2>5
<1>15. us[i] = vs[i]
  <2>1. \A m \in 1 .. Len(us[i]) : us[i][m] = vs[i][m]
    <3> SUFFICES ASSUME NEW m \in 1 .. Len(us[i]) PROVE us[i][m] = vs[i][m]
      OBVIOUS
    <3>0. i \in 1 .. Len(us) /\ i \in 1 .. Len(vs) /\ m \in 1 .. Len(vs[i])
      BY <1>3, <1>14
    <3>1. FlattenSeq(us)[Len(Upto(us, i - 1)) + m] = us[i][m]
      BY <1>3, <3>0, FlattenAt
    <3>2. FlattenSeq(vs)[Len(Upto(vs, i - 1)) + m] = vs[i][m]
      BY <1>3, <3>0, FlattenAt
    <3>3. a(i - 1) = Len(Upto(us, i - 1)) /\ b(i - 1) = Len(Upto(vs, i - 1))
      BY DEF a, b
    <3> QED
      BY <1>4, <1>14, <3>1, <3>2, <3>3
  <2> QED
    BY <1>3, <1>14, <2>1, SeqEqual
<1> QED
  BY <1>2, <1>3, <1>5, <1>15

HasStrings(r) == \A p \in DOMAIN r : r[p] \in Seq(STRING)

LEMMA TemplateBound ==
    ASSUME NEW r, IsRequest(r), HasStrings(r), NEW k \in DOMAIN Bindings,
           Matches(Bindings[k].template, SnakeRequest(r))
    PROVE  Bound(Bindings[k].template, SnakeRequest(r))
<1> DEFINE template == Bindings[k].template
           snake == SnakeRequest(r)
           S == STRING
           Typed == [field : Seq(FieldNames), pattern : Seq(S)]
<1>1. /\ template \in Seq(Typed)
      /\ \A i \in DOMAIN template : template[i].field = <<>> => Len(template[i].pattern) = 1
  BY RulesAssumption
<1>2. Matches(template, snake)
  OBVIOUS
<1>3. \A f \in DOMAIN snake : snake[f] \in Seq(S)
  <2>1. \A p \in DOMAIN r : r[p] \in Seq(S)
    BY DEF HasStrings
  <2>2. /\ DOMAIN snake = {SnakePath(p) : p \in DOMAIN r}
        /\ \A p \in DOMAIN r : snake[SnakePath(p)] = r[p]
    BY SnakeIs
  <2> HIDE DEF S, snake
  <2> QED
    BY <2>1, <2>2
<1>4. S \subseteq Strings
  BY DEF Strings
<1> HIDE DEF S, template, snake
<1>5. Seq(S) \subseteq Seq(Strings)
  BY <1>4, LargerSeq
<1>6. Len(template) \in Nat /\ DOMAIN template = 1 .. Len(template)
  BY <1>1
<1>7. \A i \in DOMAIN template : template[i].pattern \in Seq(S)
  <2> SUFFICES ASSUME NEW i \in DOMAIN template PROVE template[i].pattern \in Seq(S)
    OBVIOUS
  <2>1. template[i] \in Typed
    <3> HIDE DEF Typed
    <3> QED
      BY <1>1
  <2> QED
    BY <2>1
<1>8. ASSUME NEW i \in DOMAIN template
      PROVE  /\ IsPart(template[i])
             /\ template[i].field # <<>> =>
                   /\ snake[template[i].field] \in Seq(Strings)
                   /\ \/ Anything(template[i].pattern)
                      \/ Fits(template[i].pattern, snake[template[i].field])
  <2>1. IsPart(template[i])
    BY <1>1, <1>5, <1>7 DEF IsPart
  <2>2. template[i].field # <<>> =>
           /\ template[i].field \in DOMAIN snake
           /\ Anything(template[i].pattern) \/ Fits(template[i].pattern, snake[template[i].field])
    BY <1>2 DEF Matches
  <2> QED
    BY <1>3, <1>5, <2>1, <2>2
<1>9. Bound(template, snake)
  BY <1>6, <1>8 DEF Bound
<1> QED
  BY <1>9 DEF template, snake

=============================================================================
