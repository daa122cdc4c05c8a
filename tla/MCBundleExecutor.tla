-------------------------- MODULE MCBundleExecutor --------------------------
(* A small instance of BundleExecutor with two bundle ids: requests that    *)
(* wait together, one that reaches the threshold alone and with another the *)
(* limits, one over the limits, and one that cannot be bundled.  Some say   *)
(* null where others lack the field, and one has another's value in the     *)
(* other field.                                                             *)
EXTENDS BundleIds, TLC

CONSTANTS c1, c2, c3, large, other, big, loose

shelf == <<"book", "shelf">>
language == <<"language">>

MCFields == <<shelf, language>>

MCRequest ==
    [c \in Calls |->
        CASE c = loose    -> <<"note">> :> "s"
          [] c = other    -> language :> "s"
          [] c \in {c2, c3} -> shelf :> "s" @@ language :> Null
          [] OTHER        -> shelf :> "s"]

MCBundleOf == [c \in Calls |-> ComputeBundleId(MCRequest[c], MCFields)]

MCBundleIds == {MCBundleOf[c] : c \in Calls} \ {NoBundle}

MCSize ==
    [c \in Calls |-> CASE c = big -> 7 [] c = large -> 5 [] c \in {c2, c3} -> 2
                       [] OTHER -> 1]

MCBytes ==
    [c \in Calls |-> CASE c = big -> 9 [] c = large -> 3 [] OTHER -> 2]

(* Equal requests are interchangeable.                                      *)
MCSymmetry == Permutations({c2, c3})

=============================================================================
