------------------------------ MODULE BundleIds ------------------------------
(***************************************************************************)
(* Which calls share a bundle: computeBundleId of src/src/bundlingCalls/   *)
(* bundlingUtils.ts, which gives BundleExecutor its BundleOf.  A request   *)
(* is a function from the paths of its fields to their values, which are   *)
(* not messages here.                                                      *)
(***************************************************************************)
EXTENDS BundleExecutor

CONSTANTS
    Request,               \* the request of each call
    DiscriminatorFields    \* the descriptor's requestDiscriminatorFields, as paths

Null == "null"

At(request, field) == IF field \in DOMAIN request THEN request[field] ELSE Null

ComputeBundleIdSkipping(request, fields) ==   \* mutant: missing fields have no place
    LET known == SelectSeq(fields, LAMBDA f : f \in DOMAIN request)
    IN  IF known = <<>> THEN NoBundle ELSE [k \in DOMAIN known |-> request[known[k]]]

(* The values of the fields in their order, as JSON: a missing field counts *)
(* as null.  Without any of the fields there is no id.                      *)
ComputeBundleId(request, fields) ==
    IF \A k \in DOMAIN fields : fields[k] \notin DOMAIN request THEN NoBundle
    ELSE [k \in DOMAIN fields |-> At(request, fields[k])]

ASSUME BundleOfAssumption ==
    BundleOf = [c \in Calls |-> ComputeBundleId(Request[c], DiscriminatorFields)]

(* A bundled request is its task's first request with the elements of the   *)
(* others, so whatever call a task was created for, even one that was       *)
(* rejected since, its discriminator fields are those of every call that    *)
(* waits in it or is sent with it (bundleExecutor.ts:127-185, task.ts:      *)
(* 112-136, bundlingUtils.ts:34-53).                                        *)
RequestSpeaksForAll ==
    \A task \in {tasks[b] : b \in BundleIds} \cup inflight :
        task # NoTask =>
            \A c \in ToSet(task.data), k \in DOMAIN DiscriminatorFields :
                At(Request[c], DiscriminatorFields[k]) =
                    At(Request[task.base], DiscriminatorFields[k])

=============================================================================
