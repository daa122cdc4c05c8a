------------------------------ MODULE MCApiCall ------------------------------
(* Small instances of ApiCall: every transport and style, with a total      *)
(* timeout, with maxRetries, with both (an error), with neither, without     *)
(* retries, with retries of cancelled attempts, and with a null multiplier   *)
(* or maximum of the timeouts, for one request, which may be one that cannot *)
(* be encoded, and for a list of two pages.                                  *)
EXTENDS ApiCall

MCRetryCodes == {"UNAVAILABLE", "DEADLINE_EXCEEDED"}

Limits(codes, total, max) ==
    [retryCodes |-> codes, totalTimeout |-> total, maxRetries |-> max,
     timeoutMultiplier |-> 2, maxTimeout |-> 3]

MCLimits ==
    {Limits(MCRetryCodes, 5, Unset), Limits(MCRetryCodes, 1, Unset),
     Limits(MCRetryCodes, 0, 2), Limits(MCRetryCodes, 0, 0), Limits(MCRetryCodes, 0, Unset),
     Limits(MCRetryCodes, 5, 1), Limits({"CANCELLED"}, 5, Unset), Limits({}, 5, Unset),
     [Limits(MCRetryCodes, 5, Unset) EXCEPT !.timeoutMultiplier = 0],
     [Limits(MCRetryCodes, 5, Unset) EXCEPT !.maxTimeout = 0]}

(* The limits of a client that may be closed, or cannot make the call.      *)
MCFewLimits ==
    {Limits(MCRetryCodes, 1, Unset), Limits(MCRetryCodes, 0, 2), Limits(MCRetryCodes, 5, 1),
     Limits({"CANCELLED"}, 5, Unset), Limits({}, 5, Unset)}

MCSettings ==
    {[transport |-> t, style |-> s, client |-> c, pages |-> p, retryCodes |-> l.retryCodes,
      totalTimeout |-> l.totalTimeout, maxRetries |-> l.maxRetries,
      timeoutMultiplier |-> l.timeoutMultiplier, maxTimeout |-> l.maxTimeout, fits |-> f] :
        s \in {"callback", "promise"}, p \in {0, 2},
        <<t, c, f, l>> \in
            ({"grpc", "fallback"} \X {"plain"} \X {TRUE} \X MCLimits)
            \cup ({"grpc", "fallback"} \X {"closable", "failing"} \X {TRUE} \X MCFewLimits)
            \cup ({"fallback"} \X {"plain"} \X {FALSE} \X MCFewLimits)}

=============================================================================
