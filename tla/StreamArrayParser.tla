-------------------------- MODULE StreamArrayParser --------------------------
(***************************************************************************)
(* The parser of a REST server stream (src/src/streamArrayParser.ts): the  *)
(* body is a JSON array of objects that comes in chunks cut anywhere, and  *)
(* each object is pushed as soon as its last character has been seen.      *)
(*                                                                         *)
(* A character is one of those the parser tells apart, or any other.       *)
(***************************************************************************)
EXTENDS Integers, SequencesExt

OpenBracket == "["
CloseBracket == "]"
OpenBrace == "{"
CloseBrace == "}"
Quote == "quote"
Backslash == "backslash"

(* The fields of a parser: _level, _isInString, _isSkipped, _prevBlock,     *)
(* whether it has pushed null or been ended, and what it pushed; `failed`   *)
(* is its 'error' event.                                                    *)
NewParser == [level |-> 0, isInString |-> FALSE, isSkipped |-> FALSE, prevBlock |-> <<>>,
              pushed |-> <<>>, done |-> FALSE, failed |-> FALSE]

(* One turn of the loop in _transform, at index i of the chunk.             *)
Scan(parser, chunk, i) ==
    LET c      == chunk[i]
        active == ~parser.isSkipped
        bare   == active /\ ~parser.isInString
        level  == parser.level + (IF bare /\ c = OpenBrace THEN 1 ELSE 0)
                               - (IF bare /\ c = CloseBrace THEN 1 ELSE 0)
        found  == bare /\ c = CloseBrace /\ level = 1
        object == parser.prevBlock \o SubSeq(chunk, parser.objectStart, i)
    IN  [parser EXCEPT
            !.level = level,
            !.isSkipped = active /\ c = Backslash,
            !.isInString = IF active /\ c = Quote THEN ~@ ELSE @,
            !.objectStart = IF found THEN i + 1
                            ELSE IF bare /\ c = OpenBrace /\ level = 2 THEN i ELSE @,
            !.prevBlock = IF found THEN <<>> ELSE @,
            !.pushed = IF found THEN Append(@, object) ELSE @,
            !.done = @ \/ (bare /\ c = CloseBracket /\ level = 1)]

CarriedWithoutPrevious(parser, chunk) ==   \* mutant: earlier chunks are dropped
    IF parser.level > 1 THEN SubSeq(chunk, parser.objectStart, Len(chunk)) ELSE <<>>

(* _prevBlock after a chunk: what has been seen of an unfinished object.    *)
Carried(parser, chunk) ==
    IF parser.level > 1
    THEN parser.prevBlock \o SubSeq(chunk, parser.objectStart, Len(chunk))
    ELSE parser.prevBlock

(* The loop of _transform: the parser after each index of the chunk.        *)
Scanned(parser, chunk, before) ==
    LET after[i \in before .. Len(chunk)] ==
            IF i = before THEN parser ELSE Scan(after[i - 1], chunk, i)
    IN  after[Len(chunk)]

(* _transform.  The first character of all must be a bracket.               *)
Transform(parser, chunk) ==
    LET first   == parser.level = 0
        entered == [level |-> IF first THEN 1 ELSE parser.level,
                    isInString |-> parser.isInString, isSkipped |-> parser.isSkipped,
                    prevBlock |-> parser.prevBlock, pushed |-> parser.pushed,
                    done |-> parser.done, objectStart |-> 1,
                    failed |-> parser.failed \/ (first /\ chunk[1] # OpenBracket)]
        left    == Scanned(entered, chunk, IF first THEN 1 ELSE 0)
    IN  [f \in DOMAIN parser |->
            IF f = "prevBlock" THEN Carried(left, chunk) ELSE left[f]]

(* cancel(): the parser is ended.  The AbortController it aborts is its own *)
(* and nobody else's.                                                       *)
Cancelled(parser) == [parser EXCEPT !.done = TRUE]

=============================================================================
