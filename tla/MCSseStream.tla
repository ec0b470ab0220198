---------------------------- MODULE MCSseStream -----------------------------
(***************************************************************************)
(* SseStream with the lines each generator is given.  Python reads one     *)
(* byte at a time, so that many kinds of line are affordable; TypeScript   *)
(* reads any number of bytes, and gets both line ends instead.             *)
(***************************************************************************)
EXTENDS SseStream

MCWritten ==
  [s \in {"python", "typescript"} |->
     IF s = "python"
       THEN {"delta", "pair", "finish", "bad", "alien", "noise", "blank"}
       ELSE {"delta", "bad", "blank"}]

MCEnds ==
  [s \in {"python", "typescript"} |-> IF s = "python" THEN {"lf"} ELSE {"lf", "crlf"}]
=============================================================================
