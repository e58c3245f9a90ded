--------------------------- MODULE ReaderContract ---------------------------
(***************************************************************************)
(* The contract of a reader that is one call over one file: given the      *)
(* file, it returns once, either the record it promises or one error (no   *)
(* partial result), and it does return.                                    *)
(*                                                                         *)
(* Outcome(file) is what the file should yield: for the index parsers what *)
(* spec.md 4.2, 6 and 7 say, for the alias reader its declarative reading  *)
(* of the lines.  A detailed reader implements this module under a         *)
(* refinement mapping that says when it has returned and what.             *)
(***************************************************************************)
CONSTANTS Files, Outcome(_)

VARIABLES file, result

Pending == [kind |-> "pending"]

Init == file \in Files /\ result = Pending

Return == result = Pending /\ result' = Outcome(file) /\ UNCHANGED file

Spec == Init /\ [][Return]_<<file, result>> /\ WF_<<file, result>>(Return)

\* What the reader may return, without the promise that it returns.
Safety == Init /\ [][Return]_<<file, result>>
=============================================================================
