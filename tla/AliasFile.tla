----------------------------- MODULE AliasFile -----------------------------
(***************************************************************************)
(* ParseAliasFile, the alias-file reader appended to psq_reader.cpp: one   *)
(* step per iteration of its std::getline loop, the throw of a bad line    *)
(* ending the run in "failed" (main's catch).                              *)
(*                                                                         *)
(* A file is its sequence of lines, as std::getline cuts it (a last line   *)
(* without '\n' included), or NoFile when it cannot be opened.  A line is  *)
(* a sequence of character names: "SP" ' ', "TAB" '\t', "CR" '\r', "VT"    *)
(* '\v' or '\f', "HASH" '#'; any other name is a printable character.      *)
(* The three whitespace sets of the code differ, and the model keeps them  *)
(* apart.  '\n' never occurs inside a line.                                *)
(***************************************************************************)
EXTENDS Integers, Sequences, SequencesExt, TLC

CONSTANTS Files,    \* the alias files tried
          NoFile,   \* a path std::ifstream cannot open
          DbList    \* the key "DBLIST", as a sequence of characters

VARIABLES file, lineNo, pc, volumes, metadata, error
vars == <<file, lineNo, pc, volumes, metadata, error>>

\* " \t\r\n" of Trim.
TrimSpace == {"SP", "TAB", "CR"}
\* " \t" of find_first_of, which ends the key.
KeySeparators == {"SP", "TAB"}
\* std::isspace, where operator>> ends a token.
StreamSpace == {"SP", "TAB", "CR", "VT"}

\* line.substr(0, line.find('#')).
StripComment(l) ==
    LET c == SelectInSeq(l, LAMBDA ch : ch = "HASH")
    IN  IF c = 0 THEN l ELSE SubSeq(l, 1, c - 1)

\* Mutant: only the leading whitespace is cut (find_last_not_of dropped).
TrimLeading(l) ==
    LET first == SelectInSeq(l, LAMBDA ch : ch \notin TrimSpace)
    IN  IF first = 0 THEN <<>> ELSE SubSeq(l, first, Len(l))

Trim(l) ==
    LET first == SelectInSeq(l, LAMBDA ch : ch \notin TrimSpace)
        last  == SelectLastInSeq(l, LAMBDA ch : ch \notin TrimSpace)
    IN  IF first = 0 THEN <<>> ELSE SubSeq(l, first, last)

\* while (in >> token) parts.push_back(token): the whitespace before a
\* token is skipped, then the token runs to the next whitespace.
RECURSIVE SplitWhitespace(_)
SplitWhitespace(t) ==
    LET start == SelectInSeq(t, LAMBDA ch : ch \notin StreamSpace)
        rest  == SubSeq(t, start, Len(t))
        stop  == SelectInSeq(rest, LAMBDA ch : ch \in StreamSpace)
    IN  CASE start = 0 -> <<>>
          [] stop = 0  -> <<rest>>
          [] OTHER     -> <<SubSeq(rest, 1, stop - 1)>>
                          \o SplitWhitespace(SubSeq(rest, stop, Len(rest)))

\* The line of this iteration after the comment is cut and it is trimmed,
\* its key and its value.
Clean == Trim(StripComment(file[lineNo + 1]))
KeyEnd == SelectInSeq(Clean, LAMBDA ch : ch \in KeySeparators)
Key == SubSeq(Clean, 1, KeyEnd - 1)
Value == Trim(SubSeq(Clean, KeyEnd + 1, Len(Clean)))

\* Mutant: the error carries the count of lines before the bad one.
FailLineBefore(kind) ==
    /\ pc' = "failed"
    /\ error' = [kind |-> kind, line |-> lineNo]
    /\ UNCHANGED <<file, lineNo, volumes, metadata>>

\* A throw naming line_number, caught by main.
Fail(kind) ==
    /\ pc' = "failed"
    /\ error' = [kind |-> kind, line |-> lineNo + 1]
    /\ UNCHANGED <<file, lineNo, volumes, metadata>>

NoError == [kind |-> "none", line |-> 0]

\* What std::ifstream may be given.
Paths == Files \cup {NoFile}

Init ==
    /\ file \in Paths
    /\ lineNo = 0
    /\ pc = "open"
    /\ volumes = <<>>
    /\ metadata = <<>>
    /\ error = NoError

Open ==
    /\ pc = "open"
    /\ IF file = NoFile
       THEN pc' = "failed" /\ error' = [kind |-> "open", line |-> 0]
       ELSE pc' = "loop" /\ UNCHANGED error
    /\ UNCHANGED <<file, lineNo, volumes, metadata>>

\* std::getline finds no further line: the info is returned.
EndOfFile ==
    /\ pc = "loop"
    /\ lineNo = Len(file)
    /\ pc' = "done"
    /\ UNCHANGED <<file, lineNo, volumes, metadata, error>>

\* A line that is empty once the comment is cut and it is trimmed.
SkipBlank ==
    /\ pc = "loop"
    /\ lineNo < Len(file)
    /\ Clean = <<>>
    /\ lineNo' = lineNo + 1
    /\ UNCHANGED <<file, pc, volumes, metadata, error>>

\* A non-blank line, the step of every branch of the loop body.
Entered ==
    /\ pc = "loop"
    /\ lineNo < Len(file)
    /\ Clean # <<>>

\* The checks that throw, in the code's order.
MissingValue == Entered /\ KeyEnd = 0 /\ Fail("missing value")

\* The throw of an empty value (291-294) is left out: the trimmed line ends
\* in a character Trim keeps, which is no key separator, so the text after
\* key_end always holds it (MCAliasFile checks this).

NoVolumes ==
    /\ Entered /\ KeyEnd # 0 /\ Value # <<>> /\ Key = DbList
    /\ SplitWhitespace(Value) = <<>>
    /\ Fail("no volumes")

DuplicateKey ==
    /\ Entered /\ KeyEnd # 0 /\ Value # <<>> /\ Key # DbList
    /\ Key \in DOMAIN metadata
    /\ Fail("duplicate key")

\* A DBLIST line: its volumes are appended, whatever came before.
AppendVolumes ==
    /\ Entered
    /\ KeyEnd # 0 /\ Value # <<>> /\ Key = DbList
    /\ SplitWhitespace(Value) # <<>>
    /\ volumes' = volumes \o SplitWhitespace(Value)
    /\ lineNo' = lineNo + 1
    /\ UNCHANGED <<file, pc, metadata, error>>

\* Mutant: info.metadata[key] = value without the duplicate check.
StoreValueOverwrite ==
    /\ Entered
    /\ KeyEnd # 0 /\ Value # <<>> /\ Key # DbList
    /\ metadata' = (Key :> Value) @@ metadata
    /\ lineNo' = lineNo + 1
    /\ UNCHANGED <<file, pc, volumes, error>>

\* Any other key, not seen before: info.metadata[key] = value.
StoreValue ==
    /\ Entered
    /\ KeyEnd # 0 /\ Value # <<>> /\ Key # DbList
    /\ Key \notin DOMAIN metadata
    /\ metadata' = (Key :> Value) @@ metadata
    /\ lineNo' = lineNo + 1
    /\ UNCHANGED <<file, pc, volumes, error>>

Next ==
    \/ Open \/ EndOfFile \/ SkipBlank
    \/ MissingValue \/ NoVolumes \/ DuplicateKey
    \/ AppendVolumes \/ StoreValue

\* main is one sequential call: while it has not returned, its next
\* statement runs.
Spec == Init /\ [][Next]_vars /\ WF_vars(Next)
=============================================================================
