---------------------------- MODULE MCAliasFile ----------------------------
(***************************************************************************)
(* The alias reader on every line of at most four characters, every file   *)
(* of two lines of at most three, and every file of at most three lines    *)
(* drawn from a few sample lines, checked against a declarative reading of *)
(* the file.                                                               *)
(*                                                                         *)
(* Two printable characters are enough: "d" alone is the key DbList        *)
(* stands for, any other key is a metadata key.  TAB is in every set SP is *)
(* in, so it behaves as SP and is left out.                                *)
(***************************************************************************)
EXTENDS AliasFile

CONSTANTS Chars,          \* the characters of a line
          MaxLineLength,  \* the longest line of the exhaustive files
          SampleLines     \* the lines of the three-line files

\* Every line of MaxLineLength characters alone, every pair of shorter
\* lines, and every file of three sample lines.
AliasFiles ==
    BoundedSeq(BoundedSeq(Chars, MaxLineLength), 1)
    \cup BoundedSeq(BoundedSeq(Chars, MaxLineLength - 1), 2)
    \cup BoundedSeq(SampleLines, 3)

MaxLines == 3

\* The values of the configuration.
DbListKey == <<"d">>
AliasChars == {"d", "k", "SP", "CR", "VT", "HASH"}
AliasSampleLines ==
    {<<>>, <<"HASH">>, <<"k", "SP", "d">>, <<"k", "SP", "k">>,
     <<"d", "SP", "k">>, <<"d", "SP", "VT">>, <<"k", "CR", "d">>,
     <<"k", "SP", "HASH">>, <<"d", "SP", "k", "VT", "d">>,
     <<"k", "SP", "d", "SP", "CR">>}

\* ---- The declarative reading of a file ----

\* Line k with its comment cut and trimmed, and its key and value.
Entry(f, k) == Trim(StripComment(f[k]))
EntryKeyEnd(c) == SelectInSeq(c, LAMBDA ch : ch \in KeySeparators)
EntryKey(c) == SubSeq(c, 1, EntryKeyEnd(c) - 1)
EntryValue(c) == Trim(SubSeq(c, EntryKeyEnd(c) + 1, Len(c)))
IsDbList(c) == c # <<>> /\ EntryKeyEnd(c) # 0 /\ EntryKey(c) = DbList

\* What is wrong with line k, the lines before it being all good.
Problem(f, k) ==
    LET c == Entry(f, k) IN
    CASE c = <<>>                -> "none"
      [] EntryKeyEnd(c) = 0      -> "missing value"
      [] EntryValue(c) = <<>>    -> "empty value"
      [] IsDbList(c) /\ SplitWhitespace(EntryValue(c)) = <<>>
                                 -> "no volumes"
      [] ~IsDbList(c) /\ \E m \in 1..k - 1 :
             Entry(f, m) # <<>> /\ EntryKey(Entry(f, m)) = EntryKey(c)
                                 -> "duplicate key"
      [] OTHER                   -> "none"

\* The first bad line is reported; otherwise every DBLIST line contributes
\* its volumes in file order, and every other line its key and value.
AliasOutcome(f) ==
    IF f = NoFile
    THEN [kind |-> "error", error |-> [kind |-> "open", line |-> 0]]
    ELSE
    LET bad == {k \in DOMAIN f : Problem(f, k) # "none"}
        stored == {k \in DOMAIN f : Entry(f, k) # <<>> /\ ~IsDbList(Entry(f, k))}
    IN  IF bad # {}
        THEN [kind |-> "error",
              error |-> [kind |-> Problem(f, Min(bad)), line |-> Min(bad)]]
        ELSE [kind |-> "ok",
              volumes |-> FlattenSeq([k \in DOMAIN f |->
                              IF IsDbList(Entry(f, k))
                              THEN SplitWhitespace(EntryValue(Entry(f, k)))
                              ELSE <<>>]),
              metadata |-> [key \in {EntryKey(Entry(f, k)) : k \in stored} |->
                              EntryValue(Entry(f, CHOOSE k \in stored :
                                             EntryKey(Entry(f, k)) = key))]]

\* ---- Refinement mapping onto ReaderContract ----

AliasResult ==
    CASE pc = "done"   -> [kind |-> "ok", volumes |-> volumes,
                           metadata |-> metadata]
      [] pc = "failed" -> [kind |-> "error", error |-> error]
      [] OTHER         -> [kind |-> "pending"]

AliasContract == INSTANCE ReaderContract
                     WITH Files <- Paths,
                          Outcome <- AliasOutcome, result <- AliasResult

\* ---- Properties ----

\* The reader's variables keep their types; a volume is a token holding no
\* whitespace, and an error names a line of the file (0 only for a file
\* that cannot be opened).
ErrorKinds == {"missing value", "empty value", "no volumes", "duplicate key"}
TypeOK ==
    /\ pc \in {"open", "loop", "done", "failed"}
    /\ lineNo \in 0..MaxLines
    /\ volumes \in Seq(Seq(Chars \ StreamSpace))
    /\ \A v \in 1..Len(volumes) : volumes[v] # <<>>
    /\ \A key \in DOMAIN metadata : key # DbList
    /\ error \in {NoError, [kind |-> "open", line |-> 0]}
                 \cup [kind : ErrorKinds, line : 1..MaxLines]

\* The empty-value throw of ParseAliasFile (291) can never be reached: for
\* every non-blank line the loop body enters, a line with a key separator
\* has a non-empty value once Trim has run on the line and on the value.
EmptyValueUnreachable ==
    pc = "loop" /\ lineNo < Len(file) /\ Clean # <<>> /\ KeyEnd # 0
        => Value # <<>>

\* The getline loop of ParseAliasFile implements the declarative reading:
\* what it returns is the declarative result: the first bad line (by its
\* number among all lines, blank and comment lines counted) is the one
\* reported, the DBLIST lines accumulate in order, and a repeated metadata
\* key is refused.
AliasImplementsContract == AliasContract!Safety
=============================================================================
