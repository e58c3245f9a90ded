--------------------------- MODULE MCDeflineSet ----------------------------
(***************************************************************************)
(* Model checking DeflineSet on the encodings of small definition-line     *)
(* lists (DeflineEncoding): every list of at most MaxDeflines lines drawn  *)
(* from Samples, in every string type of StringTypes, whole and chunked,  *)
(* with the length forms of Indefinite, optionally with an extra field, a  *)
(* layered title, and cut short at every byte.                             *)
(*                                                                         *)
(* An input is a case: the blob and what the decoder should make of it;  *)
(* the decoder reads the blob alone.                                       *)
(***************************************************************************)
EXTENDS DeflineSet, DeflineEncoding

CONSTANTS
    MaxDeflines,    \* bound on the lines of one blob
    Samples,        \* the abstract lines blobs are made of
    StringTypes,    \* universal string types used for titles and values
    Indefinite,     \* the length forms: {FALSE}, {TRUE} or both
    ExtraField,     \* the unknown fields lines end with (ExtraEnc)
    Layered,        \* {FALSE}, or also titles wrapped in an extra SEQUENCE
    Truncated       \* {FALSE}, or also every strict prefix of each blob

\* Seq-ids: "NP", "A", "1B" and the number 5 as byte codes.
GiId == [type |-> "gi", value |-> Decimal(5), version |-> {}]
TextId == [type |-> "genbank", value |-> <<78, 80>>, version |-> {2}]
BareTextId == [type |-> "embl", value |-> <<65>>, version |-> {}]
PdbId == [type |-> "pdb", value |-> <<49, 66>>, version |-> {3}]
VersionOnlyId == [type |-> "tpg", value |-> <<>>, version |-> {1}]

\* An abstract line: a BlastDefLine, whether its taxid is corrupt (a
\* zero-length INTEGER, which spec.md 4.5 says must fail), and whether it
\* is instead a stray element of the set that is not a Blast-def-line.
Line(title, ids, taxid, corrupt) ==
    [title |-> title, seqids |-> ids, taxid |-> taxid, corrupt |-> corrupt,
     stray |-> FALSE]

\* A NULL element among the lines, which the decoder passes over.
Stray == [Line(<<>>, <<>>, {}, FALSE) EXCEPT !.stray = TRUE]

WellFormedLines ==
    {Line(t, ids, tx, FALSE) :
        t \in {<<>>, <<120, 121>>},
        ids \in {<<>>, <<GiId>>, <<TextId>>, <<PdbId>>, <<BareTextId, GiId>>},
        tx \in {{}, {9}}} \cup {Stray}

\* Lines with a corrupt taxid next to an intact one.
CorruptLines ==
    {Line(t, ids, {9}, TRUE) : t \in {<<>>, <<120>>}, ids \in {<<>>, <<GiId>>}}
    \cup {Line(<<120>>, <<GiId>>, {9}, FALSE)}

\* A line whose title is two chunks long when chunked.
TwoChunkTitleLines == {Line(<<120, 121>>, <<GiId>>, {9}, FALSE)}

\* Lines whose encodings are cut short: each field kind and Seq-id variant
\* once, the text variants with and without a value, and a stray element.
TruncationLines ==
    {Line(<<120>>, ids, {9}, FALSE) :
        ids \in {<<TextId>>, <<VersionOnlyId>>, <<PdbId, GiId>>}}
    \cup {Stray} \cup TwoChunkTitleLines

\* The same without text-style Seq-ids, whose indefinite form is misread
\* whole (RoundTripIndefinite).
IndefTruncationLines ==
    {Line(<<120>>, <<PdbId, GiId>>, {9}, FALSE), Stray} \cup TwoChunkTitleLines

\* Layered-title lines and, before or after one, a line without title
\* or taxid.
LayeredScanLines == IndefTruncationLines \cup {Line(<<>>, <<GiId>>, {}, FALSE)}


\* What DecodeDeflineSet should return for one line: a corrupt line keeps
\* the fields decoded before its taxid (spec.md 4.5, per-record isolation).
\* A title wrapped in an extra layer is still the title: the fallback of
\* ParseExplicitVisible is there "in case the explicit wrapper contains
\* additional layers" (its comment).
Decoded(l) == [title |-> l.title, seqids |-> l.seqids,
               taxid |-> IF l.corrupt THEN {} ELSE l.taxid]

Kept(l) == ~l.stray /\ (~l.corrupt \/ l.title # <<>> \/ l.seqids # <<>>)

SpecResult(ls) ==
    LET kept == SelectSeq(ls, Kept)
    IN [k \in 1..Len(kept) |-> Decoded(kept[k])]

-----------------------------------------------------------------------------
(* Encoding with the optional corruptions.                                *)

\* A field the decoder does not know, after the taxid: none, memberships
\* [3] SEQUENCE OF INTEGER as the schema has it, or a [3] holding a lone
\* INTEGER.
ExtraEnc(extra, ind) ==
    CASE extra = "memberships" -> Constructed(163, Constructed(48, IntEl(7), ind), ind)
      [] extra = "integer" -> Constructed(163, IntEl(7), ind)
      [] OTHER -> <<>>

TitleEnc(l, st, ch, ind, lay) ==
    IF l.title = <<>> THEN <<>>
    ELSE Constructed(160, IF lay THEN Constructed(48, Str(st, l.title, ch, ind), ind)
                          ELSE Str(st, l.title, ch, ind), ind)

LineEnc(l, st, ch, ind, extra, lay) ==
    IF l.stray THEN Prim(5, <<>>)
    ELSE Constructed(48,
        TitleEnc(l, st, ch, ind, lay) \o
        Constructed(161, Constructed(48, FlattenSeq([i \in 1..Len(l.seqids) |->
                                EncodeSeqId(l.seqids[i], st, ch, ind)]), ind), ind) \o
        (CASE l.corrupt -> Constructed(162, <<2, 0>>, ind)
           [] l.taxid = {} -> <<>>
           [] OTHER -> Constructed(162, IntEl(CHOOSE t \in l.taxid : TRUE), ind)) \o
        ExtraEnc(extra, ind),
             ind)

\* A list of lines encoded one way, with the end offset of each line.
Encoded(ls, st, ch, ind, extra, lay) ==
    LET encs == [i \in 1..Len(ls) |-> LineEnc(ls[i], st, ch, ind, extra, lay)]
    IN [lines |-> ls,
        blob |-> Constructed(48, FlattenSeq(encs), ind),
        \* the two bytes of the set header come first
        ends |-> [i \in 1..Len(ls) |->
                    2 + FoldLeft(LAMBDA a, e : a + Len(e), 0, SubSeq(encs, 1, i))]]

\* Every list of lines drawn from samples, encoded in every way the
\* constants allow, with the length forms inds.
EncodingsOf(samples, inds) ==
    {Encoded(ls, st, ch, ind, extra, lay) :
        ls \in BoundedSeq(samples, MaxDeflines), st \in StringTypes, ch \in BOOLEAN,
        ind \in inds, extra \in ExtraField, lay \in Layered}

\* A case: the first len bytes of an encoding, the list spec.md says the
\* whole encoding decodes to, whether it holds a corrupt line, whether it
\* was cut, and what the lines wholly inside the first len bytes decode to.
CaseOf(e, len) ==
    LET whole == SelectSeq([i \in 1..Len(e.lines) |-> i], LAMBDA i : e.ends[i] <= len)
    IN [blob |-> SubSeq(e.blob, 1, len),
        lines |-> e.lines,
        expect |-> SpecResult(e.lines),
        corrupt |-> \E i \in 1..Len(e.lines) : e.lines[i].corrupt,
        cut |-> len < Len(e.blob),
        whole |-> SpecResult([k \in 1..Len(whole) |-> e.lines[whole[k]]])]

CasesOf(samples, inds) ==
    UNION {{CaseOf(e, len) :
              len \in IF TRUE \in Truncated THEN 1..Len(e.blob) ELSE {Len(e.blob)}}
           : e \in EncodingsOf(samples, inds)}

Cases == CasesOf(Samples, Indefinite)

\* Cut blobs in both length forms: the definite ones of every Seq-id
\* variant, the indefinite ones without text-style Seq-ids, whose
\* indefinite form is misread whole (RoundTripIndefinite).
TruncationCases ==
    CasesOf(TruncationLines, {FALSE}) \cup CasesOf(IndefTruncationLines, {TRUE})

-----------------------------------------------------------------------------
(***************************************************************************)
(* Round trip: decoding the encoding of a definition-line list returns the *)
(* list spec.md 4.5 describes (a line with a failing field kept with the   *)
(* fields decoded before it, decoding going on with the next line), with   *)
(* a warning in error_out exactly when a line failed, and no exception.    *)
(* It is about the whole decoder: the field dispatch of DecodeDeflineSet,  *)
(* the explicit-wrapper readers, the three Seq-id variants, the skipping  *)
(* of unknown fields, and where each leaves the offset.                    *)
(***************************************************************************)
RoundTrip ==
    pc = "done" =>
        /\ deflines = input.expect
        /\ (error # "") = input.corrupt
        /\ ~escaped

(***************************************************************************)
(* Termination: DecodeDeflineSet never enters a loop it cannot leave.      *)
(* spec.md 4.4 requires every scan to advance; the only loop of the code   *)
(* that may repeat itself without advancing is the while (true) loop of    *)
(* ExtractVisibleLike over an indefinite non-string element (Scan), and    *)
(* the model takes pc to "hung" exactly when it would repeat forever.     *)
(***************************************************************************)
Termination == pc # "hung"

(***************************************************************************)
(* A blob cut short anywhere still yields every line that lies wholly      *)
(* before the cut, decoded in full and in order, and the damage is        *)
(* reported in error_out or by an exception.  It is about the recovery of  *)
(* DecodeDeflineSet: the catch blocks, the partial entry and the outer     *)
(* bounds that lie past the end of the buffer.                             *)
(***************************************************************************)
KeepsWholeLines ==
    pc = "done" /\ ~input.corrupt =>
        /\ IsPrefix(input.whole, deflines)
        /\ input.cut => error # "" \/ escaped

(***************************************************************************)
(* No exception leaves DecodeDeflineSet.  spec.md 7: errors inside a      *)
(* header blob are recovered locally, the lines decoded so far returned   *)
(* with a warning.  PrintSummary calls DecodeDeflineSet outside any try,  *)
(* so an exception ends the try block of main and no later record is      *)
(* reported.  It is about the outer tag and length, which are read before *)
(* the try block of DecodeDeflineSet.                                      *)
(***************************************************************************)
NoEscape == ~escaped

\* A returned line d holds only fields of line l: its title a prefix of
\* l's (the first chunks of a constructed string, WholeTitles), its
\* Seq-ids a prefix of l's, its taxid l's or absent.
Within(d, l) ==
    /\ IsPrefix(d.title, l.title)
    /\ IsPrefix(d.seqids, l.seqids)
    /\ d.taxid \subseteq l.taxid

(***************************************************************************)
(* Nothing invented: every line DecodeDeflineSet returns, the partial line *)
(* its inner catch keeps included, holds only fields that one line of the  *)
(* blob holds, with some fields missing or a title cut short.  It is      *)
(* about the permissive                                                    *)
(* paths: the ExtractVisibleLike fallback of ParseExplicitVisible, which   *)
(* rescans a wrapper from its start, the last-resort value recovery of     *)
(* ParseSeqId, and the offsets the explicit wrappers leave behind, which   *)
(* decide where the next field is read.                                    *)
(***************************************************************************)
NoInventedFields ==
    \A i \in DOMAIN deflines :
        \E j \in DOMAIN input.lines : Within(deflines[i], Decoded(input.lines[j]))

(***************************************************************************)
(* A title is read whole: decoding a blob that was not cut returns, for    *)
(* every line, either no title or the whole title of a line of the blob.   *)
(* spec.md 4.4 makes a constructed string the concatenation of its chunks; *)
(* it is about the ExtractVisibleLike fallback of ParseExplicitVisible,    *)
(* which returns the first chunk it finds inside a constructed string.     *)
(***************************************************************************)
WholeTitles ==
    ~input.cut =>
        \A i \in DOMAIN deflines :
            deflines[i].title \in {<<>>} \cup {input.lines[j].title : j \in DOMAIN input.lines}

=============================================================================
