--------------------------- MODULE MCIndexReaders ---------------------------
(***************************************************************************)
(* The two index readers of the repository run on the same database       *)
(* volume: the legacy reader (ParsePinFile, then ExtractHeaders) and then  *)
(* psq_reader (ParsePin, then its decoding loop).  They share no state, so *)
(* the psq reader is started once the legacy one has finished; the order  *)
(* changes nothing and keeps the state space the sum of the two.           *)
(*                                                                         *)
(* The cases are index records encoded as spec.md 6 lays them out, whole,  *)
(* cut after every byte, with a trailing byte, or with a patched field,    *)
(* and each carries what spec.md 4.2 says its parse yields.                *)
(***************************************************************************)
EXTENDS PinFormat

CONSTANTS Samples,      \* index records, encoded whole
          Cut,          \* records also cut after every byte
          Patched,      \* [rec, field, value]: a record with one field patched
          PsqFiles      \* the .psq files tried with every case

VARIABLES input,
          lOff, lPc, lIndex, lField, lTable, lParsed, lHeaders, lError,
          lWarned,
          pOff, pPc, pIndex, pField, pI, pTablePos, pParsed, pSequences,
          pError

legacyVars == <<lOff, lPc, lIndex, lField, lTable, lParsed, lHeaders, lError,
                lWarned>>
psqVars == <<pOff, pPc, pIndex, pField, pI, pTablePos, pParsed, pSequences,
             pError>>
vars == <<input, legacyVars, psqVars>>

\* ---- The encoding of spec.md 6 ----

Str(s) == WordBytes(Len(s)) \o s
Table(t) == FlattenSeq([k \in DOMAIN t |-> WordBytes(t[k])])

\* total_residues is written with its eight bytes reversed.
Encode(r) ==
    WordBytes(r.version) \o WordBytes(r.flag)
    \o (IF r.version = 5 THEN WordBytes(r.volume) ELSE <<>>)
    \o Str(r.title) \o (IF r.version = 5 THEN Str(r.lmdb) ELSE <<>>)
    \o Str(r.date) \o WordBytes(r.num) \o Reverse(r.total)
    \o WordBytes(r.max) \o Table(r.header) \o Table(r.sequence)
    \o (IF r.flag = 1 THEN <<>> ELSE Table(r.ambiguity))

\* ---- What spec.md 4.2 says the parse yields ----

Failure(kind) == [kind |-> "error", error |-> kind]

\* The index record, with the warning of spec.md 6 on trailing bytes.
Record(r, trailing) ==
    [kind |-> "ok",
     index |-> [version |-> r.version, is_protein |-> r.flag = 1,
                volume_number |-> IF r.version = 5 THEN r.volume ELSE 0,
                title |-> r.title,
                lmdb_name |-> IF r.version = 5 THEN r.lmdb ELSE <<>>,
                creation_date |-> r.date, num_records |-> r.num,
                total_residues |-> r.total, max_length |-> r.max,
                header_offsets |-> r.header, sequence_offsets |-> r.sequence,
                ambiguity_offsets |-> IF r.flag = 1 THEN <<>> ELSE r.ambiguity,
                warning |-> trailing]]

\* A file holding all of record r, and then trailing bytes or not.
Whole(r, trailing) ==
    CASE r.version \notin {4, 5} -> Failure("UnsupportedVersion")
      [] Len(r.header) < r.num + 1 -> Failure("Truncated")
      [] r.num > 0 /\ ~(r.sequence[1] < r.sequence[r.num + 1])
                                  -> Failure("CorruptIndex")
      [] OTHER                    -> Record(r, trailing)

\* A file holding the first n bytes of record r, fewer than all.
Prefix(r, n) ==
    IF n >= 4 /\ r.version \notin {4, 5} THEN Failure("UnsupportedVersion")
    ELSE Failure("Truncated")

\* The .phr file: 14 bytes, as in scenario 1 of spec.md 8.
Phr == [k \in 1..14 |-> 0]

CaseOf(pin, psq, expect) ==
    [pin |-> pin, phr |-> Phr, psq |-> psq, expect |-> expect]

Cases ==
    LET full(r) == Encode(r) IN
    {CaseOf(full(r), q, Whole(r, FALSE)) : r \in Samples, q \in PsqFiles}
    \cup {CaseOf(full(r) \o <<0>>, q, Whole(r, TRUE)) : r \in Samples,
                                                         q \in PsqFiles}
    \cup UNION {{CaseOf(SubSeq(full(r), 1, n), q, Prefix(r, n)) :
                     n \in 0..Len(full(r)) - 1} : r \in Cut, q \in PsqFiles}
    \cup {CaseOf(full([p.rec EXCEPT ![p.field] = p.value]), q,
                 Whole([p.rec EXCEPT ![p.field] = p.value], FALSE)) :
              p \in Patched, q \in PsqFiles}

L == INSTANCE LegacyPinReader
         WITH Inputs <- Cases, off <- lOff, pc <- lPc, index <- lIndex,
              field <- lField, table <- lTable, parsed <- lParsed,
              headers <- lHeaders, error <- lError, warned <- lWarned

P == INSTANCE PsqReader
         WITH Inputs <- Cases, off <- pOff, pc <- pPc, index <- pIndex,
              field <- pField, i <- pI, tablePos <- pTablePos,
              parsed <- pParsed, sequences <- pSequences, error <- pError

Init == L!Init /\ P!Init

\* A step of the legacy reader; a step of psq_reader once it has finished.
LegacyStep(A) == A /\ UNCHANGED psqVars
PsqStep(A) == L!Finished /\ A /\ UNCHANGED legacyVars

Next ==
    \/ LegacyStep(L!ReadVersion) \/ LegacyStep(L!UnsupportedVersion)
    \/ LegacyStep(L!ReadField) \/ LegacyStep(L!ReadOffset)
    \/ LegacyStep(L!ReadThrows) \/ LegacyStep(L!CheckTrailing)
    \/ LegacyStep(L!SliceHeader) \/ LegacyStep(L!SliceRejected)
    \/ LegacyStep(L!HeadersDone)
    \/ PsqStep(P!ReadVersion) \/ PsqStep(P!ReadField) \/ PsqStep(P!ReadThrows)
    \/ PsqStep(P!CheckTables) \/ PsqStep(P!ReadOffset) \/ PsqStep(P!Validate)
    \/ PsqStep(P!OpenPsq) \/ PsqStep(P!DecodeRecord) \/ PsqStep(P!DecodeDone)

Spec == Init /\ [][Next]_vars /\ WF_vars(Next)

\* ---- Sample records ----

\* Scenario 1 of spec.md 8: version 4, protein, one record, total 1.
Scenario1 ==
    [version |-> 4, flag |-> 1, volume |-> 0, title |-> <<97>>, lmdb |-> <<>>,
     date |-> <<98>>, num |-> 1, total |-> <<0, 0, 0, 0, 0, 0, 0, 1>>,
     max |-> 1, header |-> <<0, 14>>, sequence |-> <<0, 14>>,
     ambiguity |-> <<>>]

\* Version 5, nucleotide (three tables), two records.
Volume5Nucleotide ==
    [version |-> 5, flag |-> 0, volume |-> 1, title |-> <<>>, lmdb |-> <<108>>,
     date |-> <<>>, num |-> 2, total |-> <<0, 0, 0, 0, 0, 0, 1, 2>>,
     max |-> 9, header |-> <<0, 3, 14>>, sequence |-> <<0, 9, 14>>,
     ambiguity |-> <<0, 0, 0>>]

\* No records: tables of one entry (spec.md 8).
EmptyVolume ==
    [Scenario1 EXCEPT !.num = 0, !.header = <<0>>, !.sequence = <<0>>]

\* Two proteins whose second header range ends past the .phr file and whose
\* second sequence range is inverted.
TwoProteins ==
    [Scenario1 EXCEPT !.num = 2, !.header = <<0, 14, 20>>,
                      !.sequence = <<0, 9, 4>>]

OldVersion == [Scenario1 EXCEPT !.version = 3]

\* .psq files: residues, a terminator and a code past the table.
Psq14 == <<1, 2, 27, 30, 0, 5, 6, 7, 8, 9, 10, 11, 12, 13>>
Psq12 == SubSeq(Psq14, 1, 12)

\* ---- Refinement mappings onto ReaderContract ----

\* What ParsePinFile has returned, in the field names of spec.md 3.
LegacyView ==
    [version |-> lIndex.version, is_protein |-> lIndex.is_protein,
     volume_number |-> lIndex.volume_number, title |-> lIndex.title,
     lmdb_name |-> lIndex.lmdb_file, creation_date |-> lIndex.date,
     num_records |-> lIndex.num_oids, total_residues |-> lIndex.total_length,
     max_length |-> lIndex.max_length,
     header_offsets |-> lIndex.header_offsets,
     sequence_offsets |-> lIndex.sequence_offsets,
     ambiguity_offsets |-> lIndex.ambiguity_offsets, warning |-> lWarned]

LegacyResult ==
    CASE lParsed         -> [kind |-> "ok", index |-> LegacyView]
      [] lPc = "failed"  -> Failure(lError)
      [] OTHER           -> [kind |-> "pending"]

Expected(c) == c.expect

LegacyContract == INSTANCE ReaderContract
                      WITH Files <- Cases, Outcome <- Expected,
                           file <- input, result <- LegacyResult

\* The fields psq_reader's PinIndex keeps.
PsqFields == {"version", "volume_number", "title", "lmdb_name",
              "creation_date", "num_records", "total_residues", "max_length",
              "sequence_offsets"}

PsqView ==
    [version |-> pIndex.version, volume_number |-> pIndex.volume_number,
     title |-> pIndex.title, lmdb_name |-> pIndex.lmdb_name,
     creation_date |-> pIndex.creation_date,
     num_records |-> pIndex.num_sequences,
     total_residues |-> pIndex.total_residues,
     max_length |-> pIndex.max_length,
     sequence_offsets |-> pIndex.sequence_offsets]

PsqResult ==
    CASE pParsed         -> [kind |-> "ok", index |-> PsqView]
      [] pPc = "failed"  -> Failure(pError)
      [] OTHER           -> [kind |-> "pending"]

\* The contract as a protein-only reader sees it: a nucleotide index is
\* UnsupportedDatabase (spec.md 7), and only the fields it keeps count.
ProteinExpected(c) ==
    CASE c.expect.kind # "ok"          -> c.expect
      [] ~c.expect.index.is_protein    -> Failure("UnsupportedDatabase")
      [] OTHER -> [kind |-> "ok",
                   index |-> [f \in PsqFields |-> c.expect.index[f]]]

PsqContract == INSTANCE ReaderContract
                   WITH Files <- Cases, Outcome <- ProteinExpected,
                        file <- input, result <- PsqResult

\* ---- The sets the configurations use ----

PassSamples == {Scenario1, Volume5Nucleotide, EmptyVolume, TwoProteins}
CutSamples == {Scenario1, Volume5Nucleotide, OldVersion}
PsqSamples == {<<>>, Psq14, Psq12}
NoRecords == {}
ScenarioOne == {Scenario1}
ScenarioPsq == {Psq14}
\* num_sequences = 0xFFFFFFFF in a file otherwise as scenario 1.
WrapPatch == {[rec |-> Scenario1, field |-> "num", value |-> MaxUInt32]}

\* ---- Properties ----

\* Both readers' variables keep their types; in particular total_residues is
\* always the eight bytes ReadLE64 and ReadUInt64 take.
TypeOK ==
    /\ lPc \in {"version", "fields", "fill", "trailing", "slice", "done",
                "failed"}
    /\ pPc \in {"version", "fields", "tables", "offsets", "validate", "open",
                "decode", "done", "failed", "overread"}
    /\ lError \in ErrorKinds \cup {"none"}
    /\ pError \in ErrorKinds \cup {"none"}
    /\ lIndex.is_protein \in BOOLEAN
    /\ \A x \in {lIndex.total_length, pIndex.total_residues} :
           x \in Seq(0..Radix - 1) /\ Len(x) = 8
    /\ \A t \in {lIndex.header_offsets, lIndex.sequence_offsets,
                 lIndex.ambiguity_offsets, pIndex.sequence_offsets} :
           t \in Seq(0..MaxUInt32)
    /\ pI \in 0..MaxUInt32
    /\ lHeaders \in Seq(Seq(0..Radix - 1))

\* ParsePinFile implements the index-parser contract of spec.md 4.2: it
\* returns exactly once, the record the file encodes (total_residues read
\* in the byte order of spec.md 6, the warning on trailing bytes) or the
\* one error kind the contract names, and it always returns.  The result
\* is the index once ParsePinFile has returned it (LegacyResult): a throw
\* of ExtractHeaders after that is not part of it.
LegacyImplementsContract == LegacyContract!Spec

\* psq_reader's ParsePin implements the same contract, as a reader that
\* handles only protein databases.
PsqImplementsContract == PsqContract!Spec

\* The offset loop of ParsePin never reads Data()[pos .. pos+3] past the end
\* of the index file: the check before it (psq_reader.cpp 114) covers every
\* entry the loop reads.
PsqNoOverread == pPc # "overread"

\* Record k of the index points outside the .psq file or backwards.
BadRecord(k) ==
    \/ pIndex.sequence_offsets[k] > pIndex.sequence_offsets[k + 1]
    \/ pIndex.sequence_offsets[k + 1] > Len(input.psq)

\* The first such record, or num_sequences + 1 when there is none.
FirstBadRecord ==
    LET bad == {k \in 1..pIndex.num_sequences : BadRecord(k)}
    IN  IF bad = {} THEN pIndex.num_sequences + 1 ELSE Min(bad)

\* Once main's decode loop has stopped, it printed exactly the records
\* before the first bad one and it stopped because of that one: a bad record
\* ends the program with CorruptIndex (psq_reader.cpp 214, the throw of
\* DecodeSequence) and no record after it is printed, while an index with
\* none prints every record and succeeds.
PsqPrintsUpToFirstBad ==
    pParsed /\ pPc \in {"done", "failed"} /\ input.psq # <<>>
        => /\ Len(pSequences) = FirstBadRecord - 1
           /\ (pPc = "done") = (FirstBadRecord > pIndex.num_sequences)

\* The residue map of spec.md 4.6: 0 ends the sequence, 1..27 are these
\* letters, 28 and above are '?'.
SpecLetter(code) ==
    IF code < 28
    THEN <<"A", "B", "C", "D", "E", "F", "G", "H", "I", "K", "L", "M", "N",
           "P", "Q", "R", "S", "T", "V", "W", "Y", "X", "Z", "U", "O", "J",
           "-">>[code]
    ELSE "?"

RECURSIVE SpecDecode(_)
SpecDecode(codes) ==
    IF codes = <<>> \/ Head(codes) = 0 THEN <<>>
    ELSE <<SpecLetter(Head(codes))>> \o SpecDecode(Tail(codes))

\* Every sequence main prints is the residue decoding of spec.md 4.6 of the
\* bytes between its two offsets, so never longer than end - start
\* (spec.md 8): DecodeResidue and the terminator test of DecodeSequence
\* agree with the table.
PsqDecodesAsSpec ==
    \A k \in DOMAIN pSequences :
        pSequences[k] =
            SpecDecode(SubSeq(input.psq, pIndex.sequence_offsets[k] + 1,
                              pIndex.sequence_offsets[k + 1]))

=============================================================================
