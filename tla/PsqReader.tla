----------------------------- MODULE PsqReader -----------------------------
(***************************************************************************)
(* psq_reader.cpp: ParsePin reads the index file (.pin) through a          *)
(* BinaryCursor, then main decodes every protein sequence of the sequence  *)
(* file (.psq) with DecodeSequence.                                        *)
(*                                                                         *)
(* One step is one statement group of ParsePin (a read, the table-size     *)
(* check, one iteration of the offset loop, the validation), or one        *)
(* iteration of main's loop.  A throw ends the run in "failed" (main's     *)
(* catch).  The offset loop reads Data()[pos .. pos+3] with no bounds      *)
(* check: a read past the end of the vector is undefined behaviour, and    *)
(* the model stops there in "overread".                                    *)
(***************************************************************************)
EXTENDS PinFormat

CONSTANT Inputs

VARIABLES input, off, pc, index, field, i, tablePos, parsed, sequences, error
vars == <<input, off, pc, index, field, i, tablePos, parsed, sequences,
          error>>

\* BinaryCursor::EnsureAvailable: m_Pos + bytes > size throws.
Available(buf, o, n) == o + n <= Len(buf)

ReadUInt32(buf, o) ==
    IF Available(buf, o, 4) THEN Ok(o + 4, Word(buf, o)) ELSE Err(o, "Truncated")

\* The eight bytes are taken from the first to the last, most significant
\* first.
ReadUInt64(buf, o) ==
    IF Available(buf, o, 8) THEN Ok(o + 8, Bytes(buf, o, 8))
    ELSE Err(o, "Truncated")

ReadString(buf, o) ==
    LET len == ReadUInt32(buf, o)
    IN  IF Failed(len) THEN len
        ELSE IF ~Available(buf, len.off, len.val) THEN Err(len.off, "Truncated")
        ELSE Ok(len.off + len.val, Bytes(buf, len.off, len.val))

\* A default-constructed PinIndex.
EmptyIndex ==
    [version |-> 0, sequence_type |-> 0, volume_number |-> 0,
     title |-> <<>>, lmdb_name |-> <<>>, creation_date |-> <<>>,
     num_sequences |-> 0, total_residues |-> [k \in 1..8 |-> 0],
     max_length |-> 0, sequence_offsets |-> <<>>]

\* The reads after the version check, in the order of the code.
Fields(v) ==
    (IF v = 5 THEN <<"volume_number">> ELSE <<>>)
    \o <<"title">> \o (IF v = 5 THEN <<"lmdb_name">> ELSE <<>>)
    \o <<"creation_date", "num_sequences", "total_residues", "max_length">>

ReadFieldValue(f, buf, o) ==
    CASE f \in {"title", "lmdb_name", "creation_date"} -> ReadString(buf, o)
      [] f = "total_residues"                          -> ReadUInt64(buf, o)
      [] OTHER                                         -> ReadUInt32(buf, o)

\* Mutant: a table of num_sequences entries, without the closing one.
RegionBytesNoSentinel(ix) == (ix.num_sequences % UInt32Range) * 4

\* region_bytes = (size_t)(num_sequences + 1) * 4: the sum is a uint32.
RegionBytes(ix) == ((ix.num_sequences + 1) % UInt32Range) * 4

\* DecodeResidue: the NCBIstdaa table; 0 is the terminator, 28 and above '?'.
Residues == <<"A", "B", "C", "D", "E", "F", "G", "H", "I", "K", "L", "M", "N",
              "P", "Q", "R", "S", "T", "V", "W", "Y", "X", "Z", "U", "O", "J",
              "-">>
DecodeResidue(code) ==
    IF code = 0 THEN "NUL" ELSE IF code < 28 THEN Residues[code] ELSE "?"

\* Mutant: the terminator is decoded before the loop breaks.
DecodeSequenceThroughNul(data, start, end) ==
    LET codes == Bytes(data, start, end - start)
        stop  == {k \in DOMAIN codes : codes[k] = 0}
        len   == IF stop = {} THEN Len(codes) ELSE Min(stop)
    IN  [k \in 1..len |-> DecodeResidue(codes[k])]

\* DecodeSequence(data, start, end) for start <= end <= size: the residues
\* of [start, end) up to the first terminator.
DecodeSequence(data, start, end) ==
    LET codes == Bytes(data, start, end - start)
        stop  == {k \in DOMAIN codes : codes[k] = 0}
        len   == IF stop = {} THEN Len(codes) ELSE Min(stop) - 1
    IN  [k \in 1..len |-> DecodeResidue(codes[k])]

Current ==
    IF pc = "fields"
    THEN ReadFieldValue(Fields(index.version)[field], input.pin, off)
    ELSE ReadUInt32(input.pin, off)

Init ==
    /\ input \in Inputs
    /\ off = 0
    /\ pc = "version"
    /\ index = EmptyIndex
    /\ field = 1
    /\ i = 0
    /\ tablePos = 0
    /\ parsed = FALSE
    /\ sequences = <<>>
    /\ error = "none"

\* ReadFile, then version and sequence type are read before the version is
\* checked.
ReadVersion ==
    LET v == ReadUInt32(input.pin, 0)
        t == ReadUInt32(input.pin, 4)
        kind == CASE Len(input.pin) = 0    -> "Truncated"
                  [] Failed(v)             -> v.val
                  [] Failed(t)             -> t.val
                  [] v.val \notin {4, 5}   -> "UnsupportedVersion"
                  [] OTHER                 -> "none"
    IN  /\ pc = "version"
        /\ IF kind = "none"
           THEN /\ index' = [index EXCEPT !.version = v.val,
                                          !.sequence_type = t.val]
                /\ off' = t.off
                /\ pc' = "fields"
                /\ UNCHANGED error
           ELSE /\ pc' = "failed"
                /\ error' = kind
                /\ UNCHANGED <<index, off>>
        /\ UNCHANGED <<input, field, i, tablePos, parsed, sequences>>

ReadField ==
    /\ pc = "fields"
    /\ ~Failed(Current)
    /\ LET f == Fields(index.version)[field]
       IN  index' = [index EXCEPT ![f] = Current.val]
    /\ pc' = IF field = Len(Fields(index.version)) THEN "tables" ELSE "fields"
    /\ off' = Current.off
    /\ field' = field + 1
    /\ UNCHANGED <<input, i, tablePos, parsed, sequences, error>>

ReadThrows ==
    /\ pc = "fields"
    /\ Failed(Current)
    /\ pc' = "failed"
    /\ error' = Current.val
    /\ UNCHANGED <<input, off, index, field, i, tablePos, parsed, sequences>>

\* header_offsets = Position(); sequence_offsets = header_offsets +
\* region_bytes; the tables must fit in the file.
CheckTables ==
    LET region == RegionBytes(index)
    IN  /\ pc = "tables"
        /\ tablePos' = off + region
        /\ IF off + region + region > Len(input.pin)
           THEN pc' = "failed" /\ error' = "Truncated" /\ UNCHANGED i
           ELSE pc' = "offsets" /\ i' = 0 /\ UNCHANGED error
        /\ UNCHANGED <<input, off, index, field, parsed, sequences>>

\* pos = sequence_offsets + i * 4, the product a uint32.
EntryPos == tablePos + ((i * 4) % UInt32Range)

\* One iteration of for (uint32_t i = 0; i <= num_sequences; ++i).  The
\* read of Data()[pos + 3] past the end of the vector is undefined
\* behaviour.
ReadOffset ==
    /\ pc = "offsets"
    /\ IF EntryPos + 4 > Len(input.pin)
       THEN pc' = "overread" /\ UNCHANGED <<index, i>>
       ELSE /\ index' = [index EXCEPT !.sequence_offsets =
                                         Append(@, Word(input.pin, EntryPos))]
            /\ i' = (i + 1) % UInt32Range
            /\ pc' = IF i' <= index.num_sequences THEN "offsets" ELSE "validate"
    /\ UNCHANGED <<input, off, field, tablePos, parsed, sequences, error>>

\* The corrupt-offsets and protein-only checks, and the return of the index.
Validate ==
    LET so == index.sequence_offsets
        kind == CASE Len(so) < 2 \/ so[1] >= so[Len(so)] -> "CorruptIndex"
                  [] index.sequence_type # 1            -> "UnsupportedDatabase"
                  [] OTHER                              -> "none"
    IN  /\ pc = "validate"
        /\ IF kind = "none"
           THEN pc' = "open" /\ parsed' = TRUE /\ UNCHANGED error
           ELSE pc' = "failed" /\ error' = kind /\ UNCHANGED parsed
        /\ UNCHANGED <<input, off, index, field, i, tablePos, sequences>>

\* ReadFile(psq_path) throws on an empty file.
OpenPsq ==
    /\ pc = "open"
    /\ IF input.psq = <<>>
       THEN pc' = "failed" /\ error' = "Truncated"
       ELSE pc' = "decode" /\ UNCHANGED error
    /\ UNCHANGED <<input, off, index, field, i, tablePos, parsed, sequences>>

\* Mutant: a record whose range is bad is printed empty and the loop goes on.
DecodeRecordSkipBad ==
    LET k == Len(sequences)
        start == index.sequence_offsets[k + 1]
        end == index.sequence_offsets[k + 2]
    IN  /\ pc = "decode"
        /\ k < index.num_sequences
        /\ sequences' = Append(sequences,
                               IF start > end \/ end > Len(input.psq) THEN <<>>
                               ELSE DecodeSequence(input.psq, start, end))
        /\ UNCHANGED <<input, off, index, field, i, tablePos, parsed, pc, error>>

\* One iteration of main's loop over the sequences.
DecodeRecord ==
    LET k == Len(sequences)
        start == index.sequence_offsets[k + 1]
        end == index.sequence_offsets[k + 2]
    IN  /\ pc = "decode"
        /\ k < index.num_sequences
        /\ IF start > end \/ end > Len(input.psq)
           THEN pc' = "failed" /\ error' = "CorruptIndex"
                /\ UNCHANGED sequences
           ELSE sequences' = Append(sequences,
                                    DecodeSequence(input.psq, start, end))
                /\ UNCHANGED <<pc, error>>
        /\ UNCHANGED <<input, off, index, field, i, tablePos, parsed>>

DecodeDone ==
    /\ pc = "decode"
    /\ Len(sequences) = index.num_sequences
    /\ pc' = "done"
    /\ UNCHANGED <<input, off, index, field, i, tablePos, parsed, sequences,
                   error>>

Next ==
    \/ ReadVersion \/ ReadField \/ ReadThrows \/ CheckTables
    \/ ReadOffset \/ Validate
    \/ OpenPsq \/ DecodeRecord \/ DecodeDone

\* main is one sequential call: while it has not returned, its next
\* statement runs.
Spec == Init /\ [][Next]_vars /\ WF_vars(Next)

Finished == pc \in {"done", "failed", "overread"}
=============================================================================
