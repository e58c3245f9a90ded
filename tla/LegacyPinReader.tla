-------------------------- MODULE LegacyPinReader --------------------------
(***************************************************************************)
(* ParsePinFile and ExtractHeaders of legacy_header_reader.cpp, in the     *)
(* order main calls them: the index file (.pin) is parsed into a PinIndex, *)
(* then the header file (.phr) is cut into one blob per sequence.          *)
(*                                                                         *)
(* One step is one read of ParsePinFile (a field, or one entry of an       *)
(* offset table), or one iteration of the loop of ExtractHeaders.  A read  *)
(* that throws PinParseError ends the run in "failed", as main's catch     *)
(* does.  input.pin and input.phr are the two files; they never change.    *)
(***************************************************************************)
EXTENDS PinFormat

CONSTANT Inputs

VARIABLES input, off, pc, index, field, table, parsed, headers, error, warned
vars == <<input, off, pc, index, field, table, parsed, headers, error, warned>>

ReadBE32(buf, o) ==
    IF o + 4 > Len(buf) THEN Err(o, "Truncated") ELSE Ok(o + 4, Word(buf, o))

\* Mutants of ReadLE64: the loop starts at i = 6; the bytes in file order.
ReadLE64Short(buf, o) ==
    IF o + 8 > Len(buf) THEN Err(o, "Truncated")
    ELSE Ok(o + 8, Reverse(Bytes(buf, o, 7)))
ReadLE64InFileOrder(buf, o) ==
    IF o + 8 > Len(buf) THEN Err(o, "Truncated") ELSE Ok(o + 8, Bytes(buf, o, 8))

\* The eight bytes are taken from the last to the first (i = 7 .. 0).
ReadLE64(buf, o) ==
    IF o + 8 > Len(buf) THEN Err(o, "Truncated")
    ELSE Ok(o + 8, Reverse(Bytes(buf, o, 8)))

ReadPascalString(buf, o) ==
    LET len == ReadBE32(buf, o)
    IN  IF Failed(len) THEN len
        ELSE IF len.off + len.val > Len(buf) THEN Err(len.off, "Truncated")
        ELSE Ok(len.off + len.val, Bytes(buf, len.off, len.val))

\* A default-constructed PinIndex.
EmptyIndex ==
    [version |-> 0, is_protein |-> FALSE, volume_number |-> 0,
     title |-> <<>>, lmdb_file |-> <<>>, date |-> <<>>, num_oids |-> 0,
     total_length |-> [i \in 1..8 |-> 0], max_length |-> 0,
     header_offsets |-> <<>>, sequence_offsets |-> <<>>,
     ambiguity_offsets |-> <<>>]

\* The fields read after the version check, in the order of the code.
Fields(v) ==
    <<"is_protein">> \o (IF v = 5 THEN <<"volume_number">> ELSE <<>>)
    \o <<"title">> \o (IF v = 5 THEN <<"lmdb_file">> ELSE <<>>)
    \o <<"date", "num_oids", "total_length", "max_length">>

ReadFieldValue(f, buf, o) ==
    CASE f \in {"title", "lmdb_file", "date"} -> ReadPascalString(buf, o)
      [] f = "total_length"                    -> ReadLE64(buf, o)
      [] OTHER                                 -> ReadBE32(buf, o)

\* seq_type_flag is kept only as is_protein = (flag == 1).
Stored(f, v) == IF f = "is_protein" THEN v = 1 ELSE v

\* The tables read_offset_array fills, in order.
Tables(ix) ==
    <<"header_offsets", "sequence_offsets">>
    \o (IF ix.is_protein THEN <<>> ELSE <<"ambiguity_offsets">>)

\* count = num_oids + 1, computed in size_t: it does not wrap.
Count(ix) == ix.num_oids + 1

\* The read the current step performs.
Current ==
    CASE pc = "version" -> ReadBE32(input.pin, off)
      [] pc = "fields"  -> ReadFieldValue(Fields(index.version)[field],
                                          input.pin, off)
      [] OTHER          -> ReadBE32(input.pin, off)

Init ==
    /\ input \in Inputs
    /\ off = 0
    /\ pc = "version"
    /\ index = EmptyIndex
    /\ field = 1
    /\ table = 1
    /\ parsed = FALSE
    /\ headers = <<>>
    /\ error = "none"
    /\ warned = FALSE

\* index.version = ReadBE32(...), accepted as 4 or 5.
ReadVersion ==
    /\ pc = "version"
    /\ ~Failed(Current)
    /\ Current.val \in {4, 5}
    /\ off' = Current.off
    /\ index' = [index EXCEPT !.version = Current.val]
    /\ pc' = "fields"
    /\ UNCHANGED <<input, field, table, parsed, headers, error, warned>>

UnsupportedVersion ==
    /\ pc = "version"
    /\ ~Failed(Current)
    /\ Current.val \notin {4, 5}
    /\ pc' = "failed"
    /\ error' = "UnsupportedVersion"
    /\ UNCHANGED <<input, off, index, field, table, parsed, headers, warned>>

\* One field of the header of the index, from seq_type_flag to max_length.
ReadField ==
    /\ pc = "fields"
    /\ ~Failed(Current)
    /\ LET f == Fields(index.version)[field]
       IN  /\ index' = [index EXCEPT ![f] = Stored(f, Current.val)]
           /\ pc' = IF field = Len(Fields(index.version)) THEN "fill"
                    ELSE "fields"
    /\ off' = Current.off
    /\ field' = field + 1
    /\ UNCHANGED <<input, table, parsed, headers, error, warned>>

\* target[i] = ReadBE32(...), one iteration of the loop of read_offset_array.
\* target.resize(count) before the loop sizes the table before any entry is
\* read; the model keeps the entries read so far.
ReadOffset ==
    /\ pc = "fill"
    /\ ~Failed(Current)
    /\ LET t == Tables(index)[table]
           full == Len(index[t]) + 1 = Count(index)
       IN  /\ index' = [index EXCEPT ![t] = Append(@, Current.val)]
           /\ pc' = IF full /\ table = Len(Tables(index)) THEN "trailing"
                    ELSE "fill"
           /\ table' = IF full THEN table + 1 ELSE table
    /\ off' = Current.off
    /\ UNCHANGED <<input, field, parsed, headers, error, warned>>

\* A read of ParsePinFile throws PinParseError, caught by main.
ReadThrows ==
    /\ pc \in {"version", "fields", "fill"}
    /\ Failed(Current)
    /\ pc' = "failed"
    /\ error' = Current.val
    /\ UNCHANGED <<input, off, index, field, table, parsed, headers, warned>>

\* The trailing-bytes warning, and the return of the index.
CheckTrailing ==
    /\ pc = "trailing"
    /\ warned' = (off # Len(input.pin))
    /\ parsed' = TRUE
    /\ pc' = "slice"
    /\ UNCHANGED <<input, off, index, field, table, headers, error>>

\* The range [start, end) of header i in the .phr file.
HeaderStart(i) == index.header_offsets[i + 1]
HeaderEnd(i) == index.header_offsets[i + 2]
ValidRange(i) ==
    ~(HeaderEnd(i) < HeaderStart(i) \/ HeaderEnd(i) > Len(input.phr))

\* One iteration of the loop of ExtractHeaders.
SliceHeader ==
    LET i == Len(headers) IN
    /\ pc = "slice"
    /\ i < index.num_oids
    /\ ValidRange(i)
    /\ headers' = Append(headers,
                         Bytes(input.phr, HeaderStart(i),
                               HeaderEnd(i) - HeaderStart(i)))
    /\ UNCHANGED <<input, off, pc, index, field, table, parsed, error, warned>>

SliceRejected ==
    LET i == Len(headers) IN
    /\ pc = "slice"
    /\ i < index.num_oids
    /\ ~ValidRange(i)
    /\ pc' = "failed"
    /\ error' = "CorruptIndex"
    /\ UNCHANGED <<input, off, index, field, table, parsed, headers, warned>>

HeadersDone ==
    /\ pc = "slice"
    /\ Len(headers) = index.num_oids
    /\ pc' = "done"
    /\ UNCHANGED <<input, off, index, field, table, parsed, headers, error,
                   warned>>

Next ==
    \/ ReadVersion \/ UnsupportedVersion \/ ReadField \/ ReadOffset
    \/ ReadThrows \/ CheckTrailing
    \/ SliceHeader \/ SliceRejected \/ HeadersDone

\* main is one sequential call: while it has not returned, its next
\* statement runs.
Spec == Init /\ [][Next]_vars /\ WF_vars(Next)

Finished == pc \in {"done", "failed"}
=============================================================================
