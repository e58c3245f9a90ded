# TLA+ models of the BLAST database readers

This directory holds TLA+ models of the legacy BLAST database reader programs
under `src/src/app/blastdb/`, with the TLC configurations that check them.

## The system

`legacy_header_reader.cpp` reads one volume of a legacy BLAST database:
- `ParsePinFile` reads the index file (`.pin`), which holds a version, a title, a date and the offset tables.
- `ExtractHeaders` cuts the header file (`.phr`) into one blob per sequence.
- `PrintSummary` decodes each blob with `DecodeDeflineSet` and prints the result.

`DecodeDeflineSet` is the core. It walks the BER tag-length-value stream of a `Blast-def-line-set` and returns a list of definition lines. Each line holds a title, a list of Seq-ids and an optional taxid. It uses four layers of code:
- a BER reader: `ReadTag`, `ReadLength`, `IsEoc`, `SkipElement`, `ParseInteger` and `ParseString`;
- string readers: `ParseVisible`, the permissive `ExtractVisibleLike` scan, and the explicit-wrapper readers `ParseExplicitVisible` and `ParseExplicitInteger`;
- the Seq-id decoders: `ParseTextSeqId`, `ParseSeqId` (gi, PDB, text, and the last-resort value recovery), `ParseSeqIdList` and `ParseSeqIdField`;
- two catch blocks, one around each line and one around the whole loop.

Every reader takes the buffer and a `size_t` offset by reference. It advances the offset or throws `PinParseError`.

`psq_reader.cpp` holds two more programs:
- a protein sequence reader: `ParsePin` and `DecodeSequence`;
- an alias-file reader: `ParseAliasFile` reads a text file line by line with `std::getline`. It cuts each line at `#` and trims it, splits it at the first space or tab into a key and a value, appends the whitespace-separated tokens of a `DBLIST` value to the volume list, and stores any other key once. The first bad line throws, with its line number, to `main`'s catch.

## Modules

| module | models | state and steps |
|---|---|---|
| `BerReader` | the BER reader and the string and explicit-wrapper readers (lines 20-178, 312-441, 646-700) | pure operators |
| `SeqIdReader` | the Seq-id decoders (lines 443-644) | pure operators |
| `DeflineSet` | `DecodeDeflineSet` (lines 702-803) | the state machine |
| `DeflineEncoding` | the schema encoding of spec.md 4.4-4.5; models no code | the reference the decoder is checked against |
| `MCDeflineSet` | the sample inputs and the properties | builds the model-checking cases |
| `PinFormat` | what the two index readers share: big-endian words, byte slices, the throw as a result (legacy 33-58, 201; psq 17) | pure operators and the `Radix` constant |
| `LegacyPinReader` | `ReadBE32`, `ReadLE64`, `ReadPascalString`, `ParsePinFile`, `ExtractHeaders` and main's catch (legacy 49-61, 180-310, 891-916) | a state machine |
| `PsqReader` | `BinaryCursor`, `ParsePin`, `DecodeResidue`, `DecodeSequence` and main's decode loop (psq 10-172, 184-224) | a state machine |
| `ReaderContract` | a reader as one call from a file to its result; models no code | the abstract specification |
| `MCIndexReaders` | the two readers run one after the other, the sample indexes and the refinement mappings | builds the model-checking cases |
| `AliasFile` | `Trim`, `SplitWhitespace` and `ParseAliasFile` (psq 235-316) and main's catch | a state machine, one step per line |
| `MCAliasFile` | the alias files, the declarative reading of a file and the refinement mapping | builds the model-checking cases |

**BerReader and SeqIdReader.** The reader functions are pure, so each is an operator over the buffer (a sequence of bytes) and a 0-based offset. It returns a result record:
- `Ok(off, val)` for a value and the offset after it;
- `Err(off, msg)` for a throw;
- `Hang(off)` for a loop that can never leave.

A caller passes any result other than "ok" straight up, the way an exception propagates. Only `ParseExplicitVisible` catches (`Fallback`).

Each loop of the code is a group of RECURSIVE operators, one per iteration. For example, `Chunks`/`ChunkBody`/`NextChunk` is the chunk loop of `ParseVisible`, and `Scan`/`ScanStep` is the `while (true)` loop of `ExtractVisibleLike`. `ScanStep` returns `Hang` exactly when an iteration left the offset where it was. The next iteration would then be the same one, forever.

The value recovery of `ParseSeqId` reads `buffer[i]` up to an offset that nothing bounds, which is undefined behaviour past the end. `Recover` models it as the bytes up to the end of the buffer plus one byte `junk`. The caller chooses `junk` from `JunkBytes`, and the result carries the flag `oob`.

**DeflineSet.** One step is one iteration of one of the two loops of `DecodeDeflineSet`:
- `ReadOuter` and `OuterThrow`: the outer tag and length, read before the `try`.
- `OuterExit`, `SkipNonDefline`, `BeginDefline` and `OuterCatch`: the outer loop.
- `DeflineExit`, `DecodeTitle`, `DecodeSeqIds`, `DecodeTaxid`, `SkipField`, `DefCatch` and `DefHang`: the inner loop, one field per step.

The variables are:
- `off`;
- `outer` and `def`, the bounds of the set and of the current line;
- `entry`, `deflines` and `error` (`*error_out`);
- `escaped`, set when an exception leaves the function;
- `overread`;
- `pc`: "done" when the function returns, "hung" when the title scan never returns.

`input` holds the blob and never changes.

**MCDeflineSet.** This module builds the cases:
- every list of at most `MaxDeflines` lines drawn from `Samples`;
- encoded with the string types of `StringTypes`, whole strings or one-byte chunks, and the length forms of `Indefinite`;
- optionally with an unknown trailing field (`ExtraField`) and with titles in an extra SEQUENCE layer (`Layered`);
- whole, or cut after every byte (`Truncated`).

Each case carries what spec.md says the decoder should return.

**PinFormat: integer width.** TLC's integers are 32-bit signed, so a `uint32` (0 .. 2^32-1) cannot be represented. The model keeps the four-byte layout and scales the byte instead: a byte is a value of `0 .. Radix-1` (256 in the code, 128 in the cfgs), a word is `Word(buf, off) < Radix^4`, and `uint32` arithmetic is modulo `UInt32Range = Radix^4`. The wrap of the code at 2^32 is then the wrap here at `Radix^4`, with the same carries. The 64-bit total is never used in arithmetic by either reader, so it is kept as its eight bytes, most significant first: a reader's byte order is exactly what it keeps.

**LegacyPinReader.** One step is one read of `ParsePinFile`: `ReadVersion` or `UnsupportedVersion`, `ReadField` for each field from the type flag to `max_length` (the v5 fields only for version 5), `ReadOffset` for each entry of the two or three offset tables, then `CheckTrailing` (the trailing-bytes warning, `warned`). `ReadThrows` is any read that throws, caught by main. Then one `SliceHeader` per header of `ExtractHeaders`, `SliceRejected` for a bad range, and `HeadersDone`. `pc` ends in "done" or "failed"; `error` is the spec.md 7 error kind of the throw.

**PsqReader.** `ReadVersion` reads version and type and then checks the version, in the code's order. `ReadField` and `ReadThrows` read the fields. `CheckTables` computes `region_bytes` with the `uint32` sum and checks the two tables fit. `ReadOffset` is one iteration of `for (uint32_t i = 0; i <= num_sequences; ++i)`: the read has no bounds check, and a read past the end of the vector (undefined behaviour) stops the model in "overread". `Validate` holds the corrupt-offsets and protein-only checks. `OpenPsq` reads the .psq file, which throws when it is empty. `DecodeRecord` is one iteration of main's loop, and `DecodeDone` ends it.

**ReaderContract and the refinement.** `ReaderContract` is the abstract reader: a file is given, and one step `Return` replaces the pending result by `Outcome(file)`, with weak fairness so that it does return (`Spec`); `Safety` is the same without the fairness. For the index readers `Outcome` is the result spec.md 4.2, 6 and 7 give. `MCIndexReaders` instantiates it twice:
- `LegacyContract` maps `file` to the input and `result` to `LegacyResult`, the pending record until the reader finishes and then its index or error in spec field names;
- `PsqContract` does the same with `PsqResult` and `ProteinExpected`, which is the spec outcome with a nucleotide index rejected as `UnsupportedDatabase`.

`LegacyImplementsContract` and `PsqImplementsContract` are the contracts' `Spec`, checked as PROPERTYs. They are both safety (the result, once given, is the one spec.md gives) and liveness (it is given).

**MCIndexReaders.** Each case is a sample index record encoded as spec.md 6 lays it out (`Encode`), with the result spec.md gives it (`Whole`):
- the samples whole;
- with one trailing byte, which must give a warning;
- cut after every byte, which must give `Truncated`, or `UnsupportedVersion` once the version is read (`Prefix`);
- patched by `Patched` (`num_oids` set to the largest `uint32`).

**AliasFile.** A file is its sequence of lines as `std::getline` cuts them, or `NoFile` when it cannot be opened. A line is a sequence of character classes: `SP`, `TAB`, `CR`, `VT` (for `\v` and `\f`), `HASH` and printable characters. The code uses three different whitespace sets and the model keeps them apart: `TrimSpace` (`Trim`, `" \t\r\n"`), `KeySeparators` (`find_first_of(" \t")`) and `StreamSpace` (`isspace`, where `operator>>` ends a token). `StripComment`, `Trim` and the RECURSIVE `SplitWhitespace` are the string helpers. `Clean`, `KeyEnd`, `Key` and `Value` are what one iteration computes from line `lineNo + 1`. The steps are:
- `Open`, which fails on `NoFile`;
- `EndOfFile`, when `getline` finds no more lines;
- `SkipBlank`, for a line that is empty once cut and trimmed;
- `MissingValue`, `NoVolumes` and `DuplicateKey`, the throws in the code's order, each ending in "failed" with the line number (`Fail`);
- `AppendVolumes` for a `DBLIST` line, and `StoreValue` for any other key.

The empty-value throw (psq 291) has no step. `Trim` leaves the line ending in a character it keeps, and no such character is a key separator, so the value always holds it. `EmptyValueUnreachable` checks this.

**MCAliasFile.** `AliasOutcome` is a declarative reading of a file. The first line with a problem is reported by its number among all lines. Otherwise the volumes are the tokens of the `DBLIST` lines in file order, and the metadata maps each other key to its value. `AliasResult` maps the reader onto `ReaderContract`, which is instantiated with `Paths` and `AliasOutcome`.

The samples are spec.md scenario 1, a v5 nucleotide volume, an empty volume, a two-protein volume and a version-3 index. The .psq files are an empty file and two files of 14 and 12 residue bytes. The legacy reader runs first, and the psq reader starts on the same index once the legacy reader has finished.


- `TypeOK`: the variables have their types, and every Seq-id has a type.
- `RoundTrip`: a finished decode returns the list spec.md 4.5 describes. A line with a failing field is kept with the fields before it, and decoding goes on. There is a warning exactly when some line is corrupt, and no exception.
- `KeepsWholeLines`: a blob cut anywhere still yields, in order, every line wholly before the cut, and the damage is reported.
- `NoInventedFields`: every returned line, the partial one included, holds only fields of one line of the blob. Some fields may be missing, and the title may be cut to its first chunks; `WholeTitles` checks that separately. Seq-ids and taxids taken from another line or another place in the blob break it.
- `WholeTitles`: on a blob that was not cut, every returned title is empty or the whole title of a line (spec.md 4.4: a constructed string is the concatenation of its chunks).
- `Termination` (`pc # "hung"`): no endless loop.
- `NoEscape`: no exception leaves `DecodeDeflineSet`.
- `TypeOK` (MCIndexReaders): the variables of both readers have their types. The 64-bit totals have eight bytes, and the tables hold `uint32` values.
- `LegacyImplementsContract` and `PsqImplementsContract`: the refinements above.
- `PsqNoOverread`: the psq reader never reads past the end of its index.
- `TypeOK` (MCAliasFile): every volume is a nonempty token without whitespace, no metadata key is `DBLIST`, and an error names a line of the file.
- `EmptyValueUnreachable`: the empty-value check of `ParseAliasFile` can never fire.
- `AliasImplementsContract`: `ReaderContract!Safety` under `AliasResult`, so whatever the alias reader returns is the declarative result.
- `PsqPrintsUpToFirstBad`: once the psq decode loop stops, it has printed exactly the records before the first record whose range runs backwards or past the .psq file, and it fails because of that record (psq 214). It succeeds only when there is no such record. `BadRecord` and `FirstBadRecord` state this from the index alone, and the mutant that prints a bad record empty and goes on breaks it.
- `PsqDecodesAsSpec`: every sequence the psq reader returns is the one spec.md 4.6 defines. `SpecDecode` is that reference, written as a RECURSIVE operator over the bytes of the record.

## Runs

The first eight runs use `MCDeflineSet` and `MaxDeflines = 2`. AliasFile uses `MCAliasFile`. The last three use `MCIndexReaders` with `Radix = 128`.

| run | expect | what it shows |
|---|---|---|
| RoundTripDefinite | pass | well-formed definite blobs (two string types, whole and chunked, with a lone-INTEGER extra field) decode to themselves (`TypeOK`, `RoundTrip`) |
| Truncation | pass | blobs cut at every byte (`TruncationCases`): definite ones of every Seq-id variant, indefinite ones of PDB and gi Seq-ids, one- and two-chunk titles: `KeepsWholeLines`, `NoInventedFields` |
| LayeredTitleScan | pass | indefinite layered one- and two-chunk titles, cut: the permissive rescan, its endless loop included, never returns a field of another line or place (`NoInventedFields`) |
| RoundTripIndefinite | violation | `RoundTrip`: a text Seq-id's end-of-contents marker is consumed twice (line 518) |
| TitleHang | violation | `Termination`: the `while (true)` loop of `ExtractVisibleLike` (line 417) spins on a cut layered title |
| LayeredTitleIndefinite | violation | `RoundTrip`: after a layered title, the Seq-ids and taxid are lost silently (line 689) |
| ChunkedTitlePrefix | violation | `WholeTitles`: a whole blob whose two-chunk title sits in an extra indefinite layer gives the first chunk as the title (lines 402-403) |
| OuterEscape | violation | `NoEscape`: the outer tag and length are read outside the `try` (lines 707-711) |
| IndexReaders | pass | both index readers on all the cases above: `TypeOK`, `PsqNoOverread`, `PsqDecodesAsSpec`, `PsqPrintsUpToFirstBad`, `LegacyImplementsContract` |
| AliasFile | pass | every alias file in the bounds: `TypeOK`, `EmptyValueUnreachable`, `AliasImplementsContract` |
| PsqOffsetWrap | violation | `PsqNoOverread`: `num_sequences = 0xFFFFFFFF` wraps `num_sequences + 1` to 0, the size check passes and the loop reads past the file (psq line 110) |
| PsqContract | violation | `PsqImplementsContract`: `ReadUInt64` keeps the 64-bit total in the opposite byte order from spec.md 6 (psq line 41) |

`PROJECT.json` records the findings of the violation runs. It also records one mutant per property of each passing run: a plausible bug in a mapped definition that TLC then catches. The mutant operators sit in the modules, just before the definitions they replace.

## Bounds

Two lines per blob are enough for a line to follow a failing one, for a stray element between lines, and for a stale field to reach the next line.

The samples cover:
- each Seq-id variant: gi, PDB, a text Seq-id with and without version, and one with a version only;
- an empty, a one-byte and a two-byte title, present and absent taxids.

The two-byte title is two chunks when chunked, so a fallback that returns only the first chunk is visible. `CorruptLines` (a corrupt taxid, a zero-length INTEGER) is used by no kept run. With it, `RoundTrip` shows the line-isolation divergence at 793 (see the hazards).

Chunking into one-byte chunks produces constructed strings with more than one chunk.

Cutting after every byte reaches every read at the end of the buffer. Those are the paths a test would hardly choose.

For the index readers, the samples cover both versions, both sequence types, zero, one and two sequences, a trailing byte and every cut. `Radix = 128` keeps every word below 2^28, within TLC's integers. It still lets `num_oids` take the largest `uint32`, which is where the `+ 1` wraps.

The alias files are every one-line file of up to four characters and every two-line file of lines of up to three, over `d` (the `DBLIST` key), `k`, `SP`, `CR`, `VT` and `HASH`. On top of that come all files of up to three lines drawn from ten sample lines. The samples give repeated keys, a second `DBLIST` line, a value split by `\v`, and a blank line before a bad one. `TAB` is in every set `SP` is in, so it is left out.

Each passing run finishes in under 30 seconds. They range from 6,824 to 239,718 distinct states.

## Fairness

`DeflineSet` has none. `DecodeDeflineSet` is one sequential call: it returns, throws, or loops forever. A final state has no successor, and every cfg sets `CHECK_DEADLOCK FALSE`.

`LegacyPinReader`, `PsqReader` and their composition assume `WF_vars(Next)`. Each `main` is one sequential call with no waiting, so while it has not returned its next statement runs. Termination of the readers and the liveness half of the refinement rest on this. It is the contract's `Return` that must eventually happen.

`AliasFile` assumes `WF_vars(Next)` for the same reason. The alias run checks only the safety half of the contract, because TLC's liveness checking through `AliasResult` is too slow at these bounds. Every step of the loop either ends it or increases `lineNo` up to `Len(file)`, so the loop terminates.

Termination is therefore the state property `pc # "hung"`. `ScanStep` decides it exactly: the model reaches "hung" only where the code would repeat the same iteration forever.

## Not modelled

- **Integer widths of the BER reader** (legacy lines 80, 149 and 164). The `uint32` tag number, the `size_t` offset sums and the `int64` of `ParseInteger` all wrap beyond 32 bits. TLC's integers are 32-bit signed. The byte scaling of `PinFormat` does not apply here, because the length and tag bytes of BER carry 7- or 8-bit digits whose meaning the scaling would change.
- **The allocation of `read_offset_array`** (legacy line 265). The table is resized before it is read, so a corrupt count allocates gigabytes before the first read throws. The model keeps only the entries read. The throw that follows is modelled.
- **File I/O and printing:** `ReadFile`, `DerivePhrPath`, `StripExtension`, `DumpHeaders`, `PrintSummary`'s output, and the metadata printing of the psq reader. The files are inputs of the models. The one state change of `PrintSummary`, the uncaught exception, is modelled by `escaped`.
- **`PrintAliasInfo` and the printing of the alias reader's `main`** (psq 318-357): output only.

Divergences seen while modelling that no run shows, because the runs are limited to twelve (see the hazards in `PROJECT.json`):
- `ParsePin` reads the type before it checks the version (psq 89). A 4-7 byte index of version 3 is therefore reported as truncated, not as unsupported. `PsqImplementsContract` reports it with `Cut = {OldVersion}` and a single .psq file.
- `ParsePin` rejects an empty volume (`num_sequences = 0`) as corrupt (psq 128). spec.md 8 accepts it. `PsqImplementsContract` reports it on `EmptyVolume` alone.
- `ParsePinFile` never checks that its offset tables are ordered (spec.md 4.2 reports that as `CorruptIndex`). `LegacyImplementsContract` reports it on scenario 1 with the sequence table `<<14, 0>>`.
- A line with a failing field ends the decoding of the whole blob (legacy 793), where spec.md 4.5 goes on with the next line. `RoundTrip` reports it on a corrupt-taxid line followed by a second line. One bad record ends the main loops of both readers (legacy 303, psq 214), where spec.md 7 treats records as independent. `PsqPrintsUpToFirstBad` states what the psq loop does instead.
- The value recovery of `ParseSeqId` reads past the buffer (legacy 578) after the double end-of-contents consumption shown by RoundTripIndefinite. The model records this read in the flag `overread`, which TLC finds set on cut indefinite text Seq-ids. An unchecked skip over a field cut short (490, 511, 552) reaches it in definite form too. The encodings hold no such field (a Textseq-id release, a PDB field without mol), so no definite run reaches it.
- `UnknownField` (legacy 780): an unknown schema field is skipped one byte late. `RoundTrip` catches this when `ExtraField` holds a `[3]` field.
