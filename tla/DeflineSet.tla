---------------------------- MODULE DeflineSet -----------------------------
(***************************************************************************)
(* DecodeDeflineSet of legacy_header_reader.cpp: the decoder of one header *)
(* blob into its list of definition lines.                                 *)
(*                                                                         *)
(* One step is one iteration of one of its two loops: the outer loop over  *)
(* the elements of the Blast-def-line-set SEQUENCE and the inner loop over *)
(* the fields of one Blast-def-line.  A field is decoded in one step by    *)
(* the operators of BerReader and SeqIdReader.  Its state is the offset,   *)
(* the bounds of the two enclosing elements, the entry being filled, the   *)
(* list returned so far and the error_out string.                          *)
(*                                                                         *)
(* The end of the function: pc = "done"; an exception that leaves it       *)
(* (those of the outer tag and length are not caught): escaped; a loop of  *)
(* the permissive string scan that never ends: pc = "hung".                *)
(***************************************************************************)
EXTENDS SeqIdReader

CONSTANTS
    Inputs,     \* the inputs: records whose field blob is a header blob
    JunkBytes   \* the values a byte read past the end of the buffer may have

VARIABLES
    input,      \* the input, never changed
    junk,       \* the byte past the end of buf, if the code reads there
    off,        \* the offset into buf
    pc,         \* "start", "outer" (outer loop), "field" (inner loop), "done", "hung"
    outer,      \* [indef, end] of the Blast-def-line-set
    def,        \* [indef, end] of the current Blast-def-line
    entry,      \* the BlastDefLine being filled
    deflines,   \* the vector returned
    error,      \* *error_out; "" while empty
    escaped,    \* an exception escaped DecodeDeflineSet
    overread    \* a byte past the end of buf was read

vars == <<input, junk, off, pc, outer, def, entry, deflines, error, escaped, overread>>

\* The blob, as a sequence of byte values.
buf == input.blob

EmptyEntry == [title |-> <<>>, seqids |-> <<>>, taxid |-> {}]

\* !entry.title.empty() || !entry.seqids.empty() || entry.taxid
IsPartial(e) == e.title # <<>> \/ e.seqids # <<>> \/ e.taxid # {}

Bytes == 0..255

IsSeqId(id) ==
    /\ DOMAIN id = {"type", "value", "version"}
    /\ id.type \in STRING \ {""} /\ id.value \in Seq(Bytes) /\ id.version \subseteq Int

IsDefline(d) ==
    /\ DOMAIN d = {"title", "seqids", "taxid"}
    /\ d.title \in Seq(Bytes) /\ d.taxid \subseteq Int
    /\ DOMAIN d.seqids = 1..Len(d.seqids)
    /\ \A i \in DOMAIN d.seqids : IsSeqId(d.seqids[i])

TypeOK ==
    /\ "blob" \in DOMAIN input /\ buf \in Seq(Bytes)
    /\ junk \in JunkBytes
    /\ off \in Nat
    /\ pc \in {"start", "outer", "field", "done", "hung"}
    /\ outer \in [indef : BOOLEAN, end : Nat]
    /\ def \in [indef : BOOLEAN, end : Nat]
    /\ IsDefline(entry)
    /\ DOMAIN deflines = 1..Len(deflines)
    /\ \A i \in DOMAIN deflines : IsDefline(deflines[i])
    /\ error \in STRING
    /\ escaped \in BOOLEAN
    /\ overread \in BOOLEAN

Init ==
    /\ input \in Inputs
    /\ junk \in JunkBytes
    /\ off = 0
    /\ pc = "start"
    /\ outer = [indef |-> FALSE, end |-> 0]
    /\ def = [indef |-> FALSE, end |-> 0]
    /\ entry = EmptyEntry
    /\ deflines = <<>>
    /\ error = ""
    /\ escaped = FALSE
    /\ overread = FALSE

-----------------------------------------------------------------------------
(* The outer tag and length, read before the try block.                   *)

OuterTag == ReadTag(buf, 0)
OuterLen == ReadLength(buf, OuterTag.off)

ReadOuter ==
    /\ pc = "start"
    /\ ~Failed(OuterTag)
    /\ OuterTag.val.cls = Universal /\ OuterTag.val.number = 16
    /\ ~Failed(OuterLen)
    /\ off' = OuterLen.off
    /\ outer' = [indef |-> OuterLen.val.indefinite,
                 end |-> OuterLen.off + OuterLen.val.length]
    /\ pc' = "outer"
    /\ UNCHANGED <<input, junk, def, entry, deflines, error, escaped, overread>>

\* "Expected Blast-def-line-set sequence" or a failed read: the exception
\* leaves DecodeDeflineSet.
OuterThrow ==
    /\ pc = "start"
    /\ \/ Failed(OuterTag)
       \/ OuterTag.val.cls # Universal \/ OuterTag.val.number # 16
       \/ Failed(OuterLen)
    /\ escaped' = TRUE
    /\ pc' = "done"
    /\ UNCHANGED <<input, junk, off, outer, def, entry, deflines, error, overread>>

-----------------------------------------------------------------------------
(* The outer loop.                                                        *)

AtOuterEnd ==
    IF outer.indef THEN IsEoc(buf, off) ELSE off >= outer.end

OuterExit ==
    /\ pc = "outer"
    /\ AtOuterEnd
    /\ off' = IF outer.indef THEN off + 2 ELSE off
    /\ pc' = "done"
    /\ UNCHANGED <<input, junk, outer, def, entry, deflines, error, escaped, overread>>

DefTag == ReadTag(buf, off)
IsDeflineTag(t) == t.cls = Universal /\ t.number = 16 /\ t.constructed
DefLen == ReadLength(buf, DefTag.off)
NonDeflineSkip == SkipElement(buf, off)

\* An element that is not a SEQUENCE is skipped from its start.
SkipNonDefline ==
    /\ pc = "outer"
    /\ ~AtOuterEnd
    /\ ~Failed(DefTag) /\ ~IsDeflineTag(DefTag.val)
    /\ ~Failed(NonDeflineSkip)
    /\ off' = NonDeflineSkip.off
    /\ UNCHANGED <<input, junk, pc, outer, def, entry, deflines, error, escaped, overread>>

\* A plausible bug: BlastDefLine entry declared once, before the loop.
BeginDeflineStale ==
    /\ pc = "outer"
    /\ ~AtOuterEnd
    /\ ~Failed(DefTag) /\ IsDeflineTag(DefTag.val)
    /\ ~Failed(DefLen)
    /\ off' = DefLen.off
    /\ def' = [indef |-> DefLen.val.indefinite,
               end |-> DefLen.off + DefLen.val.length]
    /\ pc' = "field"
    /\ UNCHANGED <<input, junk, outer, entry, deflines, error, escaped, overread>>

BeginDefline ==
    /\ pc = "outer"
    /\ ~AtOuterEnd
    /\ ~Failed(DefTag) /\ IsDeflineTag(DefTag.val)
    /\ ~Failed(DefLen)
    /\ off' = DefLen.off
    /\ def' = [indef |-> DefLen.val.indefinite,
               end |-> DefLen.off + DefLen.val.length]
    /\ entry' = EmptyEntry
    /\ pc' = "field"
    /\ UNCHANGED <<input, junk, outer, deflines, error, escaped, overread>>

\* A plausible bug of the outer catch: the exception swallowed, error_out
\* left as it is.
OuterCatchSilent ==
    /\ pc = "outer"
    /\ ~AtOuterEnd
    /\ LET r == CASE Failed(DefTag) -> DefTag
                  [] ~IsDeflineTag(DefTag.val) -> NonDeflineSkip
                  [] OTHER -> DefLen
       IN Failed(r)
    /\ pc' = "done"
    /\ UNCHANGED <<input, junk, off, outer, def, entry, deflines, error, escaped, overread>>

\* The outer catch: error_out is overwritten and the loop is left.
OuterCatch ==
    /\ pc = "outer"
    /\ ~AtOuterEnd
    /\ LET r == CASE Failed(DefTag) -> DefTag
                  [] ~IsDeflineTag(DefTag.val) -> NonDeflineSkip
                  [] OTHER -> DefLen
       IN /\ Failed(r)
          /\ error' = r.val
    /\ pc' = "done"
    /\ UNCHANGED <<input, junk, off, outer, def, entry, deflines, escaped, overread>>

-----------------------------------------------------------------------------
(* The inner loop: one field of the Blast-def-line per step.             *)

AtDefEnd == IF def.indef THEN IsEoc(buf, off) ELSE off >= def.end

DeflineExit ==
    /\ pc = "field"
    /\ AtDefEnd
    /\ off' = IF def.indef THEN off + 2 ELSE off
    /\ deflines' = Append(deflines, entry)
    /\ pc' = "outer"
    /\ UNCHANGED <<input, junk, outer, def, entry, error, escaped, overread>>

FieldTag == ReadTag(buf, off)
FieldLen == ReadLength(buf, FieldTag.off)
\* field_tag.constructed || len.indefinite
Explicit == FieldTag.val.constructed \/ FieldLen.val.indefinite

TitleResult ==
    CASE Failed(FieldLen) -> FieldLen
      [] Explicit -> ParseExplicitVisible(buf, FieldLen.off, FieldLen.val)
      [] OTHER -> ParseString(buf, FieldLen.off, FieldLen.val.length)

SeqIdsResult == ParseSeqIdField(buf, junk, FieldTag.off)

TaxidResult ==
    CASE Failed(FieldLen) -> FieldLen
      [] Explicit -> ParseExplicitInteger(buf, FieldLen.off, FieldLen.val)
      [] OTHER -> ParseInteger(buf, FieldLen.off, FieldLen.val.length)

\* SkipElement called after the tag was read, for a field of another class
\* and for an unknown context-specific field.
SkipResult == SkipElement(buf, FieldTag.off)

IsContext == FieldTag.val.cls = ContextSpecific

FieldResult ==
    CASE Failed(FieldTag) -> FieldTag
      [] ~IsContext \/ FieldTag.val.number \notin {0, 1, 2} -> SkipResult
      [] FieldTag.val.number = 0 -> TitleResult
      [] FieldTag.val.number = 1 -> SeqIdsResult
      [] OTHER -> TaxidResult

\* The case of the switch the field takes.
FieldKind ==
    CASE ~IsContext -> "skip"
      [] FieldTag.val.number = 0 -> "title"
      [] FieldTag.val.number = 1 -> "seqids"
      [] FieldTag.val.number = 2 -> "taxid"
      [] OTHER -> "skip"

FieldStep(kind) ==
    /\ pc = "field"
    /\ ~AtDefEnd
    /\ ~Failed(FieldTag)
    /\ FieldKind = kind

\* A field read without an exception: the offset moves past it and the
\* member of entry it decodes is set.
StoreField(kind, r) ==
    /\ ~Failed(r)
    /\ off' = r.off
    /\ entry' = CASE kind = "title" -> [entry EXCEPT !.title = r.val]
                [] kind = "seqids" -> [entry EXCEPT !.seqids = r.val]
                [] kind = "taxid" -> [entry EXCEPT !.taxid = {r.val}]
                [] OTHER -> entry
    /\ overread' = (overread \/ Oob(r))
    /\ UNCHANGED <<input, junk, pc, outer, def, deflines, error, escaped>>

DecodeTitle == FieldStep("title") /\ StoreField("title", TitleResult)

DecodeSeqIds == FieldStep("seqids") /\ StoreField("seqids", SeqIdsResult)

DecodeTaxid == FieldStep("taxid") /\ StoreField("taxid", TaxidResult)

SkipField == FieldStep("skip") /\ StoreField("skip", SkipResult)

(***************************************************************************)
(* The inner catch: error_out is set if still empty, a partial entry is    *)
(* kept, and the break leaves the outer loop too.                          *)
(***************************************************************************)
Catch(r) ==
    /\ r.st = "err"
    /\ error' = IF error = "" THEN r.val ELSE error
    /\ deflines' = IF IsPartial(entry) THEN Append(deflines, entry) ELSE deflines
    /\ overread' = (overread \/ Oob(r))
    /\ pc' = "done"
    /\ UNCHANGED <<input, junk, off, outer, def, entry, escaped>>

DefCatch ==
    /\ pc = "field"
    /\ ~AtDefEnd
    /\ Catch(FieldResult)

\* A field whose permissive string scan never leaves its loop.
DefHang ==
    /\ pc = "field"
    /\ ~AtDefEnd
    /\ FieldResult.st = "hang"
    /\ pc' = "hung"
    /\ UNCHANGED <<input, junk, off, outer, def, entry, deflines, error, escaped, overread>>

Next ==
    \/ ReadOuter \/ OuterThrow
    \/ OuterExit \/ SkipNonDefline \/ BeginDefline \/ OuterCatch
    \/ DeflineExit \/ DecodeTitle \/ DecodeSeqIds \/ DecodeTaxid \/ SkipField
    \/ DefCatch \/ DefHang

(***************************************************************************)
(* The decoder is one sequential call that returns (pc = "done") or loops  *)
(* forever (pc = "hung"); both are states without a successor.  That it   *)
(* does not loop forever is the state property pc # "hung".                *)
(***************************************************************************)
Spec == Init /\ [][Next]_vars

=============================================================================
