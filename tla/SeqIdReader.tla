---------------------------- MODULE SeqIdReader ----------------------------
(***************************************************************************)
(* The Seq-id decoders of legacy_header_reader.cpp: TagNameFromNumber,     *)
(* ParseTextSeqId, ParseSeqId (with its PDB branch and the last-resort     *)
(* value recovery), ParseSeqIdList and ParseSeqIdField.                    *)
(*                                                                         *)
(* A Seq-id is [type |-> name, value |-> byte sequence, version |-> {} or  *)
(* {n}] (std::optional as a set of at most one element).                   *)
(*                                                                         *)
(* The value recovery scans the bytes from the start of the Seq-id to the  *)
(* offset where its parse ended, and that offset is not checked against    *)
(* the buffer size: it reads past the end of the std::vector, which is     *)
(* undefined behaviour.  What it reads there is modelled as one byte junk, *)
(* chosen nondeterministically by the caller, and the results of these     *)
(* operators carry a flag oob that records that the read happened.         *)
(***************************************************************************)
EXTENDS BerReader

\* The fixed table kNames of TagNameFromNumber.
KNames == <<"local", "gibbsq", "gibbmt", "giim", "genbank", "embl", "pir",
            "swissprot", "patent", "other", "general", "gi", "ddbj", "prf",
            "pdb", "tpg", "tpe", "tpd", "gpipe", "named-annot-track">>

TagNameFromNumber(num) ==
    IF num \in 0..19 THEN KNames[num + 1] ELSE "unknown-" \o ToString(num)

NoSeqId(type) == [type |-> type, value |-> <<>>, version |-> {}]

\* A result with the out-of-bounds flag, which a result of BerReader lacks.
Oob(r) == IF "oob" \in DOMAIN r THEN r.oob ELSE FALSE
WithOob(r, b) == [st |-> r.st, off |-> r.off, val |-> r.val, oob |-> Oob(r) \/ b]

\* std::to_string of an integer, as the byte codes of its decimal digits.
RECURSIVE Digits(_)
Digits(n) == IF n < 10 THEN <<48 + n>> ELSE Digits(n \div 10) \o <<48 + (n % 10)>>
Decimal(v) == IF v < 0 THEN <<45>> \o Digits(-v) ELSE Digits(v)

\* std::isalnum(ch) || ch == '_' || ch == '.'
IsIdChar(b) == b \in (48..57) \cup (65..90) \cup (97..122) \cup {95, 46}

\* The first of the longest runs of identifier characters in bytes.
LongestRun(bytes) ==
    LET step(acc, ch) ==
            IF IsIdChar(ch) THEN <<acc[1], Append(acc[2], ch)>>
            ELSE <<IF Len(acc[2]) > Len(acc[1]) THEN acc[2] ELSE acc[1], <<>>>>
        fin == FoldLeft(step, <<<<>>, <<>>>>, bytes)
    IN IF Len(fin[2]) > Len(fin[1]) THEN fin[2] ELSE fin[1]

(***************************************************************************)
(* ParseTextSeqId: the fields of a text-style identifier, after the tag.   *)
(* Fields [0] and [1] give the value ([0] only while it is empty), [3] the *)
(* version; any other field is skipped, an indefinite one by SkipElement   *)
(* called after its tag and length were read, a definite one by adding its *)
(* length to the offset unchecked.  The loop (TextFields, one field per    *)
(* TextField) ends at the end of a definite body or at an end-of-contents  *)
(* marker, which it consumes; for an indefinite body the code then adds 2  *)
(* to the offset once more (TextEnd).                                      *)
(***************************************************************************)
RECURSIVE TextFields(_, _, _, _, _), TextFieldBody(_, _, _, _, _, _), Store(_, _, _, _, _, _)
TextFields(buf, indef, end, o, id) ==
    IF indef /\ IsEoc(buf, o) THEN Ok(o + 2, id)
    ELSE IF ~indef /\ o >= end THEN Ok(o, id)
    ELSE LET t == ReadTag(buf, o)
         IN IF Failed(t) THEN t
            ELSE TextFieldBody(buf, indef, end, id, t.val, ReadLength(buf, t.off))

\* The switch on the field number: which member of id the field sets, and
\* the result of reading or skipping it.
TextFieldBody(buf, indef, end, id, tag, fl) ==
    LET explicit == tag.constructed \/ fl.val.indefinite
        kind == CASE tag.number = 1 \/ (tag.number = 0 /\ id.value = <<>>) -> "value"
                  [] tag.number = 3 -> "version"
                  [] OTHER -> "skip"
    IN IF Failed(fl) THEN fl
       ELSE Store(buf, indef, end, id, kind,
                  CASE kind = "value" /\ explicit -> ParseExplicitVisible(buf, fl.off, fl.val)
                    [] kind = "value" -> ParseString(buf, fl.off, fl.val.length)
                    [] kind = "version" /\ explicit -> ParseExplicitInteger(buf, fl.off, fl.val)
                    [] kind = "version" -> ParseInteger(buf, fl.off, fl.val.length)
                    [] fl.val.indefinite -> SkipElement(buf, fl.off)
                    [] OTHER -> Ok(fl.off + fl.val.length, "skipped"))

Store(buf, indef, end, id, kind, r) ==
    IF Failed(r) THEN r
    ELSE TextFields(buf, indef, end, r.off,
                    CASE kind = "value" -> [id EXCEPT !.value = r.val]
                      [] kind = "version" -> [id EXCEPT !.version = {r.val}]
                      [] OTHER -> id)

TextEnd(indef, r) ==
    CASE Failed(r) -> r
      [] indef -> Ok(r.off + 2, r.val)
      [] OTHER -> r

ParseTextSeqId(buf, off) ==
    LET l == ReadLength(buf, off)
        indef == l.val.indefinite
    IN IF Failed(l) THEN l
       ELSE TextEnd(indef, TextFields(buf, indef, IF indef THEN Len(buf)
                                                  ELSE l.off + l.val.length,
                                      l.off, NoSeqId("")))

\* The PDB-seq-id branch of ParseSeqId, after the tag: the first universal
\* VisibleString is the value, the first INTEGER the version, anything else
\* is passed over by its length.
RECURSIVE PdbFields(_, _, _, _, _), PdbFieldBody(_, _, _, _, _, _), PdbStore(_, _, _, _, _, _)
PdbFields(buf, indef, end, o, id) ==
    IF IF indef THEN IsEoc(buf, o) ELSE o >= end
    THEN Ok(IF indef THEN o + 2 ELSE o, id)
    ELSE LET ft == ReadTag(buf, o)
         IN IF Failed(ft) THEN ft
            ELSE PdbFieldBody(buf, indef, end, id, ft.val, ReadLength(buf, ft.off))

PdbFieldBody(buf, indef, end, id, tag, fl) ==
    LET kind == CASE tag.cls = Universal /\ tag.number = 26 /\ id.value = <<>> -> "value"
                  [] tag.cls = Universal /\ tag.number = 2 /\ id.version = {} -> "version"
                  [] OTHER -> "skip"
    IN CASE Failed(fl) -> fl
         [] fl.val.indefinite -> Err(fl.off, "indefinite in pdb")
         [] OTHER -> PdbStore(buf, indef, end, id, kind,
                              CASE kind = "value" -> ParseString(buf, fl.off, fl.val.length)
                                [] kind = "version" -> ParseInteger(buf, fl.off, fl.val.length)
                                [] OTHER -> Ok(fl.off + fl.val.length, "skipped"))

PdbStore(buf, indef, end, id, kind, r) ==
    IF Failed(r) THEN r
    ELSE PdbFields(buf, indef, end, r.off,
                   CASE kind = "value" -> [id EXCEPT !.value = r.val]
                     [] kind = "version" -> [id EXCEPT !.version = {r.val}]
                     [] OTHER -> id)

ParsePdbSeqId(buf, off) ==
    LET l == ReadLength(buf, off)
        indef == l.val.indefinite
    IN IF Failed(l) THEN l
       ELSE PdbFields(buf, indef, IF indef THEN Len(buf) ELSE l.off + l.val.length,
                      l.off, NoSeqId("pdb"))

(***************************************************************************)
(* ParseSeqId: the choice tag selects the variant (SeqIdBody).  When the   *)
(* value is still empty, the longest run of identifier characters in the   *)
(* raw bytes from the start of the Seq-id to its end offset becomes the    *)
(* value (Recover).                                                        *)
(***************************************************************************)
GiSeqId(type, l, v) ==
    CASE Failed(l) -> l
      [] l.val.indefinite -> Err(l.off, "indefinite seq-id")
      [] Failed(v) -> v
      [] OTHER -> Ok(v.off, [type |-> type, value |-> Decimal(v.val), version |-> {}])

\* A plausible bug: id.type not set again after id = ParseTextSeqId(...).
NamedUntyped(type, r) == r

Named(type, r) == IF Failed(r) THEN r ELSE Ok(r.off, [r.val EXCEPT !.type = type])

SeqIdBody(buf, t) ==
    LET type == TagNameFromNumber(t.val.number)
        l == ReadLength(buf, t.off)
    IN CASE ~t.val.constructed -> GiSeqId(type, l, ParseInteger(buf, l.off, l.val.length))
         [] t.val.number = 14 -> ParsePdbSeqId(buf, t.off)
         [] OTHER -> Named(type, ParseTextSeqId(buf, t.off))

\* A plausible bug of the recovery loop: i <= seqid_end, one byte too far.
RecoverInclusive(buf, junk, off, body) ==
    LET raw == IF body.off + 1 <= Len(buf) THEN SubSeq(buf, off + 1, body.off + 1)
               ELSE SubSeq(buf, off + 1, Len(buf)) \o <<junk>>
        best == LongestRun(raw)
    IN CASE Failed(body) -> body
         [] body.val.value = <<>> /\ best # <<>> ->
                WithOob(Ok(body.off, [body.val EXCEPT !.value = best]), body.off + 1 > Len(buf))
         [] body.val.value = <<>> -> WithOob(body, body.off + 1 > Len(buf))
         [] OTHER -> WithOob(body, FALSE)

Recover(buf, junk, off, body) ==
    LET \* the bytes [off, body.off); past the end of buf, one junk byte
        \* stands for whatever the undefined read returns
        raw == IF body.off <= Len(buf) THEN SubSeq(buf, off + 1, body.off)
               ELSE SubSeq(buf, off + 1, Len(buf)) \o <<junk>>
        best == LongestRun(raw)
    IN CASE Failed(body) -> body
         [] body.val.value = <<>> /\ best # <<>> ->
                WithOob(Ok(body.off, [body.val EXCEPT !.value = best]), body.off > Len(buf))
         [] body.val.value = <<>> -> WithOob(body, body.off > Len(buf))
         [] OTHER -> WithOob(body, FALSE)

ParseSeqId(buf, junk, off) ==
    LET t == ReadTag(buf, off)
    IN CASE Failed(t) -> t
         [] t.val.cls # ContextSpecific -> Err(t.off, "seq-id class")
         [] OTHER -> Recover(buf, junk, off, SeqIdBody(buf, t))

\* ParseSeqIdList: a universal SEQUENCE of Seq-ids.
RECURSIVE SeqIds(_, _, _, _, _, _, _), NextSeqId(_, _, _, _, _, _, _)
SeqIds(buf, junk, indef, end, o, ids, oob) ==
    IF indef /\ IsEoc(buf, o) THEN WithOob(Ok(o + 2, ids), oob)
    ELSE IF ~indef /\ o >= end THEN WithOob(Ok(o, ids), oob)
    ELSE NextSeqId(buf, junk, indef, end, ids, oob, ParseSeqId(buf, junk, o))

NextSeqId(buf, junk, indef, end, ids, oob, s) ==
    IF Failed(s) THEN WithOob(s, oob)
    ELSE SeqIds(buf, junk, indef, end, s.off, Append(ids, s.val), oob \/ s.oob)

ParseSeqIdList(buf, junk, off) ==
    LET t == ReadTag(buf, off)
        l == ReadLength(buf, t.off)
        indef == l.val.indefinite
    IN CASE Failed(t) -> t
         [] t.val.cls # Universal \/ t.val.number # 16 \/ ~t.val.constructed ->
                Err(t.off, "expected seq-id sequence")
         [] Failed(l) -> l
         [] OTHER -> SeqIds(buf, junk, indef, IF indef THEN Len(buf) ELSE l.off + l.val.length,
                            l.off, <<>>, FALSE)

\* ParseSeqIdField: the explicit [1] wrapper of the Seq-id list.
SeqIdFieldEnd(buf, l, ids) ==
    CASE Failed(ids) -> ids
      [] l.val.indefinite -> WithOob(Keep(ids.val, SkipToEoc(buf, ids.off)), Oob(ids))
      [] OTHER -> WithOob(Ok(IF ids.off < l.off + l.val.length THEN l.off + l.val.length
                             ELSE ids.off, ids.val), Oob(ids))

ParseSeqIdField(buf, junk, off) ==
    LET l == ReadLength(buf, off)
    IN IF Failed(l) THEN l ELSE SeqIdFieldEnd(buf, l, ParseSeqIdList(buf, junk, l.off))

=============================================================================
