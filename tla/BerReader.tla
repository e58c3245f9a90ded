----------------------------- MODULE BerReader -----------------------------
(***************************************************************************)
(* The tag-length-value (BER) reader of legacy_header_reader.cpp: ReadTag, *)
(* ReadLength, IsEoc, SkipElement, ParseInteger, ParseString and the       *)
(* string and explicit-wrapper readers built on them.                      *)
(*                                                                         *)
(* The functions of the code take the buffer and a size_t offset by        *)
(* reference and either return a value having advanced the offset or       *)
(* throw PinParseError.  Each is an operator here, over the buffer (a      *)
(* sequence of byte values 0..255) and a 0-based offset, returning a       *)
(* result record                                                           *)
(*     [st |-> "ok",   off |-> offset after the call, val |-> value]       *)
(*     [st |-> "err",  off |-> offset, val |-> message]   (a throw)        *)
(*     [st |-> "hang", off |-> offset, val |-> ...]       (a loop that     *)
(*                                             can never leave)            *)
(* A caller that gets a result other than "ok" returns it unchanged, as an *)
(* exception propagates; only ParseExplicitVisible catches.                *)
(***************************************************************************)
EXTENDS Integers, Sequences, SequencesExt

\* BerClass values of the code.
Universal == 0
Application == 1
ContextSpecific == 2
Private == 3

Ok(off, val) == [st |-> "ok", off |-> off, val |-> val]
Err(off, msg) == [st |-> "err", off |-> off, val |-> msg]
Hang(off) == [st |-> "hang", off |-> off, val |-> "hang"]
Failed(r) == r.st # "ok"

\* buffer[i] with a 0-based index.
At(buf, i) == buf[i + 1]

\* Big-endian value of the n bytes of buf starting at offset off.
BigEndian(buf, off, n) ==
    FoldLeft(LAMBDA acc, b : acc * 256 + b, 0, SubSeq(buf, off + 1, off + n))

ReadTag(buf, off) ==
    IF off >= Len(buf)
    THEN Err(off, "eof in tag")
    ELSE LET first == At(buf, off)
             short == [cls |-> first \div 64,
                       constructed |-> (first \div 32) % 2 = 1,
                       number |-> first % 32]
             \* long form: base-128 digits until a byte with the high bit
             \* clear, or the end of the buffer (no error at the end)
             RECURSIVE LongForm(_, _)
             LongForm(o, n) ==
                 IF o >= Len(buf) THEN <<o, n>>
                 ELSE IF At(buf, o) < 128
                      THEN <<o + 1, n * 128 + At(buf, o)>>
                      ELSE LongForm(o + 1, n * 128 + At(buf, o) - 128)
         IN IF short.number # 31
            THEN Ok(off + 1, short)
            ELSE LET lf == LongForm(off + 1, 0)
                 IN Ok(lf[1], [short EXCEPT !.number = lf[2]])

ReadLength(buf, off) ==
    IF off >= Len(buf) THEN Err(off, "eof in length")
    ELSE LET first == At(buf, off)
             k == first % 128
         IN CASE first = 128 -> Ok(off + 1, [indefinite |-> TRUE, length |-> 0])
              [] first < 128 -> Ok(off + 1, [indefinite |-> FALSE, length |-> first])
              [] k = 0 \/ k > 8 -> Err(off + 1, "unsupported length size")
              [] off + 1 + k > Len(buf) -> Err(Len(buf), "eof in length body")
              [] OTHER -> Ok(off + 1 + k, [indefinite |-> FALSE,
                                           length |-> BigEndian(buf, off + 1, k)])

IsEoc(buf, off) ==
    off + 1 < Len(buf) /\ At(buf, off) = 0 /\ At(buf, off + 1) = 0

\* SkipElement and the loop of its indefinite branch.
RECURSIVE SkipElement(_, _), SkipToEoc(_, _), SkipNext(_, _)
SkipElement(buf, off) ==
    LET t == ReadTag(buf, off)
        l == ReadLength(buf, t.off)
    IN CASE Failed(t) -> t
         [] Failed(l) -> l
         [] l.val.indefinite /\ ~t.val.constructed ->
                Err(l.off, "indefinite primitive")
         [] l.val.indefinite -> SkipToEoc(buf, l.off)
         [] l.off + l.val.length > Len(buf) -> Err(l.off, "element exceeds buffer")
         [] OTHER -> Ok(l.off + l.val.length, "skipped")

\* while (!IsEoc) SkipElement; offset += 2
SkipToEoc(buf, off) ==
    IF IsEoc(buf, off) THEN Ok(off + 2, "skipped") ELSE SkipNext(buf, SkipElement(buf, off))

SkipNext(buf, r) == IF Failed(r) THEN r ELSE SkipToEoc(buf, r.off)

\* The value v of a result, at the offset of the result tr of what follows.
Keep(v, tr) == IF Failed(tr) THEN tr ELSE Ok(tr.off, v)

\* Big-endian two's complement of length bytes.
ParseInteger(buf, off, length) ==
    IF length = 0 \/ off + length > Len(buf)
    THEN Err(off, "invalid integer length")
    ELSE LET u == BigEndian(buf, off, length)
         IN Ok(off + length,
               IF At(buf, off) >= 128 THEN u - 2^(8 * length) ELSE u)

ParseString(buf, off, length) ==
    IF off + length > Len(buf)
    THEN Err(off, "string overruns buffer")
    ELSE Ok(off + length, SubSeq(buf, off + 1, off + length))

\* A string result as an optional string.
ParseOptString(s) == IF Failed(s) THEN s ELSE Ok(s.off, {s.val})

\* The universal string types accepted as a title or identifier.
VisibleNumbers == {12, 18, 19, 20, 21, 22, 25, 26, 27, 28, 29, 30}

IsVisibleLikeTag(tag) == tag.cls = Universal /\ tag.number \in VisibleNumbers

(***************************************************************************)
(* ParseVisible: one string-like element.  A constructed string is the     *)
(* concatenation of its primitive string chunks (Chunks, one per           *)
(* ChunkBody); any other child is skipped by calling SkipElement after its *)
(* tag and length were already read, as the code does.                     *)
(***************************************************************************)
RECURSIVE Chunks(_, _, _, _, _), ChunkBody(_, _, _, _, _, _), NextChunk(_, _, _, _, _, _)
Chunks(buf, indef, end, o, acc) ==
    IF indef /\ IsEoc(buf, o) THEN Ok(o + 2, acc)
    ELSE IF ~indef /\ o >= end THEN Ok(o, acc)
    ELSE LET ct == ReadTag(buf, o)
         IN IF Failed(ct) THEN ct
            ELSE ChunkBody(buf, indef, end, acc, ct.val, ReadLength(buf, ct.off))

ChunkBody(buf, indef, end, acc, tag, cl) ==
    LET chunk == IsVisibleLikeTag(tag) /\ ~tag.constructed /\ ~cl.val.indefinite
    IN IF Failed(cl) THEN cl
       ELSE NextChunk(buf, indef, end, acc, chunk,
                      IF chunk THEN ParseString(buf, cl.off, cl.val.length)
                      ELSE SkipElement(buf, cl.off))

\* A plausible bug of the chunk loop: combined = chunk instead of +=.
NextChunkOverwrite(buf, indef, end, acc, chunk, r) ==
    IF Failed(r) THEN r
    ELSE Chunks(buf, indef, end, r.off, IF chunk THEN r.val ELSE acc)

NextChunk(buf, indef, end, acc, chunk, r) ==
    IF Failed(r) THEN r
    ELSE Chunks(buf, indef, end, r.off, IF chunk THEN acc \o r.val ELSE acc)

ParseVisible(buf, off) ==
    LET t == ReadTag(buf, off)
        l == ReadLength(buf, t.off)
        indef == l.val.indefinite
    IN CASE Failed(t) -> t
         [] Failed(l) -> l
         [] ~IsVisibleLikeTag(t.val) -> Err(l.off, "expected string type")
         [] ~t.val.constructed /\ indef -> Err(l.off, "indefinite primitive string")
         [] ~t.val.constructed -> ParseString(buf, l.off, l.val.length)
         [] OTHER -> Chunks(buf, indef, IF indef THEN Len(buf) ELSE l.off + l.val.length,
                            l.off, <<>>)

(***************************************************************************)
(* ExtractVisibleLike: the permissive scan for the first string-like       *)
(* element before limit.  Its value is an optional string: {} for nullopt, *)
(* {s} for a string s.  One element is examined per call (ScanElement,     *)
(* ScanBody); the forward-progress check at the end of an iteration is     *)
(* Continue.  Scan is the while (true) loop over the body of an indefinite *)
(* non-string element: it calls ExtractVisibleLike with the same limit     *)
(* until it sees an end-of-contents marker.  An iteration that finds       *)
(* nothing and leaves the offset where it was is followed by the very     *)
(* same iteration forever: that is the result "hang".                      *)
(***************************************************************************)
RECURSIVE ExtractVisibleLike(_, _, _), ScanElement(_, _, _, _), ScanBody(_, _, _, _, _),
          ConstructedString(_, _, _, _, _), Continue(_, _, _, _), AfterScan(_, _, _, _),
          Scan(_, _, _), ScanStep(_, _, _, _)
ExtractVisibleLike(buf, off, limit) ==
    IF ~(off < limit) THEN Ok(off, {})
    ELSE IF IsEoc(buf, off) THEN Ok(off + 2, {})
    ELSE ScanElement(buf, off, limit, ReadTag(buf, off))

ScanElement(buf, off, limit, t) ==
    IF Failed(t) THEN t ELSE ScanBody(buf, off, limit, t.val, ReadLength(buf, t.off))

ScanBody(buf, off, limit, tag, l) ==
    CASE Failed(l) -> l
      [] IsVisibleLikeTag(tag) /\ tag.constructed ->
             ConstructedString(buf, off, limit, l,
                 ExtractVisibleLike(buf, l.off, IF l.val.indefinite THEN limit
                                                ELSE l.off + l.val.length))
      [] IsVisibleLikeTag(tag) /\ l.val.indefinite ->
             Err(l.off, "indefinite primitive string")
      [] IsVisibleLikeTag(tag) -> ParseOptString(ParseString(buf, l.off, l.val.length))
      [] l.val.indefinite /\ ~tag.constructed -> Err(l.off, "indefinite primitive")
      [] l.val.indefinite -> AfterScan(buf, off, limit, Scan(buf, l.off, limit))
      [] l.off + l.val.length > Len(buf) -> Err(l.off, "element exceeds buffer")
      [] OTHER -> Continue(buf, off, limit, l.off + l.val.length)

\* A constructed string whose body holds no string goes on after its end.
ConstructedString(buf, off, limit, l, inner) ==
    IF Failed(inner) \/ inner.val # {} THEN inner
    ELSE Continue(buf, off, limit,
                  IF ~l.val.indefinite /\ inner.off < l.off + l.val.length
                  THEN l.off + l.val.length ELSE inner.off)

AfterScan(buf, off, limit, scan) ==
    IF Failed(scan) \/ scan.val # {} THEN scan ELSE Continue(buf, off, limit, scan.off)

\* if (offset <= element_start) throw; otherwise the next iteration
Continue(buf, off, limit, o) ==
    IF o <= off THEN Err(o, "failed to advance") ELSE ExtractVisibleLike(buf, o, limit)

Scan(buf, off, limit) ==
    IF IsEoc(buf, off) THEN Ok(off + 2, {})
    ELSE ScanStep(buf, off, limit, ExtractVisibleLike(buf, off, limit))

ScanStep(buf, off, limit, r) ==
    CASE Failed(r) \/ r.val # {} -> r
      [] r.off = off -> Hang(off)
      [] OTHER -> Scan(buf, r.off, limit)

(***************************************************************************)
(* ParseExplicitVisible: the string inside an explicit wrapper whose       *)
(* length len was already read.  A PinParseError of ParseVisible is caught *)
(* and the body is scanned again from its start by ExtractVisibleLike      *)
(* (Fallback).  Then the rest of the wrapper is skipped (WrapperTail).     *)
(***************************************************************************)
ValueOr(ev) ==
    IF Failed(ev) THEN ev
    ELSE Ok(ev.off, IF ev.val = {} THEN <<>> ELSE CHOOSE s \in ev.val : TRUE)

Fallback(buf, off, end, pv) ==
    IF pv.st = "ok" THEN pv ELSE ValueOr(ExtractVisibleLike(buf, off, end))

\* while (offset < end && !IsEoc) SkipElement
RECURSIVE Trail(_, _, _), TrailNext(_, _, _)
Trail(buf, end, o) ==
    IF o < end /\ ~IsEoc(buf, o) THEN TrailNext(buf, end, SkipElement(buf, o))
    ELSE Ok(o, "trail")

TrailNext(buf, end, r) == IF Failed(r) THEN r ELSE Trail(buf, end, r.off)

IndefTail(buf, v, tr) ==
    IF Failed(tr) THEN tr ELSE Ok(IF IsEoc(buf, tr.off) THEN tr.off + 2 ELSE tr.off, v)

WrapperTail(buf, end, len, r) ==
    CASE Failed(r) -> r
      [] len.indefinite -> IndefTail(buf, r.val, Trail(buf, end, r.off))
      [] OTHER -> Ok(IF r.off < end THEN end ELSE r.off, r.val)

ParseExplicitVisible(buf, off, len) ==
    LET end == IF len.indefinite THEN Len(buf) ELSE off + len.length
    IN WrapperTail(buf, end, len, Fallback(buf, off, end, ParseVisible(buf, off)))

\* ParseExplicitInteger: a universal INTEGER inside an explicit wrapper,
\* then the rest of the wrapper (IntegerTail).
IntegerTail(buf, off, len, v) ==
    CASE Failed(v) -> v
      [] len.indefinite -> Keep(v.val, SkipToEoc(buf, v.off))
      [] OTHER -> Ok(IF v.off < off + len.length THEN off + len.length ELSE v.off, v.val)

ParseExplicitInteger(buf, off, len) ==
    LET t == ReadTag(buf, off)
        l == ReadLength(buf, t.off)
    IN CASE Failed(t) -> t
         [] Failed(l) -> l
         [] t.val.cls # Universal \/ t.val.number # 2 \/ l.val.indefinite ->
                Err(l.off, "expected integer")
         [] OTHER -> IntegerTail(buf, off, len, ParseInteger(buf, l.off, l.val.length))

=============================================================================
