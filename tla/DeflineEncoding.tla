-------------------------- MODULE DeflineEncoding --------------------------
(***************************************************************************)
(* The encoding of a Blast-def-line-set that the header decoder is meant   *)
(* to read (spec.md sections 4.4, 4.5 and 6): the reference the decoder    *)
(* is checked against.  Nothing here models code.                          *)
(*                                                                         *)
(* An abstract definition line is what the decoder should return for it:   *)
(* [title, seqids, taxid] with Seq-ids [type, value, version].  It is      *)
(* encoded with definite lengths or with indefinite lengths on every       *)
(* constructed element, and with strings of universal type stype, whole    *)
(* or split into one-byte chunks of a constructed string.  Bodies are      *)
(* shorter than 128 bytes, so a definite length is one byte.               *)
(***************************************************************************)
EXTENDS SeqIdReader

\* A constructed element: tag byte, then content with its length or
\* between 0x80 and an end-of-contents marker.
Constructed(tag, content, indef) ==
    IF indef THEN <<tag, 128>> \o content \o <<0, 0>>
    ELSE <<tag, Len(content)>> \o content

\* A primitive element.
Prim(tag, content) == <<tag, Len(content)>> \o content

\* A string of universal type stype; chunked: a constructed string whose
\* chunks are the single bytes of s.
Str(stype, s, chunked, indef) ==
    IF chunked
    THEN Constructed(stype + 32,
              FoldLeft(LAMBDA acc, c : acc \o Prim(stype, <<c>>), <<>>, s), indef)
    ELSE Prim(stype, s)

\* A non-negative INTEGER below 128.
IntEl(n) == Prim(2, <<n>>)

\* Index of a Seq-id type name in the choice.
ChoiceOf(type) == CHOOSE k \in 0..19 : KNames[k + 1] = type

(***************************************************************************)
(* Seq-id: gi is a primitive context-specific INTEGER; pdb is [14] with a  *)
(* VisibleString and an INTEGER in its body; every other variant is a      *)
(* text-style identifier, a body of context-specific fields [1] value and  *)
(* [3] version, each explicitly wrapped and left out when absent.          *)
(***************************************************************************)
Version(id) == IF id.version = {} THEN <<>> ELSE IntEl(CHOOSE v \in id.version : TRUE)

EncodeSeqId(id, stype, chunked, indef) ==
    CASE id.type = "gi" ->
            Prim(128 + ChoiceOf("gi"), <<CHOOSE n \in 0..127 : Decimal(n) = id.value>>)
      [] id.type = "pdb" ->
            Constructed(160 + 14, Prim(26, id.value) \o Version(id), indef)
      [] OTHER ->
            Constructed(160 + ChoiceOf(id.type),
                 (IF id.value = <<>> THEN <<>>
                  ELSE Constructed(161, Str(stype, id.value, chunked, indef), indef)) \o
                 (IF id.version = {} THEN <<>> ELSE Constructed(163, Version(id), indef)),
                 indef)

=============================================================================
