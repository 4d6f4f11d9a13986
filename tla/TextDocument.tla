---------------------------- MODULE TextDocument ----------------------------
(***************************************************************************)
(* An open text document (pygls.workspace.text_document): the client edits *)
(* its text and sends each edit as textDocument/didChange, the server      *)
(* applies it to its copy.                                                 *)
(*                                                                         *)
(* The client is the reference.  It edits between two offsets of its text  *)
(* and translates them to positions; an offset between "\r" and "\n" is    *)
(* not a place in the text.  What the server does with the positions is    *)
(* translated from the code.                                               *)
(***************************************************************************)
EXTENDS PositionCodec

CONSTANTS
  Alphabet,   \* the characters of texts
  Encodings,  \* position encodings the client and the server may agree on
  SyncKinds,  \* synchronisation kinds the server may ask for
  MaxLen,     \* bound on the length of a text
  MaxInsert   \* bound on the length of an inserted text

ASSUME TextAssumption ==
  /\ Alphabet \subseteq Chars
  /\ Encodings \subseteq EncodingKinds
  /\ SyncKinds \subseteq {"None", "Full", "Incremental"}
  /\ MaxLen \in Nat /\ MaxInsert \in Nat

VARIABLES
  text,      \* the client's text
  source,    \* `_source`
  encoding,  \* the encoding of positions
  sync       \* the synchronisation kind

vars == <<text, source, encoding, sync>>

TypeOK ==
  /\ text \in Seq(Alphabet)
  /\ source \in Seq(Alphabet)
  /\ encoding \in Encodings
  /\ sync \in SyncKinds

\* textDocument/didOpen has brought any text.
Init ==
  /\ text \in SeqOf(Alphabet, MaxLen)
  /\ source = text
  /\ encoding \in Encodings
  /\ sync \in SyncKinds

-----------------------------------------------------------------------------
(* The client.                                                              *)

Offsets == {o \in 0 .. Len(text) :
              ~(o \in 1 .. Len(text) - 1 /\ text[o] = "cr" /\ text[o + 1] = "lf")}

\* The position of an offset: the line ends before it, and the units after
\* the last of them.
PositionOf(o) ==
  LET ends == {n \in 1 .. o : EndsLine(text, n)}
  IN  Position(Cardinality(ends),
               client_num_units(encoding, SubSeq(text, Max(ends \cup {0}) + 1, o)))

Splice(s, from, to, new) == Upto(s, from) \o new \o After(s, to)

-----------------------------------------------------------------------------
(* apply_change.                                                            *)

\* Mutant: the lines after the edit are lost.
IncrementalLosesTail(r, new) ==
  LET ls == splitlines(source)
      c  == range_from_client_units(encoding, ls, r)
  IN  IF c.start.line = Len(ls) THEN source \o new
      ELSE FlattenSeq([k \in 1 .. c.end.line + 1 |->
             IF k - 1 < c.start.line THEN ls[k]
             ELSE (IF k - 1 = c.start.line THEN Upto(ls[k], c.start.character) \o new ELSE <<>>)
                  \o (IF k - 1 = c.end.line THEN After(ls[k], c.end.character) ELSE <<>>)])

\* Line by line: what lies before the range, the new text at its start, what
\* lies after it.
_apply_incremental_change(r, new) ==
  LET ls == splitlines(source)
      c  == range_from_client_units(encoding, ls, r)
      Kept(i, line) ==
        IF i < c.start.line \/ i > c.end.line THEN line
        ELSE (IF i = c.start.line THEN Upto(line, c.start.character) \o new ELSE <<>>)
             \o (IF i = c.end.line THEN After(line, c.end.character) ELSE <<>>)
  IN  IF c.start.line = Len(ls) THEN source \o new
      ELSE FlattenSeq([k \in 1 .. Len(ls) |-> Kept(k - 1, ls[k])])

_apply_full_change(new) == new

\* A range the server did not ask for is ignored, and the text taken for the
\* whole text, unless nothing is synchronised.
apply_change(change) ==
  IF change.partial /\ sync = "Incremental"
    THEN _apply_incremental_change(change.range, change.text)
  ELSE IF sync = "None" THEN source
  ELSE _apply_full_change(change.text)

\* The client replaces the text between two offsets and sends the range; to a
\* server that did not ask for ranges, only one that covers the text.
ChangePartial(from, to, new) ==
  /\ from <= to
  /\ sync = "Incremental" \/ (from = 0 /\ to = Len(text))
  /\ text' = Splice(text, from, to, new)
  /\ Len(text') <= MaxLen
  /\ source' = apply_change([partial |-> TRUE, text |-> new,
                 range |-> [start |-> PositionOf(from), end |-> PositionOf(to)]])
  /\ UNCHANGED <<encoding, sync>>

\* The client sends its whole text.
ChangeWhole(new) ==
  /\ text' = new
  /\ source' = apply_change([partial |-> FALSE, text |-> new])
  /\ UNCHANGED <<encoding, sync>>

Next ==
  \/ \E from, to \in Offsets, new \in SeqOf(Alphabet, MaxInsert) : ChangePartial(from, to, new)
  \/ \E new \in SeqOf(Alphabet, MaxInsert) : ChangeWhole(new)

Spec == Init /\ [][Next]_vars

-----------------------------------------------------------------------------
(* What the server's handlers ask of a document.                            *)

offset_at_position(p) ==
  LET ls == splitlines(source)
      c  == position_from_client_units(encoding, ls, p)
  IN  c.character + Len(FlattenSeq(<<<<>>>> \o Upto(ls, c.line)))

IsWord(s) == \A n \in 1 .. Len(s) : s[n] = "letter"

WordStart(s) == Upto(s, Max({n \in 0 .. Len(s) : IsWord(Upto(s, n))}))

\* "$" also matches before a final "\n".
WordEnd(s) ==
  LET t == IF IsSuffix(<<"lf">>, s) THEN Front(s) ELSE s
  IN  After(t, Min({n \in 0 .. Len(t) : IsWord(After(t, n))}))

\* Mutant: the client's units index the line.
WordAtUnits(p) ==
  LET ls == splitlines(source)
  IN  IF p.line >= Len(ls) THEN <<>>
      ELSE WordEnd(Upto(ls[p.line + 1], p.character))
           \o WordStart(After(ls[p.line + 1], p.character))

word_at_position(p) ==
  LET ls == splitlines(source)
      c  == position_from_client_units(encoding, ls, p)
  IN  IF p.line >= Len(ls) THEN <<>>
      ELSE WordEnd(Upto(ls[c.line + 1], c.character))
           \o WordStart(After(ls[c.line + 1], c.character))

-----------------------------------------------------------------------------
(* Properties.                                                              *)

\* After any sequence of edits the server's source is the client's text, in
\* every encoding and with every kind of line end (_apply_incremental_change,
\* position_from_client_units).
Synchronised == sync # "None" => source = text

\* A position of the client's means the same place to the server: its offset
\* counts the code points before it ("The index is the number of code points
\* preceding the client_position in self.source"), and converted to code points
\* and back it is the client's position (offset_at_position,
\* position_from_client_units, position_to_client_units).  The empty line after a
\* final line end, which the server does not have, is the exception.
PositionsMatch ==
  \A o \in Offsets :
    LET ls == splitlines(text)
        p  == PositionOf(o)
    IN  p.line < Len(ls) =>
          /\ sync # "None" => offset_at_position(p) = o
          /\ position_to_client_units(encoding, ls,
               position_from_client_units(encoding, ls, p)) = p

\* Where the content of a line stops: a line end follows.
LineStops == {o \in Offsets : o < Len(text) /\ text[o + 1] \in {"lf", "cr"}}

\* n units behind a place.
Past(o, n) == [PositionOf(o) EXCEPT !.character = @ + n]

\* A position far past the end of a line means the end of the line's content, not
\* a place behind its line end, and its word is the last of the line
\* (position_from_client_units clamps it to one unit before the end).  The line end
\* counts for one unit, so one unit past the content is not yet past it.  The last
\* line of a text may have no line end: there the code stops a unit early, and
\* the property says nothing.
PastEndIsEnd ==
  sync # "None" =>
    \A o \in LineStops, n \in 2 .. MaxLen :
      /\ offset_at_position(Past(o, n)) = o
      /\ word_at_position(Past(o, n)) = word_at_position(PositionOf(o))

\* word_at_position is the longest run of letters around the place the client
\* means, whatever comes before it on the line.
WordAtPlace ==
  sync # "None" =>
    \A o \in Offsets :
      LET from == Min({n \in 0 .. o : IsWord(SubSeq(text, n + 1, o))})
          to   == Max({n \in o .. Len(text) : IsWord(SubSeq(text, o + 1, n))})
      IN  word_at_position(PositionOf(o)) = SubSeq(text, from + 1, to)

=============================================================================
