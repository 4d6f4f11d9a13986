--------------------------- MODULE PositionCodec ---------------------------
(***************************************************************************)
(* Positions in a text (pygls.workspace.position_codec).  The client       *)
(* counts the characters of a line in units of the negotiated encoding,    *)
(* Python counts code points.  Of a character only its class matters: how  *)
(* many units it takes and whether it ends a line.  Lines and characters   *)
(* of a position count from 0.                                             *)
(***************************************************************************)
EXTENDS Naturals, Sequences, FiniteSets, SequencesExt, FiniteSetsExt

\* "letter" stands for [A-Za-z_0-9], "accented", "cjk" and "astral" for
\* characters of two, three and four bytes in UTF-8, "separator" for the other
\* characters at which Python splits lines, such as a form feed.
Chars == {"letter", "accented", "cjk", "astral", "separator", "lf", "cr"}

EncodingKinds == {"utf-8", "utf-16", "utf-32"}

Position(l, c) == [line |-> l, character |-> c]

\* Python's slices s[:n] and s[n:], which clamp n to the length.
Upto(s, n)  == SubSeq(s, 1, IF n < Len(s) THEN n ELSE Len(s))
After(s, n) == SubSeq(s, n + 1, Len(s))

\* To the client a line ends with "\n", "\r\n" or a lone "\r".
EndsLine(s, n) ==
  \/ s[n] = "lf"
  \/ s[n] = "cr" /\ (n = Len(s) \/ s[n + 1] # "lf")

\* str.splitlines(True): line ends are kept, and there is no line after the
\* last of them.  Separators end lines too.
LineEnds(s) ==
  {n \in 1 .. Len(s) : EndsLine(s, n) \/ s[n] = "separator" \/ n = Len(s)}

\* Where the k-th line ends.
Cut(s, k) ==
  CHOOSE n \in LineEnds(s) \cup {0} : Cardinality({m \in LineEnds(s) : m <= n}) = k

splitlines(s) ==
  [k \in 1 .. Cardinality(LineEnds(s)) |-> SubSeq(s, Cut(s, k - 1) + 1, Cut(s, k))]

is_char_beyond_multilingual_plane(c) == c = "astral"

utf8_bytes(c) ==
  CASE c = "astral"   -> 4
    [] c = "cjk"      -> 3
    [] c = "accented" -> 2
    [] OTHER          -> 1

\* Client units of one character.
CharUnits(enc, c) ==
  IF enc = "utf-8" THEN utf8_bytes(c)
  ELSE IF enc = "utf-16" /\ is_char_beyond_multilingual_plane(c) THEN 2
  ELSE 1

client_num_units(enc, s) ==
  LET units[n \in 0 .. Len(s)] ==
        IF n = 0 THEN 0 ELSE units[n - 1] + CharUnits(enc, s[n])
  IN  units[Len(s)]

\* line.replace("\r\n", "\n"), for a line of splitlines: only its end can be a
\* "\r\n".
JoinCrlf(line) ==
  IF IsSuffix(<<"cr", "lf">>, line) THEN Upto(line, Len(line) - 2) \o <<"lf">> ELSE line

\* Mutant: the units are taken for code points.
PositionIsNotConverted(enc, lines, p) ==
  IF lines = <<>> THEN Position(0, 0)
  ELSE IF p.line >= Len(lines)
    THEN Position(Len(lines) - 1, client_num_units(enc, Last(lines)))
    ELSE p

\* Mutant: a position past the end of the line is clamped to after its line end.
PositionClampedBehind(enc, lines, p) ==
  IF lines = <<>> THEN Position(0, 0)
  ELSE IF p.line >= Len(lines)
    THEN Position(Len(lines) - 1, client_num_units(enc, Last(lines)))
  ELSE LET line == JoinCrlf(lines[p.line + 1])
       IN  Position(p.line,
             Min({k \in 0 .. Len(line) :
                    k = Len(line) \/ client_num_units(enc, Upto(line, k)) >= p.character}))

\* From client units to code points: the code points up to the first place
\* where the units are used up.  Past the end of the text, the end of its
\* last line stands in, counted in client units.
position_from_client_units(enc, lines, p) ==
  IF lines = <<>> THEN Position(0, 0)
  ELSE IF p.line >= Len(lines)
    THEN Position(Len(lines) - 1, client_num_units(enc, Last(lines)))
  ELSE LET line == JoinCrlf(lines[p.line + 1])
           end  == client_num_units(enc, line)
           char == IF p.character > end THEN end - 1 ELSE p.character
       IN  Position(p.line,
             Min({k \in 0 .. Len(line) :
                    k = Len(line) \/ client_num_units(enc, Upto(line, k)) >= char}))

\* From code points to client units.
position_to_client_units(enc, lines, p) ==
  IF p.line < Len(lines)
    THEN Position(p.line, client_num_units(enc, Upto(lines[p.line + 1], p.character)))
    ELSE Position(Len(lines), 0)

range_from_client_units(enc, lines, r) ==
  [start |-> position_from_client_units(enc, lines, r.start),
   end   |-> position_from_client_units(enc, lines, r.end)]

=============================================================================
