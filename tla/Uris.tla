-------------------------------- MODULE Uris --------------------------------
(***************************************************************************)
(* Paths and file URIs (pygls.uris), on Windows (win, IS_WIN) or elsewhere. *)
(*                                                                         *)
(* A path is a sequence of tokens: the two separators, a drive ("c:" and   *)
(* "C:"), a plain name and two names that show what quoting does, "a b"    *)
(* and "a%20b".  The tokens between two separators are one file name.  A   *)
(* URI has the parts of urllib's result, each quoted.                      *)
(***************************************************************************)
EXTENDS Naturals, Sequences

Drives == {"c:", "C:"}

Tokens == {"/", "\\", "name", "a b", "a%20b"} \cup Drives

\* urllib.parse.quote and unquote: quote encodes the colon too.
Quote(t) ==
  CASE t = "a b"   -> "a%20b"
    [] t = "a%20b" -> "a%2520b"
    [] t = "\\"    -> "%5C"
    [] t = "c:"    -> "c%3A"
    [] t = "C:"    -> "C%3A"
    [] OTHER       -> t

Unquote(t) ==
  CASE t = "a%20b"   -> "a b"
    [] t = "a%2520b" -> "a%20b"
    [] t = "%5C"     -> "\\"
    [] t = "c%3A"    -> "c:"
    [] t = "C%3A"    -> "C:"
    [] OTHER         -> t

Map(s, F(_)) == [k \in 1 .. Len(s) |-> F(s[k])]

Replace(s, old, new) == Map(s, LAMBDA t : IF t = old THEN new ELSE t)

\* RE_DRIVE_LETTER_PATH
HasDrive(path) == Len(path) >= 2 /\ path[1] = "/" /\ path[2] \in Drives

LowerDrive(path) == IF HasDrive(path) THEN [path EXCEPT ![2] = "c:"] ELSE path

\* The place of the first slash after the two that start a UNC path: str.index
\* raises ValueError if there is none.
HostEnd(path) == {k \in 3 .. Len(path) : path[k] = "/" /\ \A j \in 3 .. k - 1 : path[j] # "/"}

IsUnc(path) == Len(path) >= 2 /\ path[1] = "/" /\ path[2] = "/"

Slashes(win, path) == IF win THEN Replace(path, "\\", "/") ELSE path

Raises(win, path) == IsUnc(Slashes(win, path)) /\ HostEnd(Slashes(win, path)) = {}

\* _normalize_win_path: the path, with a slash in front and its drive in lower
\* case, and the host of a UNC path.
NormalizeWinPath(win, given) ==
  LET path   == Slashes(win, given)
      k      == CHOOSE n \in HostEnd(path) : TRUE
      netloc == IF IsUnc(path) THEN SubSeq(path, 3, k - 1) ELSE <<>>
      rest   == IF IsUnc(path) THEN SubSeq(path, k, Len(path)) ELSE path
      rooted == IF rest # <<>> /\ Head(rest) = "/" THEN rest ELSE <<"/">> \o rest
  IN  [path |-> LowerDrive(rooted), netloc |-> netloc]

\* urlunparse keeps the colon of a drive.
Urlunparse(parts) ==
  [netloc |-> Map(parts.netloc, Quote),
   path   |-> IF HasDrive(parts.path)
                THEN SubSeq(parts.path, 1, 2) \o Map(SubSeq(parts.path, 3, Len(parts.path)), Quote)
                ELSE Map(parts.path, Quote)]

Urlparse(uri) == [netloc |-> Map(uri.netloc, Unquote), path |-> Map(uri.path, Unquote)]

\* Mutant: the URI is put together without quoting.
FromFsPathUnquoted(win, path) == NormalizeWinPath(win, path)

FromFsPath(win, path) == Urlunparse(NormalizeWinPath(win, path))

\* to_fs_path, for a URI with the scheme "file".
ToFsPath(win, uri) ==
  LET parts == Urlparse(uri)
      value == IF parts.netloc # <<>> /\ parts.path # <<>>
                 THEN <<"/", "/">> \o parts.netloc \o parts.path
               ELSE IF HasDrive(parts.path) THEN Tail(LowerDrive(parts.path))
               ELSE parts.path
  IN  IF win THEN Replace(value, "/", "\\") ELSE value

-----------------------------------------------------------------------------
(* What the two promise.                                                    *)

\* A path a client can have for a root: it is absolute, a host has a name, and
\* on Windows only a drive in front has a colon.
IsAbsolute(win, given) ==
  LET path == Slashes(win, given) IN
  /\ given \in Seq(Tokens) /\ given # <<>>
  /\ \/ path[1] = "/" /\ (IsUnc(path) => Len(path) >= 3 /\ path[3] # "/")
     \/ win /\ path[1] \in Drives
  /\ win => \A k \in 2 .. Len(path) : path[k] \notin Drives

\* The form to_fs_path gives a path.
NativeForm(win, given) ==
  LET path == IF win THEN Replace(given, "/", "\\") ELSE given
  IN  IF win /\ path[1] \in Drives THEN [path EXCEPT ![1] = "c:"] ELSE path

\* A POSIX path in which a name is taken for a drive: the first name, which
\* loses its slash, or the one after a host, which is put in lower case.
TakenForDrive(path) ==
  \/ HasDrive(path)
  \/ IsUnc(path) /\ \E k \in HostEnd(path) : k < Len(path) /\ path[k + 1] = "C:"

=============================================================================
