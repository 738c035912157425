-------------------------------- MODULE Paths --------------------------------
(***************************************************************************)
(* What path.go does to the identifiers a caller supplies.                 *)
(*                                                                         *)
(* A text is a sequence of atoms.  Four atoms matter: "/" separates        *)
(* segments, "?" ends a path, "." makes dot segments, and "%2F" are three  *)
(* characters that look like an escaped slash.  Any other atom is a run of *)
(* characters that mean nothing.  On the wire an atom is escaped or not.   *)
(***************************************************************************)
EXTENDS SequencesExt

Literal(c) == [atom |-> c, escaped |-> FALSE]

Slash == Literal("/")

\* url.PathEscape: nothing that means something to a path survives, except
\* dots.
PathEscape(text) ==
    [i \in DOMAIN text |->
        [atom |-> text[i], escaped |-> text[i] \in {"/", "?", "%2F"}]]

\* url.PathUnescape.  It cannot know that somebody forgot to escape.
PathUnescape(wire) ==
    [i \in DOMAIN wire |->
        IF wire[i] = Literal("%2F") THEN "/" ELSE wire[i].atom]

-----------------------------------------------------------------------------

\* Mutant: every text with two dots in a row is taken for a dot segment.
CheckIDAnyDots(id) ==
    CASE id = <<>> -> "ErrMissingID"
      [] \E i \in 2..Len(id) : id[i - 1] = "." /\ id[i] = "." -> "dot segment"
      [] OTHER -> "ok"

CheckID(id) ==
    CASE id = <<>> -> "ErrMissingID"
      [] id \in {<<".">>, <<".", ".">>} -> "dot segment"
      [] OTHER -> "ok"

BuildPath(segments) ==
    FlattenSeq([i \in DOMAIN segments |->
        (IF i = 1 THEN <<>> ELSE <<Slash>>) \o PathEscape(segments[i])])

TrimSlash(wire) ==
    IF wire # <<>> /\ Last(wire) = Slash THEN Front(wire) ELSE wire

\* Mutant: only the decoded form is kept.
ResolvePathDecodedOnly(base, requestPath) ==
    [Path |-> PathUnescape(TrimSlash(base) \o <<Slash>> \o requestPath),
     RawPath |-> <<>>]

\* The URL of a request; base is the client's base path, escaped.
ResolvePath(base, requestPath) ==
    LET escaped == TrimSlash(base) \o <<Slash>> \o requestPath
    IN [Path |-> PathUnescape(escaped), RawPath |-> escaped]

\* url.URL.EscapedPath, which String uses: RawPath when it agrees with Path,
\* otherwise a fresh escaping of Path in which a slash is a separator.
EscapedPath(url) ==
    IF PathUnescape(url.RawPath) = url.Path
    THEN url.RawPath
    ELSE [i \in DOMAIN url.Path |->
            [atom |-> url.Path[i], escaped |-> url.Path[i] \in {"?", "%2F"}]]

=============================================================================
