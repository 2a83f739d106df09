----------------------------- MODULE GoStrings -----------------------------
(***************************************************************************)
(* The few functions of Go's "strings" package that the resolver applies  *)
(* to qualified protobuf names.  A string is a sequence of one-character  *)
(* strings, so that the prefix and cutset behaviour the resolver depends  *)
(* on is computed, not assumed.  These model the Go standard library, not *)
(* code of the repository.                                                 *)
(***************************************************************************)
EXTENDS Naturals, Sequences, SequencesExt

Dot == <<".">>

\* strings.HasPrefix(s, p)
HasPrefix(s, p) == IsPrefix(p, s)

\* strings.TrimPrefix(s, p): s without p when s starts with p, else s.
TrimPrefix(s, p) == IF HasPrefix(s, p) THEN SubSeq(s, Len(p) + 1, Len(s)) ELSE s

\* strings.TrimLeft(s, cutset): drops every leading character that occurs
\* anywhere in cutset.  It is a cutset, not a prefix.
RECURSIVE TrimLeft(_, _)
TrimLeft(s, cutset) ==
    IF s # <<>> /\ Contains(cutset, Head(s)) THEN TrimLeft(Tail(s), cutset) ELSE s

\* strings.LastIndex(s, c) + 1 for a one-character c: the 1-based position
\* of the last c, 0 when there is none (Go returns -1).
LastIndex(s, c) == SelectLastInSeq(s, LAMBDA x : x = c)

\* strings.Contains(s, sub): sub occurs in s as a substring.
StrContains(s, sub) == sub \in SubSeqs(s)

\* s1 + "." + s2
DotJoin(s1, s2) == s1 \o Dot \o s2

=============================================================================
