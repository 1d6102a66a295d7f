---------------------------- MODULE ProtoVersion ----------------------------
(***************************************************************************)
(* The identification line as protoversion.rs writes it and takes it apart.*)
(* Text is a sequence of characters told apart only as far as the code     *)
(* does: "S" is the character that "SSH-2.0-" has at its place.            *)
(***************************************************************************)
EXTENDS Naturals, Sequences, SequencesExt

CONSTANTS PrefixLen \* length of "SSH-2.0-", 8 in the program

Chars == {"S", "other", "space", "CR", "LF", "invalid"}

Prefix == [k \in 1 .. PrefixLen |-> "S"]
Has(char, text) == \E k \in 1 .. Len(text) : text[k] = char
Utf8(text) == ~Has("invalid", text)
From(text, k) == SubSeq(text, k, Len(text))

\* An Option<&str>.
None == <<>>
Some(text) == <<text>>
Err == [software |-> <<>>, comments |-> None]

\* Any line end is taken off, and it need not be there.
StripLineEnd(text) ==
  CASE IsSuffix(<<"CR", "LF">>, text) -> SubSeq(text, 1, Len(text) - 2)
    [] ~IsSuffix(<<"CR", "LF">>, text) /\ IsSuffix(<<"LF">>, text) -> Front(text)
    [] OTHER -> text

\* Err has an empty software version, which no ProtoVersion has.
new(software, comments) ==
  IF \/ software = <<>>
     \/ \E char \in {"space", "CR", "LF"} : Has(char, software)
     \/ comments # None /\ \E char \in {"CR", "LF"} : Has(char, comments[1])
  THEN Err
  ELSE [software |-> software, comments |-> comments]

identification_string(v) ==
  Prefix \o v.software \o (IF v.comments = None THEN <<>> ELSE <<"space">> \o v.comments[1])

to_bytes(v) == identification_string(v) \o <<"CR", "LF">>

\* Mutant: comments are not taken over.
CommentsDropped(text) == None
\* Comments behind the space, unless they are empty.
Comments(text) == IF text = <<>> THEN None ELSE Some(text)

Spaces(text) == {k \in 1 .. Len(text) : text[k] = "space"}

\* Mutant: the last space separates the comments.
LastSpace(text) == CHOOSE k \in Spaces(text) : \A l \in Spaces(text) : l <= k
FirstSpace(text) == CHOOSE k \in Spaces(text) : \A l \in Spaces(text) : k <= l

\* Starting with "SSH-", and "2.0" before the next dash, is starting with Prefix.
from_bytes(bytes) ==
  LET line == StripLineEnd(bytes)
      rest == From(line, PrefixLen + 1)
  IN  CASE ~Utf8(bytes) \/ ~IsPrefix(Prefix, line) -> Err
        [] Utf8(bytes) /\ IsPrefix(Prefix, line) /\ Spaces(rest) = {} -> new(rest, None)
        [] OTHER -> new(SubSeq(rest, 1, FirstSpace(rest) - 1),
                        Comments(From(rest, FirstSpace(rest) + 1)))
=============================================================================
