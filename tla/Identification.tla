--------------------------- MODULE Identification ---------------------------
(***************************************************************************)
(* read_identification_string (pkg/mod.rs): the peer's line is read byte   *)
(* by byte from the stream that its packets follow on, and both ends hash  *)
(* it.  The peer has written a line, ended as it likes or not at all, and  *)
(* its packets behind it; the stream may end or fail before any byte.      *)
(***************************************************************************)
EXTENDS ProtoVersion

CONSTANTS
  MaxLine, \* 255 in the program
  Ids      \* the identification strings of peers

ASSUME IdentificationAssumption ==
  /\ PrefixLen \in Nat /\ MaxLine \in Nat
  /\ Ids \subseteq Seq(Chars)

VARIABLES
  own,     \* the string the peer has hashed for itself
  ending,  \* how it ended its line
  buf,     \* the bytes read
  outcome, \* "reading", "Ok", "refused", "closed" or "failed": the last three are Err
  line     \* the string returned

vars == <<own, ending, buf, outcome, line>>

CRLF == <<"CR", "LF">>
Endings == {CRLF, <<"LF">>, <<>>}

\* The packets are bytes like any others, here such as a line has not.
stream == own \o ending \o [k \in 1 .. (MaxLine + 1) |-> "invalid"]

\* Mutant: only the LF is taken off.
StrippedOfLF(bytes) == Front(bytes)
Stripped(bytes) == StripLineEnd(bytes)

Acceptable(bytes) == Utf8(bytes) /\ IsPrefix(Prefix, Stripped(bytes))

\* Mutant: the length is tested before the line end.
TooLongFirst(bytes) == Len(bytes) > MaxLine
\* The line end is tested first: a line may have one byte more than MaxLine.
TooLong(bytes) == Last(bytes) # "LF" /\ Len(bytes) > MaxLine

Ended(bytes) == Last(bytes) = "LF" /\ ~TooLong(bytes)

ReadByte ==
  LET bytes == Append(buf, stream[Len(buf) + 1])
  IN  /\ outcome = "reading"
      /\ buf' = bytes
      /\ outcome' = CASE TooLong(bytes) -> "refused"
                      [] Ended(bytes)   -> IF Acceptable(bytes) THEN "Ok" ELSE "refused"
                      [] OTHER          -> "reading"
      /\ line' = IF outcome' = "Ok" THEN Stripped(bytes) ELSE line
      /\ UNCHANGED <<own, ending>>

\* read returns 0, or an error.
ReadEnd ==
  /\ outcome = "reading"
  /\ outcome' \in {"closed", "failed"}
  /\ UNCHANGED <<own, ending, buf, line>>

Init ==
  /\ own \in Ids
  /\ ending \in Endings
  /\ buf = <<>>
  /\ outcome = "reading"
  /\ line = <<>>

Next == ReadByte \/ ReadEnd

Spec == Init /\ [][Next]_vars

-----------------------------------------------------------------------------
Written == own \o ending

\* The two ends hash the same string: if the peer ends its line as this program
\* does, with CR LF, what is returned is what it wrote in front of them, CRs
\* and spaces included, and the next byte read is the first of its packets
\* (receive_proto_version of client.rs and server.rs, kex_hash).
BothHashTheSame ==
  outcome = "Ok" /\ ending = CRLF /\ ~Has("LF", own) => line = own /\ buf = Written

\* A line is refused if and only if it is too long by its 256th byte, is not
\* UTF-8 or starts wrong, and never because of how the bytes were delivered or
\* of what comes behind it.
RefusedForCause ==
  LET good == /\ Utf8(Written) /\ IsPrefix(Prefix, own)
              /\ ending # <<>> /\ Len(Written) <= MaxLine + 1
  IN  ~Has("LF", own) => /\ outcome = "refused" => ~good
                         /\ outcome = "Ok" => good

\* The two parsers of the line agree: what ProtoVersion would hash of a line
\* (exchange_hash_bytes) is what the transport hashes, but for an empty comment;
\* and it refuses more: an empty software version, and a CR in the line.
ParsersAgree ==
  LET v == from_bytes(buf)
      rest == From(line, PrefixLen + 1)
  IN  outcome = "Ok" =>
        IF v = Err
        THEN rest = <<>> \/ rest[1] = "space" \/ Has("CR", rest)
        ELSE \/ identification_string(v) = line
             \/ identification_string(v) \o <<"space">> = line /\ v.comments = None

\* A ProtoVersion survives the way over the wire, whatever its comments hold,
\* but for a comment that is empty, which is none to the reader.
VersionIsRead ==
  \A k \in 0 .. Len(own) : \A comments \in {None, Some(From(own, k + 1))} :
    LET v == new(SubSeq(own, 1, k), comments)
    IN  v # Err /\ Utf8(own) =>
          from_bytes(to_bytes(v)) = IF comments = Some(<<>>) THEN [v EXCEPT !.comments = None] ELSE v
=============================================================================
