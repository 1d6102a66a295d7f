------------------------ MODULE IdentificationProofs ------------------------
(***************************************************************************)
(* The identification line: both ends hash the same string, a line is      *)
(* refused for what it is, and what is written is what is read, for every  *)
(* string, every limit on lines and every prefix.                          *)
(***************************************************************************)
EXTENDS Identification, SequenceTheorems, ArithmeticProofs

Text == Seq(Chars)

-----------------------------------------------------------------------------
\* Text.

\* Parts of a text.
LEMMA PartOfText ==
  ASSUME NEW t \in Text, NEW m \in Nat \ {0}, NEW n \in Nat, n <= Len(t)
  PROVE  /\ SubSeq(t, m, n) \in Text
         /\ Len(SubSeq(t, m, n)) = IF m <= n THEN n - m + 1 ELSE 0
         /\ \A k \in 1 .. (n - m + 1) : SubSeq(t, m, n)[k] = t[m + k - 1]
<1>1. m \in Int /\ n \in Int
  OBVIOUS
<1>2. \A k \in m .. n : t[k] \in Chars
  <2> TAKE k \in m .. n
  <2>1. k \in 1 .. Len(t)
    BY LenProperties DEF Text
  <2> QED
    BY <2>1, ElementOfSeq DEF Text
<1> QED
  BY ONLY <1>1, <1>2, SubSeqProperties DEF Text

\* One text behind another.
LEMMA JoinOfText ==
  ASSUME NEW s \in Text, NEW t \in Text
  PROVE  /\ s \o t \in Text
         /\ Len(s \o t) = Len(s) + Len(t)
         /\ \A k \in 1 .. Len(s) : (s \o t)[k] = s[k]
         /\ \A k \in 1 .. Len(t) : (s \o t)[Len(s) + k] = t[k]
<1>1. Len(s) \in Nat /\ Len(t) \in Nat
  BY LenProperties DEF Text
<1>2. /\ s \o t \in Text
      /\ Len(s \o t) = Len(s) + Len(t)
      /\ \A k \in 1 .. Len(s) + Len(t) : (s \o t)[k] = IF k <= Len(s) THEN s[k] ELSE t[k - Len(s)]
  BY ConcatProperties DEF Text
<1>3. ASSUME NEW k \in 1 .. Len(s)
      PROVE  (s \o t)[k] = s[k]
  <2>1. k \in 1 .. Len(s) + Len(t) /\ k <= Len(s)
    BY <1>1
  <2> QED
    BY <1>2, <2>1
<1>4. ASSUME NEW k \in 1 .. Len(t)
      PROVE  (s \o t)[Len(s) + k] = t[k]
  <2>1. Len(s) + k \in 1 .. Len(s) + Len(t) /\ ~(Len(s) + k <= Len(s)) /\ (Len(s) + k) - Len(s) = k
    BY <1>1
  <2> QED
    BY <1>2, <2>1
<1> QED
  BY <1>2, <1>3, <1>4

\* Short texts.
LEMMA ShortTexts ==
  /\ <<>> \in Text /\ <<"LF">> \in Text /\ CRLF \in Text /\ <<"space">> \in Text
  /\ Len(<<>>) = 0 /\ Len(<<"LF">>) = 1 /\ Len(CRLF) = 2 /\ Len(<<"space">>) = 1
  /\ <<"LF">>[1] = "LF" /\ CRLF[1] = "CR" /\ CRLF[2] = "LF" /\ <<"space">>[1] = "space"
BY DEF Text, Chars, CRLF

\* A text has a length, which is 0 for the empty one only.
LEMMA TextType ==
  ASSUME NEW t \in Text
  PROVE  Len(t) \in Nat /\ (t = <<>> <=> Len(t) = 0)
BY LenProperties, EmptySeq DEF Text

\* Two texts are the same if they are character by character.
LEMMA SameText ==
  ASSUME NEW s \in Text, NEW t \in Text, Len(s) = Len(t), \A k \in 1 .. Len(s) : s[k] = t[k]
  PROVE  s = t
BY SeqEqual DEF Text

\* The prefix is a text, all of the same characters.
LEMMA PrefixType ==
  /\ Prefix \in Text /\ Len(Prefix) = PrefixLen /\ PrefixLen \in Nat
  /\ \A k \in 1 .. PrefixLen : Prefix[k] = "S"
<1>1. PrefixLen \in Nat
  BY IdentificationAssumption
<1>2. Prefix \in [1 .. PrefixLen -> Chars]
  BY DEF Prefix, Chars
<1> QED
  BY <1>1, <1>2 DEF Prefix, Text

\* The beginning of a text.
LEMMA BeginningOfText ==
  ASSUME NEW t \in Text, NEW m \in 0 .. Len(t)
  PROVE  /\ SubSeq(t, 1, m) \in Text /\ Len(SubSeq(t, 1, m)) = m
         /\ \A k \in 1 .. m : SubSeq(t, 1, m)[k] = t[k]
<1>1. m \in Nat /\ m <= Len(t) /\ 1 \in Nat \ {0}
  BY TextType
<1>2. /\ SubSeq(t, 1, m) \in Text
      /\ Len(SubSeq(t, 1, m)) = IF 1 <= m THEN m - 1 + 1 ELSE 0
      /\ \A k \in 1 .. (m - 1 + 1) : SubSeq(t, 1, m)[k] = t[1 + k - 1]
  BY <1>1, PartOfText
<1>3. m - 1 + 1 = m /\ (m = 0 \/ 1 <= m) /\ \A k \in 1 .. m : 1 + k - 1 = k
  BY <1>1
<1> QED
  BY <1>2, <1>3

\* What it is to be a prefix.
LEMMA PrefixMeans ==
  ASSUME NEW s \in Text, NEW t \in Text
  PROVE  IsPrefix(s, t) <=> Len(s) <= Len(t) /\ \A k \in 1 .. Len(s) : s[k] = t[k]
<1>1. Len(s) \in Nat /\ Len(t) \in Nat
  BY TextType
<1> SUFFICES ASSUME Len(s) <= Len(t)
             PROVE  SubSeq(s, 1, Len(s)) = SubSeq(t, 1, Len(s))
                      <=> \A k \in 1 .. Len(s) : s[k] = t[k]
  BY DEF IsPrefix
<1> DEFINE n == Len(s)
           p == SubSeq(s, 1, n)
           u == SubSeq(t, 1, n)
<1>2. n \in 0 .. Len(s) /\ n \in 0 .. Len(t)
  BY <1>1
<1>3. p \in Text /\ Len(p) = n /\ \A k \in 1 .. n : p[k] = s[k]
  BY <1>2, BeginningOfText
<1>4. u \in Text /\ Len(u) = n /\ \A k \in 1 .. n : u[k] = t[k]
  BY <1>2, BeginningOfText
<1> HIDE DEF p, u, n
<1>5. (\A k \in 1 .. n : p[k] = u[k]) => p = u
  BY <1>3, <1>4, SameText
<1>6. p = u <=> \A k \in 1 .. n : s[k] = t[k]
  BY <1>3, <1>4, <1>5
<1> QED
  BY <1>6 DEF p, u, n

\* What it is to start with the prefix.
LEMMA StartsRight ==
  ASSUME NEW t \in Text
  PROVE  IsPrefix(Prefix, t) <=> PrefixLen <= Len(t) /\ \A k \in 1 .. PrefixLen : t[k] = "S"
BY PrefixType, PrefixMeans

\* Reverse, character by character.
LEMMA ReverseText ==
  ASSUME NEW t \in Text
  PROVE  /\ Reverse(t) \in Text /\ Len(Reverse(t)) = Len(t)
         /\ \A k \in 1 .. Len(t) : Reverse(t)[k] = t[(Len(t) - k) + 1]
<1>1. Len(t) \in Nat
  BY TextType
<1>2. Reverse(t) \in [1 .. Len(t) -> Chars]
  <2>1. \A k \in 1 .. Len(t) : (Len(t) - k) + 1 \in 1 .. Len(t)
    BY <1>1
  <2> QED
    BY <2>1, ElementOfSeq DEF Reverse, Text
<1>3. Reverse(t) \in Text /\ Len(Reverse(t)) = Len(t)
  BY <1>1, <1>2 DEF Text
<1> QED
  BY <1>3 DEF Reverse

\* What it is to be a suffix.
LEMMA SuffixMeans ==
  ASSUME NEW s \in Text, NEW t \in Text
  PROVE  IsSuffix(s, t) <=>
           Len(s) <= Len(t) /\ \A k \in 1 .. Len(s) : s[k] = t[(Len(t) - Len(s)) + k]
<1>1. Len(s) \in Nat /\ Len(t) \in Nat
  BY TextType
<1>2. IsSuffix(s, t) <=>
        Len(s) <= Len(t) /\ \A k \in 1 .. Len(s) : Reverse(s)[k] = Reverse(t)[k]
  BY ReverseText, PrefixMeans DEF IsSuffix
<1> SUFFICES ASSUME Len(s) <= Len(t)
             PROVE  (\A k \in 1 .. Len(s) : Reverse(s)[k] = Reverse(t)[k])
                      <=> \A k \in 1 .. Len(s) : s[k] = t[(Len(t) - Len(s)) + k]
  BY <1>2
<1>3. ASSUME NEW k \in 1 .. Len(s)
      PROVE  /\ (Len(s) - k) + 1 \in 1 .. Len(s)
             /\ Reverse(s)[(Len(s) - k) + 1] = s[k]
             /\ Reverse(t)[(Len(s) - k) + 1] = t[(Len(t) - Len(s)) + k]
  <2> DEFINE j == (Len(s) - k) + 1
  <2>1. /\ j \in 1 .. Len(s) /\ j \in 1 .. Len(t)
        /\ (Len(s) - j) + 1 = k /\ (Len(t) - j) + 1 = (Len(t) - Len(s)) + k
    BY <1>1
  <2> HIDE DEF j
  <2>2. Reverse(s)[j] = s[k] /\ Reverse(t)[j] = t[(Len(t) - Len(s)) + k]
    BY <2>1, ReverseText
  <2> QED
    BY <2>1, <2>2 DEF j
<1>4. ASSUME NEW k \in 1 .. Len(s)
      PROVE  /\ (Len(s) - k) + 1 \in 1 .. Len(s)
             /\ Reverse(s)[k] = s[(Len(s) - k) + 1]
             /\ Reverse(t)[k] = t[(Len(t) - Len(s)) + ((Len(s) - k) + 1)]
  <2>1. /\ k \in 1 .. Len(t) /\ (Len(s) - k) + 1 \in 1 .. Len(s)
        /\ (Len(t) - k) + 1 = (Len(t) - Len(s)) + ((Len(s) - k) + 1)
    BY <1>1
  <2> QED
    BY <2>1, ReverseText
<1> QED
  BY <1>3, <1>4

\* Texts that end in LF.
LEMMA EndsInLF ==
  ASSUME NEW t \in Text
  PROVE  IsSuffix(<<"LF">>, t) <=> Len(t) >= 1 /\ t[Len(t)] = "LF"
<1> DEFINE s == <<"LF">>
<1>1. s \in Text /\ Len(s) = 1 /\ s[1] = "LF"
  BY ShortTexts
<1> HIDE DEF s
<1>2. Len(t) \in Nat /\ (Len(t) - 1) + 1 = Len(t)
  BY TextType
<1>3. IsSuffix(s, t) <=> Len(s) <= Len(t) /\ \A k \in 1 .. Len(s) : s[k] = t[(Len(t) - Len(s)) + k]
  BY <1>1, SuffixMeans
<1>4. IsSuffix(s, t) <=> 1 <= Len(t) /\ s[1] = t[(Len(t) - 1) + 1]
  BY <1>1, <1>3
<1> QED
  BY <1>1, <1>2, <1>4 DEF s

\* Texts that end in CR LF.
LEMMA EndsInCRLF ==
  ASSUME NEW t \in Text
  PROVE  IsSuffix(CRLF, t) <=> Len(t) >= 2 /\ t[Len(t) - 1] = "CR" /\ t[Len(t)] = "LF"
<1>1. Len(t) \in Nat /\ (Len(t) - 2) + 1 = Len(t) - 1 /\ (Len(t) - 2) + 2 = Len(t)
  BY TextType
<1>2. CRLF \in Text /\ Len(CRLF) = 2 /\ CRLF[1] = "CR" /\ CRLF[2] = "LF"
  BY ShortTexts
<1>3. IsSuffix(CRLF, t) <=>
        Len(CRLF) <= Len(t) /\ \A k \in 1 .. Len(CRLF) : CRLF[k] = t[(Len(t) - Len(CRLF)) + k]
  BY <1>2, SuffixMeans
<1>4. IsSuffix(CRLF, t) <=>
        2 <= Len(t) /\ CRLF[1] = t[(Len(t) - 2) + 1] /\ CRLF[2] = t[(Len(t) - 2) + 2]
  BY <1>2, <1>3
<1> QED
  BY <1>1, <1>2, <1>4

\* What StripLineEnd takes off.
LEMMA Stripping ==
  ASSUME NEW t \in Text, NEW n, n = Len(t), NEW u, u = StripLineEnd(t)
  PROVE  /\ u \in Text
         /\ n >= 2 /\ t[n - 1] = "CR" /\ t[n] = "LF" => Len(u) = n - 2
         /\ n >= 1 /\ t[n] = "LF" /\ ~(n >= 2 /\ t[n - 1] = "CR") => Len(u) = n - 1
         /\ ~(n >= 1 /\ t[n] = "LF") => u = t
         /\ Len(u) \in 0 .. n
         /\ \A k \in 1 .. Len(u) : u[k] = t[k]
<1>1. n \in Nat
  BY TextType
<1>2. u = CASE IsSuffix(CRLF, t) -> SubSeq(t, 1, n - 2)
            [] ~IsSuffix(CRLF, t) /\ IsSuffix(<<"LF">>, t) -> SubSeq(t, 1, n - 1)
            [] OTHER -> t
  BY DEF StripLineEnd, Front, CRLF
<1>3. CASE n >= 2 /\ t[n - 1] = "CR" /\ t[n] = "LF"
  <2>1. u = SubSeq(t, 1, n - 2) /\ n - 2 \in 0 .. Len(t)
    BY <1>1, <1>2, <1>3, EndsInCRLF
  <2>2. u \in Text /\ Len(u) = n - 2 /\ \A k \in 1 .. (n - 2) : u[k] = t[k]
    BY <2>1, BeginningOfText
  <2> QED
    BY <1>1, <1>3, <2>1, <2>2
<1>4. CASE n >= 1 /\ t[n] = "LF" /\ ~(n >= 2 /\ t[n - 1] = "CR")
  <2>1. u = SubSeq(t, 1, n - 1) /\ n - 1 \in 0 .. Len(t)
    BY <1>1, <1>2, <1>4, EndsInCRLF, EndsInLF
  <2>2. u \in Text /\ Len(u) = n - 1 /\ \A k \in 1 .. (n - 1) : u[k] = t[k]
    BY <2>1, BeginningOfText
  <2> QED
    BY <1>1, <1>4, <2>1, <2>2
<1>5. CASE ~(n >= 1 /\ t[n] = "LF")
  <2>1. u = t
    BY <1>1, <1>2, <1>5, EndsInCRLF, EndsInLF
  <2> QED
    BY <1>1, <1>5, <2>1
<1> QED
  BY <1>3, <1>4, <1>5
-----------------------------------------------------------------------------
\* Reading.

\* Inductive: what was read is the beginning of the stream, no further than
\* its first LF and than one byte behind the limit; and why reading stopped.
LineInv ==
  /\ own \in Text /\ ending \in Endings /\ buf \in Text
  /\ Len(buf) <= MaxLine + 1
  /\ \A k \in 1 .. Len(buf) : buf[k] = stream[k]
  /\ \A k \in 1 .. (Len(buf) - 1) : buf[k] # "LF"
  /\ outcome = "reading" => Len(buf) <= MaxLine /\ \A k \in 1 .. Len(buf) : buf[k] # "LF"
  /\ outcome = "Ok" =>
       Len(buf) >= 1 /\ buf[Len(buf)] = "LF" /\ Acceptable(buf) /\ line = Stripped(buf)
  /\ outcome = "refused" =>
       Len(buf) >= 1 /\ IF buf[Len(buf)] = "LF" THEN ~Acceptable(buf) ELSE Len(buf) = MaxLine + 1

\* The stream is the line and then packets.
LEMMA StreamIs ==
  ASSUME own \in Text, ending \in Endings
  PROVE  /\ Written \in Text /\ Len(Written) = Len(own) + Len(ending)
         /\ \A k \in 1 .. Len(own) : Written[k] = own[k]
         /\ \A k \in 1 .. Len(ending) : Written[Len(own) + k] = ending[k]
         /\ stream \in Text /\ Len(stream) = Len(Written) + (MaxLine + 1)
         /\ \A k \in 1 .. Len(Written) : stream[k] = Written[k]
         /\ \A k \in 1 .. (MaxLine + 1) : stream[Len(Written) + k] = "invalid"
<1> DEFINE packets == [k \in 1 .. (MaxLine + 1) |-> "invalid"]
<1>1. ending \in Text
  BY ShortTexts DEF Endings
<1>2. packets \in Text /\ Len(packets) = MaxLine + 1
  <2>1. MaxLine + 1 \in Nat /\ packets \in [1 .. (MaxLine + 1) -> Chars]
    BY IdentificationAssumption DEF Chars
  <2> QED
    BY <2>1 DEF Text
<1>3. \A k \in 1 .. (MaxLine + 1) : packets[k] = "invalid"
  OBVIOUS
<1>4. stream = Written \o packets
  BY DEF stream, Written
<1> HIDE DEF packets
<1>5. /\ Written \in Text /\ Len(Written) = Len(own) + Len(ending)
      /\ \A k \in 1 .. Len(own) : Written[k] = own[k]
      /\ \A k \in 1 .. Len(ending) : Written[Len(own) + k] = ending[k]
  BY <1>1, JoinOfText DEF Written
<1>6. /\ stream \in Text /\ Len(stream) = Len(Written) + Len(packets)
      /\ \A k \in 1 .. Len(Written) : stream[k] = Written[k]
      /\ \A k \in 1 .. Len(packets) : stream[Len(Written) + k] = packets[k]
  BY <1>2, <1>4, <1>5, JoinOfText
<1> QED
  BY <1>2, <1>3, <1>5, <1>6

\* LineInv holds initially.
LEMMA LineInitially ==
  ASSUME Init
  PROVE  LineInv
<1>1. own \in Text /\ ending \in Endings /\ buf = <<>> /\ outcome = "reading"
  BY IdentificationAssumption DEF Init, Text
<1>2. buf \in Text /\ Len(buf) = 0
  BY <1>1, ShortTexts
<1>3. MaxLine \in Nat
  BY IdentificationAssumption
<1> QED
  BY <1>1, <1>2, <1>3 DEF LineInv

\* Reading a byte keeps LineInv.
LEMMA ByteRead ==
  ASSUME LineInv, ReadByte
  PROVE  LineInv'
<1> DEFINE n == Len(buf)
           byte == stream[n + 1]
           bytes == Append(buf, byte)
<1>1. /\ own \in Text /\ ending \in Endings /\ buf \in Text
      /\ outcome = "reading"
      /\ n \in Nat /\ n <= MaxLine /\ MaxLine \in Nat
      /\ \A k \in 1 .. n : buf[k] = stream[k] /\ buf[k] # "LF"
  BY TextType, IdentificationAssumption DEF LineInv, ReadByte
<1>2. n + 1 \in 1 .. Len(stream) /\ stream \in Text
  <2>1. Len(Written) \in Nat
    BY <1>1, StreamIs, TextType
  <2> QED
    BY <1>1, <2>1, StreamIs
<1>3. byte \in Chars
  BY <1>2, ElementOfSeq DEF Text
<1>4. /\ buf' = bytes /\ own' = own /\ ending' = ending /\ stream' = stream
      /\ outcome' = CASE TooLong(bytes) -> "refused"
                      [] Ended(bytes)   -> IF Acceptable(bytes) THEN "Ok" ELSE "refused"
                      [] OTHER          -> "reading"
      /\ line' = IF outcome' = "Ok" THEN Stripped(bytes) ELSE line
  BY DEF ReadByte, stream
<1>5. /\ bytes \in Text /\ Len(bytes) = n + 1
      /\ bytes[n + 1] = byte /\ \A k \in 1 .. n : bytes[k] = buf[k]
  BY <1>1, <1>3 DEF Text
<1> HIDE DEF n, byte, bytes
<1>6. /\ TooLong(bytes) <=> (byte # "LF" /\ n + 1 > MaxLine)
      /\ Ended(bytes) <=> byte = "LF"
  BY <1>5 DEF TooLong, Ended, Last
<1>7. \A k \in 1 .. (n + 1) : bytes[k] = stream[k]
  <2> TAKE k \in 1 .. (n + 1)
  <2>1. k \in 1 .. n \/ k = n + 1
    BY <1>1
  <2> QED
    BY <1>1, <1>5, <2>1 DEF byte
<1>8. \A k \in 1 .. n : bytes[k] # "LF"
  BY <1>1, <1>5
<1>9. /\ own' \in Text /\ ending' \in Endings /\ buf' \in Text
      /\ Len(buf') = n + 1 /\ Len(buf') <= MaxLine + 1 /\ Len(buf') - 1 = n
      /\ \A k \in 1 .. Len(buf') : buf'[k] = stream'[k]
      /\ \A k \in 1 .. n : buf'[k] # "LF"
      /\ Len(buf') >= 1 /\ buf'[Len(buf')] = byte
  BY <1>1, <1>4, <1>5, <1>7, <1>8
<1> DEFINE long == TooLong(bytes)
           ended == Ended(bytes)
           acceptable == Acceptable(bytes)
<1>10. /\ outcome' = "reading" => ~long /\ ~ended
       /\ outcome' = "Ok" => ended /\ acceptable
       /\ outcome' = "refused" => long \/ (ended /\ ~acceptable)
  <2>1. outcome' = CASE long -> "refused"
                     [] ended -> IF acceptable THEN "Ok" ELSE "refused"
                     [] OTHER -> "reading"
    BY <1>4
  <2> HIDE DEF long, ended, acceptable
  <2>2. long => ~ended
    BY <1>6 DEF long, ended
  <2>3. CASE long
    BY <2>1, <2>2, <2>3
  <2>4. CASE ~long /\ ended
    BY <2>1, <2>4
  <2>5. CASE ~long /\ ~ended
    BY <2>1, <2>5
  <2> QED
    BY <2>3, <2>4, <2>5
<1> HIDE DEF long, ended, acceptable
<1>11. ASSUME outcome' = "reading"
       PROVE  Len(buf') <= MaxLine /\ \A k \in 1 .. Len(buf') : buf'[k] # "LF"
  <2>1. ~TooLong(bytes) /\ ~Ended(bytes)
    BY <1>11, <1>10 DEF long, ended
  <2>2. byte # "LF" /\ ~(n + 1 > MaxLine)
    BY <1>6, <2>1
  <2>3. \A k \in 1 .. (n + 1) : k \in 1 .. n \/ k = n + 1
    BY <1>1
  <2> QED
    BY <1>1, <1>9, <2>2, <2>3
<1>12. ASSUME outcome' = "Ok"
       PROVE  byte = "LF" /\ Acceptable(buf') /\ line' = Stripped(buf')
  <2>1. Ended(bytes) /\ Acceptable(bytes)
    BY <1>12, <1>10 DEF ended, acceptable
  <2> QED
    BY <1>4, <1>6, <1>12, <2>1
<1>13. ASSUME outcome' = "refused"
       PROVE  IF byte = "LF" THEN ~Acceptable(buf') ELSE Len(buf') = MaxLine + 1
  <2>1. TooLong(bytes) \/ (Ended(bytes) /\ ~Acceptable(bytes))
    BY <1>13, <1>10 DEF long, ended, acceptable
  <2>2. byte # "LF" => n + 1 > MaxLine
    BY <1>6, <2>1
  <2>3. byte = "LF" => ~Acceptable(bytes)
    BY <1>6, <2>1
  <2> QED
    BY <1>1, <1>4, <1>9, <2>2, <2>3
<1> QED
  BY <1>9, <1>11, <1>12, <1>13 DEF LineInv

\* Every step keeps LineInv.
LEMMA LineInductive ==
  ASSUME LineInv, [Next]_vars
  PROVE  LineInv'
<1>1. CASE ReadEnd
  <2>1. /\ own' = own /\ ending' = ending /\ buf' = buf /\ stream' = stream
        /\ outcome' \notin {"reading", "Ok", "refused"}
    BY <1>1 DEF ReadEnd, stream
  <2> QED
    BY <2>1 DEF LineInv
<1>2. CASE UNCHANGED vars
  <2>1. /\ own' = own /\ ending' = ending /\ buf' = buf /\ stream' = stream
        /\ outcome' = outcome /\ line' = line
    BY <1>2 DEF vars, stream
  <2> QED
    BY <2>1 DEF LineInv
<1> QED
  BY <1>1, <1>2, ByteRead DEF Next

-----------------------------------------------------------------------------
\* The line that was read.

\* A line that ends is the whole line the peer wrote, if that has no LF inside.
LEMMA WholeLine ==
  ASSUME LineInv, ~Has("LF", own), Len(buf) >= 1, buf[Len(buf)] = "LF"
  PROVE  ending # <<>> /\ buf = Written
<1> DEFINE n == Len(buf)
           o == Len(own)
           w == Len(Written)
<1>1. own \in Text /\ ending \in Endings /\ buf \in Text /\ MaxLine \in Nat
      /\ n <= MaxLine + 1 /\ \A k \in 1 .. n : buf[k] = stream[k]
  BY IdentificationAssumption DEF LineInv
<1>2. /\ Written \in Text /\ w = o + Len(ending)
      /\ \A k \in 1 .. o : Written[k] = own[k]
      /\ \A k \in 1 .. Len(ending) : Written[o + k] = ending[k]
      /\ \A k \in 1 .. w : stream[k] = Written[k]
      /\ \A k \in 1 .. (MaxLine + 1) : stream[w + k] = "invalid"
  BY <1>1, StreamIs
<1>3. n \in Nat /\ o \in Nat /\ w \in Nat
  BY <1>1, <1>2, TextType
<1>4. n >= 1 /\ stream[n] = "LF"
  BY <1>1, <1>3
<1>5. \A k \in 1 .. o : own[k] # "LF"
  BY DEF Has
<1> HIDE DEF n, o, w
<1>6. n <= w
  <2> SUFFICES ASSUME n > w
               PROVE  FALSE
    BY <1>3
  <2>1. n - w \in 1 .. (MaxLine + 1) /\ w + (n - w) = n
    BY <1>1, <1>3
  <2>2. stream[w + (n - w)] = "invalid"
    BY <1>2, <2>1
  <2> QED
    BY <1>4, <2>1, <2>2
<1>7. Written[n] = "LF"
  BY <1>2, <1>3, <1>4, <1>6
<1>8. n > o
  BY <1>2, <1>3, <1>4, <1>5, <1>7
<1>9. n - o \in 1 .. Len(ending) /\ o + (n - o) = n
  <2>1. Len(ending) \in Nat
    BY <1>1, ShortTexts DEF Endings
  <2> QED
    BY <1>2, <1>3, <1>6, <1>8, <2>1
<1>10. ending[n - o] = "LF"
  BY <1>2, <1>7, <1>9
<1>11. ending # <<>> /\ n - o = Len(ending)
  <2>1. CASE ending = <<"LF">>
    <3>1. Len(ending) = 1 /\ ending # <<>>
      BY <2>1, ShortTexts
    <3> QED
      BY <1>3, <1>9, <3>1
  <2>2. CASE ending = CRLF
    <3>1. Len(ending) = 2 /\ ending[1] = "CR"
      BY <2>2, ShortTexts
    <3>2. n - o = 1 \/ n - o = 2
      BY <1>3, <1>9, <3>1
    <3>3. ending # <<>>
      BY <3>1, ShortTexts
    <3> QED
      BY <1>10, <3>1, <3>2, <3>3
  <2>3. CASE ending = <<>>
    BY <1>9, <2>3, ShortTexts
  <2> QED
    BY <1>1, <2>1, <2>2, <2>3 DEF Endings
<1>12. n = w
  BY <1>2, <1>3, <1>11
<1>X. \A k \in 1 .. n : buf[k] = Written[k]
  BY <1>1, <1>2, <1>12
<1>14. buf = Written
  BY <1>1, <1>2, <1>12, <1>X, SameText DEF n, w
<1> QED
  BY <1>11, <1>14

\* Without its end it is what the peer hashed, but for a CR in front of a bare LF.
LEMMA StrippedLine ==
  ASSUME own \in Text, ending \in Endings, ending # <<>>, NEW u, u = Stripped(Written)
  PROVE  /\ u \in Text
         /\ ending = CRLF => u = own
         /\ u = own \/ (Len(u) = Len(own) - 1 /\ own[Len(own)] = "CR")
         /\ \A k \in 1 .. Len(u) : u[k] = own[k]
<1> DEFINE o == Len(own)
           w == Len(Written)
<1>1. /\ Written \in Text /\ w = o + Len(ending) /\ o \in Nat /\ w \in Nat
      /\ \A k \in 1 .. o : Written[k] = own[k]
      /\ \A k \in 1 .. Len(ending) : Written[o + k] = ending[k]
  BY StreamIs, TextType
<1>2. /\ u \in Text
      /\ w >= 2 /\ Written[w - 1] = "CR" /\ Written[w] = "LF" => Len(u) = w - 2
      /\ w >= 1 /\ Written[w] = "LF" /\ ~(w >= 2 /\ Written[w - 1] = "CR") => Len(u) = w - 1
      /\ \A k \in 1 .. Len(u) : u[k] = Written[k]
  <2>1. Written \in Text
    BY <1>1
  <2>2. u = StripLineEnd(Written)
    BY DEF Stripped
  <2>3. w = Len(Written)
    OBVIOUS
  <2> HIDE DEF o, w
  <2> QED
    <3>1. /\ u \in Text
          /\ w >= 2 /\ Written[w - 1] = "CR" /\ Written[w] = "LF" => Len(u) = w - 2
          /\ w >= 1 /\ Written[w] = "LF" /\ ~(w >= 2 /\ Written[w - 1] = "CR") => Len(u) = w - 1
          /\ ~(w >= 1 /\ Written[w] = "LF") => u = Written
          /\ Len(u) \in 0 .. w
          /\ \A k \in 1 .. Len(u) : u[k] = Written[k]
      BY ONLY <2>1, <2>2, <2>3, Stripping
    <3> QED
      BY ONLY <3>1
<1> HIDE DEF o, w
<1>3. CASE ending = CRLF
  <2>1. w = o + 2 /\ Written[o + 1] = "CR" /\ Written[o + 2] = "LF"
    BY <1>1, <1>3, ShortTexts
  <2>2. w - 1 = o + 1 /\ w >= 2
    BY <1>1, <2>1
  <2>3. Len(u) = o
    BY <1>1, <1>2, <2>1, <2>2
  <2>4. \A k \in 1 .. Len(u) : u[k] = own[k]
    BY <1>1, <1>2, <2>3
  <2>5. u = own
    BY <1>2, <2>3, <2>4, SameText DEF o
  <2> QED
    BY <1>2, <2>4, <2>5
<1>4. CASE ending = <<"LF">>
  <2>1. w = o + 1 /\ Written[w] = "LF" /\ w >= 1 /\ w - 1 = o
    BY <1>1, <1>4, ShortTexts
  <2>2. ending # CRLF
    BY <1>4, ShortTexts
  <2>3. CASE w >= 2 /\ Written[w - 1] = "CR"
    <3>1. Len(u) = o - 1 /\ own[o] = "CR" /\ o >= 1
      BY <1>1, <1>2, <2>1, <2>3
    <3>2. \A k \in 1 .. Len(u) : u[k] = own[k]
      BY <1>1, <1>2, <3>1
    <3> QED
      BY <1>2, <2>2, <3>1, <3>2 DEF o
  <2>4. CASE ~(w >= 2 /\ Written[w - 1] = "CR")
    <3>1. Len(u) = o
      BY <1>1, <1>2, <2>1, <2>4
    <3>2. \A k \in 1 .. Len(u) : u[k] = own[k]
      BY <1>1, <1>2, <3>1
    <3>3. u = own
      BY <1>2, <3>1, <3>2, SameText DEF o
    <3> QED
      BY <1>2, <2>2, <3>2, <3>3
  <2> QED
    BY <2>3, <2>4
<1> QED
  BY <1>3, <1>4 DEF Endings

\* The CR is not one of the prefix.
LEMMA SameStart ==
  ASSUME own \in Text, ending \in Endings, ending # <<>>
  PROVE  IsPrefix(Prefix, Stripped(Written)) <=> IsPrefix(Prefix, own)
<1> DEFINE u == Stripped(Written)
           o == Len(own)
<1>1. /\ u \in Text
      /\ u = own \/ (Len(u) = o - 1 /\ own[o] = "CR")
      /\ \A k \in 1 .. Len(u) : u[k] = own[k]
  BY StrippedLine
<1>2. Len(u) \in Nat /\ o \in Nat /\ PrefixLen \in Nat
  BY <1>1, TextType, PrefixType
<1> HIDE DEF u, o
<1> SUFFICES ASSUME Len(u) = o - 1, own[o] = "CR"
             PROVE  IsPrefix(Prefix, u) <=> IsPrefix(Prefix, own)
  BY <1>1 DEF u
<1>3. IsPrefix(Prefix, u) <=> PrefixLen <= o - 1 /\ \A k \in 1 .. PrefixLen : u[k] = "S"
  BY <1>1, StartsRight
<1>4. IsPrefix(Prefix, own) <=> PrefixLen <= o /\ \A k \in 1 .. PrefixLen : own[k] = "S"
  BY StartsRight DEF o
<1>5. CASE PrefixLen <= o - 1
  <2>1. \A k \in 1 .. PrefixLen : u[k] = own[k]
    BY <1>1, <1>2, <1>5
  <2> QED
    BY <1>2, <1>3, <1>4, <1>5, <2>1
<1>6. CASE ~(PrefixLen <= o - 1)
  <2>1. ~IsPrefix(Prefix, own)
    <3> SUFFICES ASSUME PrefixLen <= o, \A k \in 1 .. PrefixLen : own[k] = "S"
                 PROVE  FALSE
      BY <1>4
    <3>1. PrefixLen = o
      BY <1>2, <1>6
    <3>2. o >= 1
      BY <1>2
    <3> QED
      BY <1>2, <3>1, <3>2
  <2> QED
    BY <1>3, <1>6, <2>1
<1> QED
  BY <1>5, <1>6

\* The two ends hash the same string, CRs and spaces included, and packets are
\* read from the first byte of theirs on (read_identification_string in
\* pkg/mod.rs, receive_proto_version of client.rs and server.rs).
THEOREM BothHashTheLine == Spec => []BothHashTheSame
<1>1. ASSUME LineInv
      PROVE  BothHashTheSame
  <2> SUFFICES ASSUME outcome = "Ok", ending = CRLF, ~Has("LF", own)
               PROVE  line = own /\ buf = Written
    BY DEF BothHashTheSame
  <2>1. Len(buf) >= 1 /\ buf[Len(buf)] = "LF" /\ line = Stripped(buf)
    BY <1>1 DEF LineInv
  <2>2. buf = Written
    BY <1>1, <2>1, WholeLine
  <2>3. own \in Text /\ ending \in Endings /\ ending # <<>>
    BY <1>1, ShortTexts DEF LineInv
  <2>4. Stripped(Written) = own
    BY <2>3, StrippedLine
  <2> QED
    BY <2>1, <2>2, <2>4
<1> QED
  BY <1>1, LineInitially, LineInductive, PTL DEF Spec

\* A line is refused exactly if it is too long by its last byte, not UTF-8 or
\* starts wrong (read_identification_string in pkg/mod.rs).
THEOREM RefusedOnlyForCause == Spec => []RefusedForCause
<1>1. ASSUME LineInv
      PROVE  RefusedForCause
  <2> DEFINE good == /\ Utf8(Written) /\ IsPrefix(Prefix, own)
                     /\ ending # <<>> /\ Len(Written) <= MaxLine + 1
  <2> SUFFICES ASSUME ~Has("LF", own)
               PROVE  /\ outcome = "refused" => ~good
                      /\ outcome = "Ok" => good
    BY DEF RefusedForCause
  <2>1. /\ own \in Text /\ ending \in Endings /\ buf \in Text /\ Len(buf) <= MaxLine + 1
        /\ \A k \in 1 .. Len(buf) : buf[k] = stream[k]
        /\ \A k \in 1 .. (Len(buf) - 1) : buf[k] # "LF"
    BY <1>1 DEF LineInv
  <2>2. ASSUME Len(buf) >= 1, buf[Len(buf)] = "LF"
        PROVE  Acceptable(buf) <=> good
    <3>1. ending # <<>> /\ buf = Written
      BY <1>1, <2>2, WholeLine
    <3>2. IsPrefix(Prefix, Stripped(Written)) <=> IsPrefix(Prefix, own)
      BY <2>1, <3>1, SameStart
    <3> QED
      BY <2>1, <3>1, <3>2 DEF Acceptable
  <2>3. ASSUME Len(buf) >= 1, buf[Len(buf)] # "LF", Len(buf) = MaxLine + 1
        PROVE  ~good
    <3> SUFFICES ASSUME ending # <<>>, Len(Written) <= MaxLine + 1
                 PROVE  FALSE
      OBVIOUS
    <3> DEFINE w == Len(Written)
    <3>1. /\ Written \in Text /\ w = Len(own) + Len(ending)
          /\ \A k \in 1 .. Len(ending) : Written[Len(own) + k] = ending[k]
          /\ \A k \in 1 .. w : stream[k] = Written[k]
      BY <2>1, StreamIs
    <3>2. Len(own) \in Nat /\ Len(ending) \in 1 .. 2 /\ ending[Len(ending)] = "LF"
      <4>1. Len(own) \in Nat
        BY <2>1, TextType
      <4>2. CASE ending = CRLF
        <5>1. Len(ending) = 2 /\ ending[2] = "LF"
          BY <4>2, ShortTexts
        <5> QED
          BY <4>1, <5>1
      <4>3. CASE ending = <<"LF">>
        <5>1. Len(ending) = 1 /\ ending[1] = "LF"
          BY <4>3, ShortTexts
        <5> QED
          BY <4>1, <5>1
      <4> QED
        BY <2>1, <4>2, <4>3 DEF Endings
    <3> HIDE DEF w
    <3>3. w \in 1 .. w /\ w <= Len(buf) /\ Len(ending) \in 1 .. Len(ending)
      BY <2>3, <3>1, <3>2 DEF w
    <3>4. stream[w] = "LF"
      BY <3>1, <3>2, <3>3
    <3>5. Len(buf) \in Nat
      BY <2>1, TextType
    <3>6. buf[w] = "LF"
      BY <2>1, <3>1, <3>2, <3>3, <3>4, <3>5
    <3>7. w = Len(buf) \/ w \in 1 .. (Len(buf) - 1)
      BY <3>1, <3>2, <3>3, <3>5
    <3> QED
      BY <2>1, <2>3, <3>6, <3>7
  <2> HIDE DEF good
  <2>4. outcome = "refused" => ~good
    BY <1>1, <2>2, <2>3 DEF LineInv
  <2>5. outcome = "Ok" => good
    BY <1>1, <2>2 DEF LineInv
  <2> QED
    BY <2>4, <2>5
<1> QED
  BY <1>1, LineInitially, LineInductive, PTL DEF Spec
-----------------------------------------------------------------------------
\* Taking the line apart.

\* Joining texts is associative.
LEMMA JoinAssociates ==
  ASSUME NEW s \in Text, NEW t \in Text, NEW v \in Text
  PROVE  (s \o t) \o v = s \o (t \o v)
BY ConcatAssociative DEF Text

\* A character of two texts is one of the first or of the second.
LEMMA HasOfJoin ==
  ASSUME NEW s \in Text, NEW t \in Text, NEW char
  PROVE  Has(char, s \o t) <=> Has(char, s) \/ Has(char, t)
<1>1. /\ Len(s) \in Nat /\ Len(t) \in Nat
      /\ Len(s \o t) = Len(s) + Len(t)
      /\ \A k \in 1 .. Len(s) : (s \o t)[k] = s[k]
      /\ \A k \in 1 .. Len(t) : (s \o t)[Len(s) + k] = t[k]
  BY JoinOfText, TextType
<1>2. ASSUME Has(char, s)
      PROVE  Has(char, s \o t)
  <2>1. PICK k \in 1 .. Len(s) : s[k] = char
    BY <1>2 DEF Has
  <2>2. k \in 1 .. Len(s \o t) /\ (s \o t)[k] = char
    BY <1>1, <2>1
  <2> QED
    BY <2>2 DEF Has
<1>3. ASSUME Has(char, t)
      PROVE  Has(char, s \o t)
  <2>1. PICK k \in 1 .. Len(t) : t[k] = char
    BY <1>3 DEF Has
  <2>2. Len(s) + k \in 1 .. Len(s \o t) /\ (s \o t)[Len(s) + k] = char
    BY <1>1, <2>1
  <2> QED
    BY <2>2 DEF Has
<1>4. ASSUME Has(char, s \o t)
      PROVE  Has(char, s) \/ Has(char, t)
  <2>1. PICK k \in 1 .. Len(s \o t) : (s \o t)[k] = char
    BY <1>4 DEF Has
  <2>2. CASE k \in 1 .. Len(s)
    BY <1>1, <2>1, <2>2 DEF Has
  <2>3. CASE k \notin 1 .. Len(s)
    <3>1. k - Len(s) \in 1 .. Len(t) /\ Len(s) + (k - Len(s)) = k
      BY <1>1, <2>1, <2>3
    <3>2. t[k - Len(s)] = char
      BY <1>1, <2>1, <3>1
    <3> QED
      BY <3>1, <3>2 DEF Has
  <2> QED
    BY <2>2, <2>3
<1> QED
  BY <1>2, <1>3, <1>4

\* What is left of two texts without the first is the second.
LEMMA RestOfJoin ==
  ASSUME NEW s \in Text, NEW t \in Text
  PROVE  /\ From(s \o t, Len(s) + 1) = t
         /\ SubSeq(s \o t, 1, Len(s)) = s
<1> DEFINE j == s \o t
           r == From(j, Len(s) + 1)
           b == SubSeq(j, 1, Len(s))
<1>1. /\ Len(s) \in Nat /\ Len(t) \in Nat
      /\ j \in Text /\ Len(j) = Len(s) + Len(t)
      /\ \A k \in 1 .. Len(s) : j[k] = s[k]
      /\ \A k \in 1 .. Len(t) : j[Len(s) + k] = t[k]
  BY JoinOfText, TextType
<1> HIDE DEF j
<1>2. b \in Text /\ Len(b) = Len(s) /\ \A k \in 1 .. Len(s) : b[k] = j[k]
  <2>1. Len(s) \in 0 .. Len(j)
    BY <1>1
  <2> QED
    BY <1>1, <2>1, BeginningOfText
<1>3. /\ r \in Text
      /\ Len(r) = IF Len(s) + 1 <= Len(j) THEN Len(j) - (Len(s) + 1) + 1 ELSE 0
      /\ \A k \in 1 .. (Len(j) - (Len(s) + 1) + 1) : r[k] = j[(Len(s) + 1) + k - 1]
  <2>1. Len(s) + 1 \in Nat \ {0} /\ Len(j) \in Nat /\ Len(j) <= Len(j)
    BY <1>1
  <2> QED
    BY <1>1, <2>1, PartOfText DEF From
<1>4. /\ Len(j) - (Len(s) + 1) + 1 = Len(t)
      /\ Len(s) + 1 <= Len(j) \/ Len(t) = 0
      /\ \A k \in 1 .. Len(t) : (Len(s) + 1) + k - 1 = Len(s) + k
  BY <1>1
<1> HIDE DEF r, b
<1>5. Len(r) = Len(t) /\ \A k \in 1 .. Len(t) : r[k] = j[Len(s) + k]
  BY <1>1, <1>3, <1>4
<1>6. r = t
  BY <1>1, <1>3, <1>5, SameText
<1>7. b = s
  BY <1>1, <1>2, SameText
<1> QED
  BY <1>6, <1>7 DEF r, b, j

\* A text is its beginning and the rest.
LEMMA SplitText ==
  ASSUME NEW t \in Text, NEW m \in 0 .. Len(t)
  PROVE  /\ SubSeq(t, 1, m) \in Text /\ From(t, m + 1) \in Text
         /\ Len(SubSeq(t, 1, m)) = m
         /\ SubSeq(t, 1, m) \o From(t, m + 1) = t
<1> DEFINE b == SubSeq(t, 1, m)
           r == From(t, m + 1)
<1>1. Len(t) \in Nat /\ m \in Nat /\ m <= Len(t)
  BY TextType
<1>2. b \in Text /\ Len(b) = m /\ \A k \in 1 .. m : b[k] = t[k]
  BY BeginningOfText
<1>3. /\ r \in Text
      /\ Len(r) = IF m + 1 <= Len(t) THEN Len(t) - (m + 1) + 1 ELSE 0
      /\ \A k \in 1 .. (Len(t) - (m + 1) + 1) : r[k] = t[(m + 1) + k - 1]
  <2>1. m + 1 \in Nat \ {0} /\ Len(t) \in Nat /\ Len(t) <= Len(t)
    BY <1>1
  <2> QED
    BY <2>1, PartOfText DEF From
<1> HIDE DEF b, r
<1>4. /\ Len(t) - (m + 1) + 1 = Len(t) - m /\ (m + 1 <= Len(t) \/ Len(t) - m = 0)
      /\ \A k \in 1 .. (Len(t) - m) : (m + 1) + k - 1 = m + k
  BY <1>1
<1>5. Len(r) = Len(t) - m /\ \A k \in 1 .. (Len(t) - m) : r[k] = t[m + k]
  BY <1>1, <1>3, <1>4
<1> DEFINE j == b \o r
           n == Len(t) - m
<1>6. /\ j \in Text /\ Len(j) = Len(b) + Len(r)
      /\ \A k \in 1 .. Len(b) : j[k] = b[k]
      /\ \A k \in 1 .. Len(r) : j[Len(b) + k] = r[k]
  BY <1>2, <1>3, JoinOfText
<1> HIDE DEF j
<1>7. Len(r) = n /\ n \in Nat /\ m + n = Len(t) /\ \A k \in 1 .. n : r[k] = t[m + k]
  BY <1>1, <1>5
<1> HIDE DEF n
<1>8. \A k \in 1 .. Len(t) : j[k] = t[k]
  <2> TAKE k \in 1 .. Len(t)
  <2>1. CASE k \in 1 .. m
    BY <1>2, <1>6, <2>1
  <2>2. CASE k \notin 1 .. m
    <3> DEFINE l == k - m
    <3>1. l \in 1 .. n /\ m + l = k
      BY <1>1, <1>7, <2>2
    <3> HIDE DEF l
    <3>2. j[m + l] = r[l] /\ r[l] = t[m + l]
      BY <1>2, <1>6, <1>7, <3>1
    <3> QED
      BY <3>1, <3>2
  <2> QED
    BY <2>1, <2>2
<1>9. Len(j) = Len(t)
  BY <1>2, <1>6, <1>7
<1>10. j = t
  BY <1>6, <1>8, <1>9, SameText
<1> QED
  BY <1>2, <1>3, <1>10 DEF b, r, j

\* A text that starts right is the prefix and the rest.
LEMMA SplitPrefix ==
  ASSUME NEW t \in Text, IsPrefix(Prefix, t)
  PROVE  From(t, PrefixLen + 1) \in Text /\ Prefix \o From(t, PrefixLen + 1) = t
<1>1. /\ PrefixLen <= Len(t) /\ \A k \in 1 .. PrefixLen : t[k] = "S"
      /\ PrefixLen \in Nat /\ Len(t) \in Nat
  BY StartsRight, PrefixType, TextType
<1>2. PrefixLen \in 0 .. Len(t)
  BY <1>1
<1> DEFINE b == SubSeq(t, 1, PrefixLen)
<1>3. /\ b \in Text /\ Len(b) = PrefixLen /\ \A k \in 1 .. PrefixLen : b[k] = t[k]
      /\ From(t, PrefixLen + 1) \in Text
      /\ b \o From(t, PrefixLen + 1) = t
  BY <1>2, SplitText, BeginningOfText
<1> HIDE DEF b
<1>4. b = Prefix
  <2>1. Len(b) = Len(Prefix) /\ \A k \in 1 .. Len(b) : b[k] = Prefix[k]
    BY <1>1, <1>3, PrefixType
  <2> QED
    BY <1>3, <2>1, PrefixType, SameText
<1> QED
  BY <1>3, <1>4

\* The first space.
LEMMA FirstSpaceIs ==
  ASSUME NEW t \in Text, Spaces(t) # {}
  PROVE  /\ FirstSpace(t) \in 1 .. Len(t) /\ t[FirstSpace(t)] = "space"
         /\ \A k \in 1 .. (FirstSpace(t) - 1) : t[k] # "space"
<1>1. Spaces(t) \in SUBSET Nat /\ Len(t) \in Nat
  BY TextType DEF Spaces
<1>2. \E k \in Spaces(t) : \A l \in Spaces(t) : k <= l
  BY <1>1, LeastNatural
<1>3. FirstSpace(t) \in Spaces(t) /\ \A l \in Spaces(t) : FirstSpace(t) <= l
  BY <1>2 DEF FirstSpace
<1> DEFINE f == FirstSpace(t)
<1>4. f \in 1 .. Len(t) /\ t[f] = "space"
  BY <1>3 DEF Spaces
<1> HIDE DEF f
<1>5. ASSUME NEW k \in 1 .. (f - 1), t[k] = "space"
      PROVE  FALSE
  <2>1. k \in 1 .. Len(t)
    BY <1>1, <1>4
  <2>2. k \in Spaces(t)
    BY <1>5, <2>1 DEF Spaces
  <2>3. f <= k
    BY <1>3, <2>2 DEF f
  <2> QED
    BY <1>1, <1>4, <2>3
<1> QED
  BY <1>4, <1>5 DEF f

\* So a text with a space is what is before the first, the space, and the rest.
LEMMA SplitAtSpace ==
  ASSUME NEW t \in Text, Spaces(t) # {}, NEW s, NEW c,
         s = SubSeq(t, 1, FirstSpace(t) - 1), c = From(t, FirstSpace(t) + 1)
  PROVE  /\ s \in Text /\ c \in Text /\ t = s \o (<<"space">> \o c)
         /\ ~Has("space", s)
         /\ s = <<>> => t[1] = "space"
<1> DEFINE f == FirstSpace(t)
           r == From(t, f)
<1>1. /\ f \in 1 .. Len(t) /\ t[f] = "space" /\ Len(t) \in Nat
      /\ \A k \in 1 .. (f - 1) : t[k] # "space"
  BY FirstSpaceIs, TextType
<1>2. s = SubSeq(t, 1, f - 1) /\ c = From(t, f + 1)
  OBVIOUS
<1> HIDE DEF f
<1>3. f - 1 \in 0 .. Len(t) /\ (f - 1) + 1 = f /\ f \in 0 .. Len(t)
  BY <1>1
<1>4. /\ s \in Text /\ Len(s) = f - 1 /\ r \in Text /\ s \o r = t
  BY <1>2, <1>3, SplitText
<1>5. \A k \in 1 .. (f - 1) : s[k] = t[k]
  BY <1>2, <1>3, BeginningOfText
<1>6. c \in Text
  BY <1>2, <1>3, SplitText
<1> HIDE DEF r
<1>7. /\ Len(r) \in Nat /\ Len(s) \in Nat /\ Len(t) = Len(s) + Len(r)
      /\ \A k \in 1 .. Len(r) : t[Len(s) + k] = r[k]
  <2>1. /\ Len(r) \in Nat /\ Len(s) \in Nat /\ Len(s \o r) = Len(s) + Len(r)
        /\ \A k \in 1 .. Len(r) : (s \o r)[Len(s) + k] = r[k]
    BY <1>4, JoinOfText, TextType
  <2> QED
    BY <1>4, <2>1
<1>8. 1 \in 0 .. Len(r) /\ 1 \in 1 .. Len(r) /\ r[1] = "space"
  <2>1. 1 \in 0 .. Len(r) /\ 1 \in 1 .. Len(r) /\ Len(s) + 1 = f
    BY ONLY <1>1, <1>4, <1>7
  <2>2. t[Len(s) + 1] = r[1]
    BY <1>7, <2>1
  <2> QED
    BY ONLY <1>1, <2>1, <2>2
<1>9. SubSeq(r, 1, 1) = <<"space">>
  <2>1. SubSeq(r, 1, 1) \in Text /\ Len(SubSeq(r, 1, 1)) = 1 /\ SubSeq(r, 1, 1)[1] = "space"
    BY <1>4, <1>8, BeginningOfText
  <2>2. \A k \in 1 .. 1 : SubSeq(r, 1, 1)[k] = <<"space">>[k]
    BY <2>1, ShortTexts
  <2> QED
    BY <2>1, <2>2, ShortTexts, SameText
<1>10. From(r, 1 + 1) = c
  <2> DEFINE d == From(r, 1 + 1)
  <2>1. d \in Text /\ <<"space">> \o d = r
    BY <1>4, <1>8, <1>9, SplitText
  <2>2. t = s \o (<<"space">> \o d)
    BY <1>4, <2>1
  <2> HIDE DEF d
  <2> DEFINE space == <<"space">>
  <2>3. space \in Text /\ Len(space) = 1 /\ t = s \o (space \o d)
    BY <2>2, ShortTexts
  <2> HIDE DEF space
  <2> DEFINE u == s \o space
  <2>4. u \in Text /\ Len(u) = Len(s) + Len(space)
    BY <1>4, <2>3, JoinOfText
  <2>5. u \o d = s \o (space \o d)
    <3>1. s \in Text /\ space \in Text /\ d \in Text
      BY <1>4, <2>1, <2>3
    <3> QED
      BY ONLY <3>1, JoinAssociates
  <2> HIDE DEF u
  <2>6. From(t, Len(u) + 1) = d
    BY <2>1, <2>3, <2>4, <2>5, RestOfJoin
  <2>7. Len(u) + 1 = f + 1
    BY <1>1, <1>4, <2>3, <2>4
  <2> QED
    BY <1>2, <2>6, <2>7 DEF d
<1>11. t = s \o (<<"space">> \o c)
  <2>1. SubSeq(r, 1, 1) \o From(r, 1 + 1) = r
    BY <1>4, <1>8, SplitText
  <2> QED
    BY <1>4, <1>9, <1>10, <2>1
<1>12. ~Has("space", s)
  BY <1>1, <1>4, <1>5 DEF Has
<1>13. s = <<>> => t[1] = "space"
  <2> SUFFICES ASSUME s = <<>>
               PROVE  t[1] = "space"
    OBVIOUS
  <2>1. Len(s) = 0
    BY ShortTexts
  <2>2. f = 1
    BY ONLY <1>1, <1>4, <2>1
  <2> QED
    BY <1>1, <2>2
<1> QED
  BY <1>4, <1>6, <1>11, <1>12, <1>13
\* What ProtoVersion::new refuses, and what it makes of the rest.
Refused(software, comments) ==
  \/ software = <<>>
  \/ \E char \in {"space", "CR", "LF"} : Has(char, software)
  \/ comments # None /\ \E char \in {"CR", "LF"} : Has(char, comments[1])

\* What new returns.
LEMMA NewIs ==
  ASSUME NEW software, NEW comments
  PROVE  /\ Refused(software, comments) => new(software, comments) = Err
         /\ ~Refused(software, comments) =>
              /\ new(software, comments) = [software |-> software, comments |-> comments]
              /\ new(software, comments) # Err
<1>1. CASE Refused(software, comments)
  BY <1>1 DEF new, Refused
<1>2. CASE ~Refused(software, comments)
  <2>1. new(software, comments) = [software |-> software, comments |-> comments]
    BY <1>2 DEF new, Refused
  <2>2. new(software, comments).software = software /\ Err.software = <<>>
    BY <2>1 DEF Err
  <2>3. software # <<>>
    BY <1>2 DEF Refused
  <2> QED
    BY <1>2, <2>1, <2>2, <2>3
<1> QED
  BY <1>1, <1>2

\* What from_bytes makes of a line that starts right.
LEMMA FromBytesIs ==
  ASSUME NEW t, NEW u, u = StripLineEnd(t), Utf8(t), IsPrefix(Prefix, u),
         NEW rest, rest = From(u, PrefixLen + 1)
  PROVE  /\ Spaces(rest) = {} => from_bytes(t) = new(rest, None)
         /\ Spaces(rest) # {} =>
              from_bytes(t) = new(SubSeq(rest, 1, FirstSpace(rest) - 1),
                                  Comments(From(rest, FirstSpace(rest) + 1)))
BY DEF from_bytes

\* Comments as an Option.
LEMMA OptionIs ==
  /\ \A c : Some(c) # None /\ Some(c)[1] = c
  /\ \A c : Comments(c) = IF c = <<>> THEN None ELSE Some(c)
BY DEF Some, None, Comments

\* The identification string that is written for a version.
LEMMA StringIs ==
  ASSUME NEW software, NEW comments
  PROVE  LET v == [software |-> software, comments |-> comments]
         IN  /\ comments = None => identification_string(v) = (Prefix \o software) \o <<>>
             /\ comments # None =>
                  identification_string(v) = (Prefix \o software) \o (<<"space">> \o comments[1])
BY DEF identification_string

\* The two parsers of the line agree but for a comment that is empty, and
\* ProtoVersion refuses only an empty version and a CR (from_bytes of
\* protoversion.rs, read_identification_string in pkg/mod.rs).
THEOREM ParsersAlwaysAgree == Spec => []ParsersAgree
<1>1. ASSUME LineInv
      PROVE  ParsersAgree
  <2> DEFINE v == from_bytes(buf)
             rest == From(line, PrefixLen + 1)
  <2> SUFFICES ASSUME outcome = "Ok"
               PROVE  IF v = Err
                      THEN rest = <<>> \/ rest[1] = "space" \/ Has("CR", rest)
                      ELSE \/ identification_string(v) = line
                           \/ identification_string(v) \o <<"space">> = line /\ v.comments = None
    BY DEF ParsersAgree
  <2>1. /\ buf \in Text /\ Len(buf) >= 1 /\ buf[Len(buf)] = "LF"
        /\ \A k \in 1 .. (Len(buf) - 1) : buf[k] # "LF"
        /\ Utf8(buf) /\ IsPrefix(Prefix, line) /\ line = StripLineEnd(buf)
    BY <1>1 DEF LineInv, Acceptable, Stripped
  <2>2. /\ line \in Text /\ Len(line) \in Nat /\ Len(line) <= Len(buf) - 1
        /\ \A k \in 1 .. Len(line) : line[k] = buf[k]
    <3> DEFINE n == Len(buf)
    <3>1. n \in Nat /\ n >= 1 /\ buf[n] = "LF"
      BY <2>1, TextType
    <3>2. /\ line \in Text
          /\ n >= 2 /\ buf[n - 1] = "CR" /\ buf[n] = "LF" => Len(line) = n - 2
          /\ n >= 1 /\ buf[n] = "LF" /\ ~(n >= 2 /\ buf[n - 1] = "CR") => Len(line) = n - 1
          /\ Len(line) \in 0 .. n
          /\ \A k \in 1 .. Len(line) : line[k] = buf[k]
      BY <2>1, Stripping
    <3> HIDE DEF n
    <3>3. Len(line) \in Nat /\ Len(line) <= n - 1
      BY <3>1, <3>2
    <3> QED
      BY <3>2, <3>3 DEF n
  <2>3. ~Has("LF", line)
    <3> SUFFICES ASSUME NEW k \in 1 .. Len(line)
                 PROVE  line[k] # "LF"
      BY DEF Has
    <3>1. Len(buf) \in Nat
      BY <2>1, TextType
    <3>2. k \in 1 .. (Len(buf) - 1)
      BY <2>2, <3>1
    <3> QED
      BY <2>1, <2>2, <3>2
  <2>4. rest \in Text /\ Prefix \o rest = line
    BY <2>1, <2>2, SplitPrefix
  <2>5. ~Has("LF", rest)
    <3> HIDE DEF rest
    <3>1. Has("LF", Prefix \o rest) <=> Has("LF", Prefix) \/ Has("LF", rest)
      BY <2>4, HasOfJoin, PrefixType
    <3> QED
      BY <2>3, <2>4, <3>1
  <2>6. /\ Spaces(rest) = {} => v = new(rest, None)
        /\ Spaces(rest) # {} =>
             v = new(SubSeq(rest, 1, FirstSpace(rest) - 1),
                     Comments(From(rest, FirstSpace(rest) + 1)))
    BY <2>1, FromBytesIs
  <2> HIDE DEF v, rest
  <2>7. CASE Spaces(rest) = {}
    <3>1. ~Has("space", rest)
      BY <2>7 DEF Spaces, Has
    <3>2. CASE Refused(rest, None)
      <4>1. rest = <<>> \/ Has("CR", rest)
        BY <2>5, <3>1, <3>2 DEF Refused
      <4>2. v = Err
        BY <2>6, <2>7, <3>2, NewIs
      <4> QED
        BY <4>1, <4>2
    <3>3. CASE ~Refused(rest, None)
      <4>1. v = [software |-> rest, comments |-> None] /\ v # Err
        BY <2>6, <2>7, <3>3, NewIs
      <4>2. identification_string(v) = (Prefix \o rest) \o <<>>
        BY <4>1, StringIs
      <4>3. identification_string(v) = line
        BY <2>2, <2>4, <4>2, ConcatEmptySeq DEF Text
      <4> QED
        BY <4>1, <4>3
    <3> QED
      BY <3>2, <3>3
  <2>8. CASE Spaces(rest) # {}
    <3> DEFINE s == SubSeq(rest, 1, FirstSpace(rest) - 1)
               c == From(rest, FirstSpace(rest) + 1)
               space == <<"space">>
    <3>1. /\ s \in Text /\ c \in Text /\ rest = s \o (space \o c)
          /\ ~Has("space", s)
          /\ s = <<>> => rest[1] = "space"
      BY <2>4, <2>8, SplitAtSpace
    <3>2. v = new(s, Comments(c))
      BY <2>6, <2>8
    <3>3. space \in Text
      BY ShortTexts
    <3> HIDE DEF s, c
    <3>4. /\ space \o c \in Text
          /\ \A char : Has(char, s) \/ Has(char, c) => Has(char, rest)
      <4>1. space \o c \in Text
        BY <3>1, <3>3, JoinOfText
      <4>2. \A char : Has(char, space \o c) <=> Has(char, space) \/ Has(char, c)
        BY <3>1, <3>3, HasOfJoin
      <4>3. \A char : Has(char, rest) <=> Has(char, s) \/ Has(char, space \o c)
        BY <3>1, <4>1, HasOfJoin
      <4> QED
        BY <4>1, <4>2, <4>3
    <3>5. line = (Prefix \o s) \o (space \o c)
      <4>1. Prefix \in Text /\ s \in Text /\ (space \o c) \in Text
        BY <3>1, <3>4, PrefixType
      <4>2. Prefix \o (s \o (space \o c)) = (Prefix \o s) \o (space \o c)
        BY ONLY <4>1, JoinAssociates
      <4> QED
        BY <2>4, <3>1, <4>2
    <3>6. CASE Refused(s, Comments(c))
      <4>1. v = Err
        BY <3>2, <3>6, NewIs
      <4>2. \/ s = <<>>
            \/ \E char \in {"space", "CR", "LF"} : Has(char, s)
            \/ Comments(c) # None /\ \E char \in {"CR", "LF"} : Has(char, Comments(c)[1])
        BY <3>6 DEF Refused
      <4>3. CASE s = <<>>
        BY <3>1, <4>1, <4>3
      <4>4. CASE \E char \in {"space", "CR", "LF"} : Has(char, s)
        <5>1. Has("CR", rest)
          BY <2>5, <3>1, <3>4, <4>4
        <5> QED
          BY <4>1, <5>1
      <4>5. CASE Comments(c) # None /\ \E char \in {"CR", "LF"} : Has(char, Comments(c)[1])
        <5>1. Comments(c)[1] = c
          BY <4>5, OptionIs
        <5>2. Has("CR", rest)
          BY <2>5, <3>4, <4>5, <5>1
        <5> QED
          BY <4>1, <5>2
      <4> QED
        BY <4>2, <4>3, <4>4, <4>5
    <3>7. CASE ~Refused(s, Comments(c))
      <4>1. v = [software |-> s, comments |-> Comments(c)] /\ v # Err
        BY <3>2, <3>7, NewIs
      <4>2. CASE c = <<>>
        <5>1. Comments(c) = None /\ v.comments = None
          BY <4>1, <4>2, OptionIs
        <5>2. identification_string(v) = (Prefix \o s) \o <<>>
          BY <4>1, <5>1, StringIs
        <5>3. Prefix \o s \in Text
          BY <3>1, PrefixType, JoinOfText
        <5>4. identification_string(v) = Prefix \o s
          BY <5>2, <5>3, ConcatEmptySeq DEF Text
        <5>5. space \o c = space
          BY <3>3, <4>2, ConcatEmptySeq DEF Text
        <5>6. identification_string(v) \o space = line
          BY <3>5, <5>4, <5>5
        <5> QED
          BY <4>1, <5>1, <5>6
      <4>3. CASE c # <<>>
        <5>1. Comments(c) # None /\ Comments(c)[1] = c
          BY <4>3, OptionIs
        <5>2. identification_string(v) = (Prefix \o s) \o (space \o c)
          BY <4>1, <5>1, StringIs
        <5> QED
          BY <3>5, <4>1, <5>2
      <4> QED
        BY <4>2, <4>3
    <3> QED
      BY <3>6, <3>7
  <2> QED
    BY <2>7, <2>8
<1> QED
  BY <1>1, LineInitially, LineInductive, PTL DEF Spec
-----------------------------------------------------------------------------
\* Over the wire and back.

\* A version's line, as to_bytes writes it.
LEMMA WrittenVersion ==
  ASSUME NEW body \in Text, NEW id, id = Prefix \o body, Utf8(body)
  PROVE  /\ id \in Text /\ IsPrefix(Prefix, id) /\ From(id, PrefixLen + 1) = body
         /\ Utf8(id \o CRLF) /\ StripLineEnd(id \o CRLF) = id
<1>1. /\ id \in Text /\ Len(id) = PrefixLen + Len(body)
      /\ \A k \in 1 .. PrefixLen : id[k] = Prefix[k]
  BY PrefixType, JoinOfText
<1>2. PrefixLen \in Nat /\ Len(body) \in Nat /\ Len(id) \in Nat
  BY <1>1, PrefixType, TextType
<1>3. IsPrefix(Prefix, id)
  <2>1. PrefixLen <= Len(id)
    BY <1>1, <1>2
  <2>2. \A k \in 1 .. PrefixLen : id[k] = "S"
    BY <1>1, PrefixType
  <2>3. id \in Text
    BY <1>1
  <2> QED
    BY ONLY <2>1, <2>2, <2>3, StartsRight
<1>4. From(id, PrefixLen + 1) = body
  BY PrefixType, RestOfJoin
<1>5. CRLF \in Text
  BY ShortTexts
<1> DEFINE bytes == id \o CRLF
           n == Len(bytes)
           u == StripLineEnd(bytes)
<1>6. /\ bytes \in Text /\ n = Len(id) + 2
      /\ \A k \in 1 .. Len(id) : bytes[k] = id[k]
      /\ bytes[Len(id) + 1] = "CR" /\ bytes[Len(id) + 2] = "LF"
  <2>1. /\ bytes \in Text /\ n = Len(id) + Len(CRLF)
        /\ \A k \in 1 .. Len(id) : bytes[k] = id[k]
        /\ \A k \in 1 .. Len(CRLF) : bytes[Len(id) + k] = CRLF[k]
    BY <1>1, <1>5, JoinOfText
  <2>2. Len(CRLF) = 2 /\ CRLF[1] = "CR" /\ CRLF[2] = "LF"
    BY ShortTexts
  <2> HIDE DEF n, bytes
  <2> QED
    BY <2>1, <2>2
<1>7. Utf8(bytes)
  <2>1. ~Has("invalid", Prefix)
    BY PrefixType DEF Has
  <2>2. ~Has("invalid", CRLF)
    <3>1. \A k \in 1 .. 2 : CRLF[k] # "invalid"
      BY ShortTexts
    <3> QED
      BY <3>1, ShortTexts DEF Has
  <2>3. ~Has("invalid", id)
    BY <2>1, PrefixType, HasOfJoin DEF Utf8
  <2> QED
    BY <1>1, <1>5, <2>2, <2>3, HasOfJoin DEF Utf8
<1> HIDE DEF bytes
<1>8. /\ u \in Text
      /\ n >= 2 /\ bytes[n - 1] = "CR" /\ bytes[n] = "LF" => Len(u) = n - 2
      /\ \A k \in 1 .. Len(u) : u[k] = bytes[k]
  BY <1>6, Stripping
<1> HIDE DEF u, n
<1>9. n >= 2 /\ n - 1 = Len(id) + 1 /\ n - 2 = Len(id)
  BY <1>2, <1>6
<1>10. Len(u) = Len(id)
  BY <1>6, <1>8, <1>9
<1>11. u = id
  <2>1. \A k \in 1 .. Len(u) : u[k] = id[k]
    BY <1>6, <1>8, <1>10
  <2>2. u \in Text /\ id \in Text
    BY <1>1, <1>8
  <2> QED
    BY ONLY <1>10, <2>1, <2>2, SameText
<1> QED
  BY <1>1, <1>3, <1>4, <1>7, <1>11 DEF u, bytes

\* The first space of a version with comments is the one in front of them.
LEMMA SpaceInFront ==
  ASSUME NEW s \in Text, NEW c \in Text, ~Has("space", s),
         NEW body, body = s \o (<<"space">> \o c)
  PROVE  /\ Spaces(body) # {} /\ FirstSpace(body) - 1 = Len(s)
         /\ SubSeq(body, 1, FirstSpace(body) - 1) = s
         /\ From(body, FirstSpace(body) + 1) = c
<1> DEFINE space == <<"space">>
           u == s \o space
<1>1. space \in Text /\ Len(space) = 1 /\ space[1] = "space"
  BY ShortTexts
<1>2. space \o c \in Text
  BY <1>1, JoinOfText
<1>3. body = s \o (space \o c)
  OBVIOUS
<1> HIDE DEF space
<1>4. u \in Text /\ Len(u) = Len(s) + 1 /\ u[Len(s) + 1] = "space"
      /\ \A k \in 1 .. Len(s) : u[k] = s[k]
  <2>1. /\ u \in Text /\ Len(u) = Len(s) + Len(space)
        /\ \A k \in 1 .. Len(s) : u[k] = s[k]
        /\ \A k \in 1 .. Len(space) : u[Len(s) + k] = space[k]
    BY <1>1, JoinOfText
  <2> HIDE DEF u
  <2> QED
    BY <1>1, <2>1
<1>5. body = u \o c
  BY <1>1, <1>3, JoinAssociates
<1> HIDE DEF u
<1>6. Len(s) \in Nat /\ Len(c) \in Nat
  BY TextType
<1>7. /\ body \in Text /\ Len(body) = (Len(s) + 1) + Len(c)
      /\ \A k \in 1 .. (Len(s) + 1) : body[k] = u[k]
  <2>1. /\ u \o c \in Text /\ Len(u \o c) = Len(u) + Len(c)
        /\ \A k \in 1 .. Len(u) : (u \o c)[k] = u[k]
    BY <1>4, JoinOfText
  <2> QED
    BY <1>4, <1>5, <2>1
<1>8. Len(s) + 1 \in 1 .. Len(body) /\ body[Len(s) + 1] = "space"
  BY <1>4, <1>6, <1>7
<1>9. \A k \in 1 .. Len(s) : body[k] # "space"
  <2> TAKE k \in 1 .. Len(s)
  <2>1. k \in 1 .. (Len(s) + 1)
    BY <1>6
  <2> QED
    BY <1>4, <1>7, <2>1 DEF Has
<1>10. Spaces(body) # {}
  BY <1>8 DEF Spaces
<1> DEFINE f == FirstSpace(body)
<1>11. /\ f \in 1 .. Len(body) /\ body[f] = "space"
       /\ \A k \in 1 .. (f - 1) : body[k] # "space"
  BY <1>7, <1>10, FirstSpaceIs
<1> HIDE DEF f
<1>12. f = Len(s) + 1
  <2>1. ~(f <= Len(s))
    BY <1>6, <1>7, <1>9, <1>11
  <2>2. ~(f > Len(s) + 1)
    <3> SUFFICES ASSUME f > Len(s) + 1
                 PROVE  FALSE
      OBVIOUS
    <3>1. Len(s) + 1 \in 1 .. (f - 1)
      BY <1>6, <1>7, <1>11
    <3> QED
      BY <1>8, <1>11, <3>1
  <2> QED
    BY <1>6, <1>7, <1>11, <2>1, <2>2
<1>13. f - 1 = Len(s) /\ f + 1 = Len(u) + 1
  BY <1>4, <1>6, <1>12
<1>14. SubSeq(body, 1, Len(s)) = s
  BY <1>2, <1>3, RestOfJoin
<1>15. From(body, Len(u) + 1) = c
  BY <1>4, <1>5, RestOfJoin
<1> QED
  BY <1>10, <1>13, <1>14, <1>15 DEF f

\* What is written of a version is read as the version, but for a comment that
\* is empty.
LEMMA RoundTrip ==
  ASSUME NEW s \in Text, NEW c \in Text, NEW comments \in {None, Some(c)},
         Utf8(s), Utf8(c), ~Refused(s, comments),
         NEW v, v = [software |-> s, comments |-> comments]
  PROVE  from_bytes(to_bytes(v)) =
           IF comments = Some(<<>>) THEN [software |-> s, comments |-> None] ELSE v
<1> DEFINE space == <<"space">>
           id == identification_string(v)
<1>1. space \in Text /\ ~Has("invalid", space)
  <2>1. Len(space) = 1 /\ space[1] # "invalid" /\ space \in Text
    BY ShortTexts
  <2> HIDE DEF space
  <2> QED
    BY <2>1 DEF Has
<1>2. ~Has("space", s) /\ s # <<>>
  BY DEF Refused
<1>3. to_bytes(v) = id \o CRLF
  BY DEF to_bytes, CRLF
<1> HIDE DEF space, id
<1>4. CASE comments = None
  <2>1. id = (Prefix \o s) \o <<>>
    BY <1>4, StringIs DEF id
  <2>2. id = Prefix \o s
    <3>1. Prefix \o s \in Text
      BY PrefixType, JoinOfText
    <3> QED
      BY <2>1, <3>1, ConcatEmptySeq DEF Text
  <2>3. /\ IsPrefix(Prefix, id) /\ From(id, PrefixLen + 1) = s
        /\ Utf8(id \o CRLF) /\ StripLineEnd(id \o CRLF) = id
    BY <2>2, WrittenVersion
  <2>4. Spaces(s) = {}
    BY <1>2 DEF Spaces, Has
  <2>5. from_bytes(id \o CRLF) = new(s, None)
    BY <2>3, <2>4, FromBytesIs
  <2>6. new(s, None) = v
    BY <1>4, NewIs
  <2>7. comments # Some(<<>>)
    BY <1>4, OptionIs
  <2> QED
    BY <1>3, <2>5, <2>6, <2>7
<1>5. CASE comments = Some(c)
  <2> DEFINE body == s \o (space \o c)
  <2>1. comments # None /\ comments[1] = c
    BY <1>5, OptionIs
  <2>2. space \o c \in Text /\ body \in Text
    BY <1>1, JoinOfText
  <2>3. id = (Prefix \o s) \o (space \o c)
    <3>1. id = (Prefix \o s) \o (space \o comments[1])
      BY <2>1, StringIs DEF id, space
    <3> QED
      BY <2>1, <3>1
  <2>4. id = Prefix \o body
    <3>1. Prefix \in Text /\ s \in Text /\ (space \o c) \in Text
      BY <2>2, PrefixType
    <3>2. Prefix \o (s \o (space \o c)) = (Prefix \o s) \o (space \o c)
      BY ONLY <3>1, JoinAssociates
    <3> QED
      BY <2>3, <3>2
  <2>5. Utf8(body)
    <3>1. ~Has("invalid", space \o c)
      BY <1>1, HasOfJoin DEF Utf8
    <3> QED
      BY <2>2, <3>1, HasOfJoin DEF Utf8
  <2>6. /\ Spaces(body) # {}
        /\ SubSeq(body, 1, FirstSpace(body) - 1) = s
        /\ From(body, FirstSpace(body) + 1) = c
    BY <1>2, SpaceInFront DEF space
  <2> HIDE DEF body
  <2>7. /\ IsPrefix(Prefix, id) /\ From(id, PrefixLen + 1) = body
        /\ Utf8(id \o CRLF) /\ StripLineEnd(id \o CRLF) = id
    BY <2>2, <2>4, <2>5, WrittenVersion
  <2>8. from_bytes(id \o CRLF) = new(s, Comments(c))
    BY <2>6, <2>7, FromBytesIs
  <2>9. ~Refused(s, Comments(c))
    <3>1. Comments(c) # None => Comments(c) = comments
      BY <1>5, OptionIs
    <3> QED
      BY <3>1 DEF Refused
  <2>10. new(s, Comments(c)) = [software |-> s, comments |-> Comments(c)]
    BY <2>9, NewIs
  <2>11. CASE c = <<>>
    <3>1. comments = Some(<<>>) /\ Comments(c) = None
      BY <1>5, <2>11, OptionIs
    <3> QED
      BY <1>3, <2>8, <2>10, <3>1
  <2>12. CASE c # <<>>
    <3>1. Comments(c) = comments
      BY <1>5, <2>12, OptionIs
    <3>2. comments # Some(<<>>)
      <4>1. Some(<<>>)[1] = <<>>
        BY OptionIs
      <4> QED
        BY <2>1, <2>12, <4>1
    <3> QED
      BY <1>3, <2>8, <2>10, <3>1, <3>2
  <2> QED
    BY <2>11, <2>12
<1> QED
  BY <1>4, <1>5

\* A ProtoVersion survives the way over the wire, whatever it holds, but for an
\* empty comment (to_bytes and from_bytes of protoversion.rs).
THEOREM VersionsAreRead == Spec => []VersionIsRead
<1>1. ASSUME LineInv
      PROVE  VersionIsRead
  <2> SUFFICES ASSUME NEW k \in 0 .. Len(own), NEW comments \in {None, Some(From(own, k + 1))},
                      new(SubSeq(own, 1, k), comments) # Err, Utf8(own)
               PROVE  from_bytes(to_bytes(new(SubSeq(own, 1, k), comments))) =
                        IF comments = Some(<<>>)
                        THEN [new(SubSeq(own, 1, k), comments) EXCEPT !.comments = None]
                        ELSE new(SubSeq(own, 1, k), comments)
    BY DEF VersionIsRead
  <2> DEFINE s == SubSeq(own, 1, k)
             c == From(own, k + 1)
             v == new(s, comments)
  <2>1. s \in Text /\ c \in Text /\ own = s \o c
    BY <1>1, SplitText DEF LineInv
  <2>2. v # Err /\ comments \in {None, Some(c)}
    OBVIOUS
  <2> HIDE DEF s, c
  <2>3. Utf8(s) /\ Utf8(c)
    BY <2>1, HasOfJoin DEF Utf8
  <2>4. ~Refused(s, comments) /\ v = [software |-> s, comments |-> comments]
    BY <2>2, NewIs
  <2> HIDE DEF v
  <2>5. from_bytes(to_bytes(v)) =
          IF comments = Some(<<>>) THEN [software |-> s, comments |-> None] ELSE v
    BY <2>1, <2>2, <2>3, <2>4, RoundTrip
  <2>6. [v EXCEPT !.comments = None] = [software |-> s, comments |-> None]
    BY <2>4
  <2> QED
    BY <2>5, <2>6 DEF v, s
<1> QED
  BY <1>1, LineInitially, LineInductive, PTL DEF Spec
=============================================================================
