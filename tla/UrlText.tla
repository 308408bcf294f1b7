------------------------------- MODULE UrlText -------------------------------
(***************************************************************************)
(* Texts of URLs and paths: sequences of the codes of their bytes, without *)
(* the NUL that ends them in C.                                            *)
(***************************************************************************)
EXTENDS Integers, Sequences, SequencesExt

NUL   == 0
Byte  == 1..255
Slash == 47
Dot   == 46

\* What is between the separators of a text, if anything is.  from[i] lists
\* the parts of what follows i - 1.
Split(text, separators) ==
  LET from[i \in 1..(Len(text) + 1)] ==
        IF i > Len(text) THEN <<>>
        ELSE LET parts == from[i + 1]
                 ends  == i = Len(text) \/ text[i + 1] \in separators
             IN  IF text[i] \in separators THEN parts
                 ELSE IF ends THEN <<<<text[i]>>>> \o parts
                 ELSE <<<<text[i]>> \o Head(parts)>> \o Tail(parts)
  IN  from[1]

Components(text) == Split(text, {Slash})

\* The path of some components.
Joined(names) == FlattenSeq([i \in DOMAIN names |-> <<Slash>> \o names[i]])

EndsInSlash(text) == text # <<>> /\ Last(text) = Slash

\* The array that holds a text, from 0 to its NUL, and a part of an array.
Buffer(text) ==
  [i \in 0..Len(text) |-> IF i < Len(text) THEN text[i + 1] ELSE NUL]

Bytes(buffer, from, to) == [i \in 1..(to - from) |-> buffer[from + i - 1]]

-----------------------------------------------------------------------------
(***************************************************************************)
(* What process_get makes of the URL of a request.                         *)
(***************************************************************************)
Query   == 63
Percent == 37
Http    == <<104, 116, 116, 112, 58, 47, 47>>
Https   == <<104, 116, 116, 112, 115, 58, 47, 47>>

\* The part of a text before a byte: strchr() and a NUL written there, or
\* what C makes of a text with a NUL in it.
Before(text, c) ==
  LET i == SelectInSeq(text, LAMBDA b : b = c)
  IN  IF i = 0 THEN text ELSE SubSeq(text, 1, i - 1)

Digits(c) == c \in 48..57
isxdigit(c) == Digits(c) \/ c \in 65..70 \/ c \in 97..102
HexValue(c) == IF Digits(c) THEN c - 48 ELSE IF c >= 97 THEN c - 87 ELSE c - 55

Escaped(text, i) ==
  /\ text[i] = Percent /\ i + 2 <= Len(text)
  /\ isxdigit(text[i + 1]) /\ isxdigit(text[i + 2])

urldecode(text) ==
  LET from[i \in 1..(Len(text) + 1)] ==
        IF i > Len(text) THEN <<>>
        ELSE IF Escaped(text, i)
               THEN <<HexValue(text[i + 1]) * 16 + HexValue(text[i + 2])>> \o from[i + 3]
               ELSE <<text[i]>> \o from[i + 1]
  IN  Before(from[1], NUL)

\* Without the scheme and the host of an absolute URL.
FromSlash(text) ==
  SubSeq(text, Len(Before(text, Slash)) + 1, Len(text))

normalize_path(text) ==
  IF IsPrefix(Http, text) THEN FromSlash(SubSeq(text, Len(Http) + 1, Len(text)))
  ELSE IF IsPrefix(Https, text) THEN FromSlash(SubSeq(text, Len(Https) + 1, Len(text)))
  ELSE text

Prepared(text) == normalize_path(urldecode(text))

-----------------------------------------------------------------------------
(***************************************************************************)
(* What a URL stands for: names resolved from the root, one after the      *)
(* other.                                                                  *)
(***************************************************************************)
\* No name is empty: no names lead here.
Above == <<<<>>>>

Enter(path, name) ==
  IF path = Above \/ name = <<Dot>> THEN path
  ELSE IF name # <<Dot, Dot>> THEN Append(path, name)
  ELSE IF path = <<>> THEN Above
  ELSE Front(path)

Resolved(names) ==
  LET path[i \in 0..Len(names)] ==
        IF i = 0 THEN <<>> ELSE Enter(path[i - 1], names[i])
  IN  path[Len(names)]

=============================================================================
