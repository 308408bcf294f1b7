------------------------------- MODULE MimeMap -------------------------------
(***************************************************************************)
(* The table of MIME types: built from the lines of default_extension_map  *)
(* and then of a file, sorted, and searched.                               *)
(***************************************************************************)
EXTENDS UrlText

Lower(c) == IF c \in 65..90 THEN c + 32 ELSE c
LowerCase(text) == [i \in DOMAIN text |-> Lower(text[i])]

\* strcasecmp() = 0
SameText(a, b) == LowerCase(a) = LowerCase(b)

CRByte == 13
LFByte == 10
Blanks == {32, 9}
Hash   == 35

\* read_line, until it returns NULL: a line ends with CR, LF, CR LF or the
\* file, and what ends with the file is a line only if it is not empty.
EndLength(file, i) ==
  IF file[i] = CRByte /\ i < Len(file) /\ file[i + 1] = LFByte THEN 2 ELSE 1

read_lines(file) ==
  LET Ends(i) == {j \in i..Len(file) : file[j] \in {CRByte, LFByte}}
      from[i \in 1..(Len(file) + 1)] ==
        IF Ends(i) # {} THEN LET end == Min(Ends(i))
                             IN  <<SubSeq(file, i, end - 1)>> \o from[end + EndLength(file, end)]
        ELSE IF i > Len(file) THEN <<>>
        ELSE <<SubSeq(file, i, Len(file))>>
  IN  from[1]

\* Associates an extension with a type: in its own place, if it has one.
add_mime_mapping(map, extension, mimetype) ==
  LET i == SelectInSeq(map, LAMBDA m : SameText(m.extension, extension))
  IN  IF i # 0 THEN [map EXCEPT ![i].mimetype = mimetype]
      ELSE Append(map, [extension |-> extension, mimetype |-> mimetype])

\* A type and its extensions, unless the line is empty or a comment.
parse_mimetype_line(map, line) ==
  LET words == Split(line, Blanks)
      upto[k \in 1..Len(words)] ==
        IF k = 1 THEN map ELSE add_mime_mapping(upto[k - 1], words[k], words[1])
  IN  IF words = <<>> \/ words[1][1] = Hash THEN map ELSE upto[Len(words)]

MapOf(lines) ==
  LET upto[k \in 0..Len(lines)] ==
        IF k = 0 THEN <<>> ELSE parse_mimetype_line(upto[k - 1], lines[k])
  IN  upto[Len(lines)]

\* qsort() and bsearch(): of several equal entries, any may be found.
Found(map, text) ==
  {map[i].mimetype : i \in {k \in DOMAIN map : SameText(map[k].extension, text)}}

\* The reference: the last line that names an extension counts.
Mentions(lines, text) ==
  {i \in DOMAIN lines :
     LET words == Split(lines[i], Blanks)
     IN  /\ words # <<>> /\ words[1][1] # Hash
         /\ \E k \in 2..Len(words) : SameText(words[k], text)}

TypeSaid(lines, text) ==
  {Split(lines[i], Blanks)[1] : i \in {k \in Mentions(lines, text) :
                                         \A j \in Mentions(lines, text) : j <= k}}

=============================================================================
