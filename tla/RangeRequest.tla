----------------------------- MODULE RangeRequest -----------------------------
(***************************************************************************)
(* One connection that asks for ranges of files, request after request:    *)
(* parse_request stores the range, process_get turns it into a status and  *)
(* a slice of the file, recycle_connection makes the connection ready for  *)
(* the next request.  The reference the answer is compared with is the set *)
(* of positions the field names.                                           *)
(***************************************************************************)
EXTENDS RangeField

CONSTANTS RequestFields,   \* the fields clients send
          Sizes            \* the sizes of the files they ask for

ASSUME RequestFieldsAssumption == RequestFields \subseteq Fields
ASSUME SizesAssumption == Sizes \subseteq 0..OffMax

VARIABLES stage,      \* "recv", "parsed" or "answered"
          field,      \* the field of the request being processed
          range,      \* conn->range_begin, range_end and their _given flags
          st_size,    \* size of the file
          status,     \* conn->http_code, 0 when there is no answer
          start,      \* conn->reply_start
          length      \* conn->reply_length

vars == <<stage, field, range, st_size, status, start, length>>

Init ==
  /\ stage = "recv"
  /\ field = NoField
  /\ range = NoRange
  /\ st_size = 0
  /\ status = 0
  /\ start = 0
  /\ length = 0

ParseRequest ==
  /\ stage = "recv"
  /\ \E f \in RequestFields : field' = f /\ range' = parse_range_field(range, f)
  /\ stage' = "parsed"
  /\ UNCHANGED <<st_size, status, start, length>>

\* process_get: a slice of the file, or the page that goes with 416, which
\* starts at its own first byte.
ProcessGet ==
  /\ stage = "parsed"
  /\ \E size \in Sizes :
       LET code == RangeStatus(range, size)
       IN  /\ st_size' = size
           /\ status' = code
           /\ start' = IF code = 416 THEN 0 ELSE ReplyStart(range, size)
           /\ length' = IF code = 416 THEN 0 ELSE ReplyLength(range, size)
  /\ stage' = "answered"
  /\ UNCHANGED <<field, range>>

\* recycle_connection, as far as ranges go.
ForgetRange == range' = NoRange

Recycle ==
  /\ stage = "answered"
  /\ stage' = "recv"
  /\ field' = NoField
  /\ ForgetRange
  /\ status' = 0 /\ start' = 0 /\ length' = 0
  /\ st_size' = 0

Next == ParseRequest \/ ProcessGet \/ Recycle

Spec == Init /\ [][Next]_vars

-----------------------------------------------------------------------------
(***************************************************************************)
(* The reference.                                                          *)
(***************************************************************************)

\* The first range of the field is complete: digits, hyphen, digits, and the
\* end of the field or of the first range of a list.
WellFormed(f) == f.hyphen /\ f.tail # "other" /\ (f.first # Absent \/ f.last # Absent)

\* Whether position i of a file of the given size is named by a well-formed field.
Named(f, size, i) ==
  IF f.first = Absent THEN i >= size - f.last
  ELSE i >= f.first /\ (f.last = Absent \/ i <= f.last)

Positions(f, size) == {i \in 0..(size - 1) : Named(f, size, i)}

Slice == {i \in 0..(st_size - 1) : start <= i /\ i < start + length}

-----------------------------------------------------------------------------
(***************************************************************************)
(* Properties.                                                             *)
(***************************************************************************)

\* Every variable keeps its type; offsets stay off_t.
TypeOK ==
  /\ stage \in {"recv", "parsed", "answered"}
  /\ field \in Fields
  /\ range \in Ranges
  /\ st_size \in 0..OffMax
  /\ status \in {0, 200, 206, 416}
  /\ start \in 0..OffMax
  /\ length \in 0..OffMax

\* An answer to a well-formed field carries exactly the positions the field
\* names, whatever the numbers, and 416 exactly when it names none in the
\* file (process_get's clamping and its two 416 branches).
SliceIsWhatWasAsked ==
  stage = "answered" /\ WellFormed(field) =>
    /\ status \in {206, 416}
    /\ (status = 416) = (Positions(field, st_size) = {})
    /\ status = 206 => Slice = Positions(field, st_size)

\* A slice handed to sendfile() lies inside the file, and 206 never announces
\* an empty one (reply_start and reply_length of process_get).
SliceInsideFile ==
  stage = "answered" =>
    /\ start + length <= st_size
    /\ status = 206 => length > 0

\* No off_t computed on the way from range and size to the slice overflows
\* (signed overflow is undefined): process_get's from, to and reply_length.
OffT == (-OffMax - 1)..OffMax
NoOffsetOverflow ==
  stage = "parsed" =>
    \A size \in Sizes :
      /\ size - 1 \in OffT
      /\ (size - 1) - range.end \in OffT
      /\ SuffixStart(range, size) \in OffT
      /\ RangeStatus(range, size) = 206 =>
           To(range, size) - From(range, size) + 1 \in OffT

\* A request without a range gets the whole file, even after one that had a
\* range on the same connection (recycle_connection clears the _given flags).
NoRangeWholeFile ==
  stage = "answered" /\ field = NoField =>
    status = 200 /\ start = 0 /\ length = st_size

\* "must be end of string or a list to be valid": a field whose first range
\* is followed by anything else is not valid and must not select a slice.
\* Not so in the code: see README.md, "Where the code and what is said of it
\* disagree".
InvalidRangeIgnored ==
  stage = "answered" /\ field.tail = "other" => status = 200

=============================================================================
