------------------------- MODULE RangeRequestProofs -------------------------
(***************************************************************************)
(* The properties of RangeRequest, for every OffMax, every set of fields   *)
(* and every set of file sizes.                                            *)
(***************************************************************************)
EXTENDS RangeRequest, TLAPS

-----------------------------------------------------------------------------
(***************************************************************************)
(* The operators of RangeField.                                            *)
(***************************************************************************)

\* A number of the request is at most OffMax once strtoll has read it.
LEMMA StrtollBounded ==
  ASSUME NEW n \in Nat
  PROVE  strtoll(n) \in 0..OffMax
BY OffMaxAssumption DEF strtoll

\* parse_range_field stores off_t numbers, whatever the field.
LEMMA ParsedRangeType ==
  ASSUME NEW r \in Ranges, NEW f \in Fields
  PROVE  parse_range_field(r, f) \in Ranges
<1>1. BeginGiven(f) \in BOOLEAN /\ EndGiven(f) \in BOOLEAN
  BY DEF BeginGiven, EndGiven, Fields
<1>2. (IF BeginGiven(f) THEN strtoll(f.first) ELSE r.begin) \in 0..OffMax
  BY StrtollBounded DEF BeginGiven, Fields, Numbers, Ranges
<1>3. (IF EndGiven(f) THEN strtoll(f.last) ELSE r.end) \in 0..OffMax
  BY StrtollBounded DEF EndGiven, Fields, Numbers, Ranges
<1> QED
  BY <1>1, <1>2, <1>3 DEF parse_range_field, Ranges

LEMMA NoRangeType == NoRange \in Ranges
BY OffMaxAssumption DEF NoRange, Ranges

\* The start and the end process_get computes stay around the file.
LEMMA FromToBounds ==
  ASSUME NEW r \in Ranges, NEW size \in 0..OffMax
  PROVE  /\ From(r, size) \in 0..OffMax
         /\ To(r, size) \in -1..(size - 1)
BY OffMaxAssumption DEF Ranges, From, To, SuffixStart

\* A slice that is answered with 200 or 206 lies in the file, and a partial
\* one is not empty (process_get, 200 and 206).
LEMMA SliceBounds ==
  ASSUME NEW r \in Ranges, NEW size \in 0..OffMax, RangeStatus(r, size) # 416
  PROVE  /\ ReplyStart(r, size) \in 0..OffMax
         /\ ReplyLength(r, size) \in 0..OffMax
         /\ ReplyStart(r, size) + ReplyLength(r, size) <= size
         /\ RangeStatus(r, size) = 206 => ReplyLength(r, size) > 0
<1>1. CASE ~RangeGiven(r)
  BY <1>1, OffMaxAssumption DEF RangeStatus, ReplyStart, ReplyLength
<1>2. CASE RangeGiven(r)
  <2>1. ~OutsideFile(r, size) /\ ~Backward(r, size)
    BY <1>2 DEF RangeStatus
  <2>2. From(r, size) <= To(r, size) /\ From(r, size) < size
    BY <2>1, FromToBounds DEF OutsideFile, Backward
  <2> QED
    BY <1>2, <2>2, FromToBounds, OffMaxAssumption DEF ReplyStart, ReplyLength
<1> QED
  BY <1>1, <1>2

LEMMA NoFieldType == NoField \in Fields
BY DEF NoField, Fields, Numbers, Absent

-----------------------------------------------------------------------------
(***************************************************************************)
(* The requests.                                                           *)
(***************************************************************************)

\* Every variable keeps its type: offsets stay off_t.
THEOREM TypeCorrect == Spec => []TypeOK
<1>1. Init => TypeOK
  BY NoFieldType, NoRangeType, OffMaxAssumption DEF Init, TypeOK
<1>2. TypeOK /\ [Next]_vars => TypeOK'
  <2> SUFFICES ASSUME TypeOK, [Next]_vars PROVE TypeOK'
    OBVIOUS
  <2>1. CASE ParseRequest
    BY <2>1, ParsedRangeType, RequestFieldsAssumption DEF ParseRequest, TypeOK
  <2>2. CASE ProcessGet
    <3>1. PICK size \in Sizes :
            LET code == RangeStatus(range, size)
            IN  /\ st_size' = size
                /\ status' = code
                /\ start' = IF code = 416 THEN 0 ELSE ReplyStart(range, size)
                /\ length' = IF code = 416 THEN 0 ELSE ReplyLength(range, size)
      BY <2>2 DEF ProcessGet
    <3>2. size \in 0..OffMax /\ range \in Ranges
      BY SizesAssumption DEF TypeOK
    <3>3. status' \in {200, 206, 416}
      BY <3>1 DEF RangeStatus
    <3>4. start' \in 0..OffMax /\ length' \in 0..OffMax
      BY <3>1, <3>2, SliceBounds, OffMaxAssumption
    <3> QED
      BY <2>2, <3>1, <3>2, <3>3, <3>4 DEF ProcessGet, TypeOK
  <2>3. CASE Recycle
    BY <2>3, NoFieldType, NoRangeType, OffMaxAssumption DEF Recycle, ForgetRange, TypeOK
  <2>4. CASE UNCHANGED vars
    BY <2>4 DEF vars, TypeOK
  <2> QED
    BY <2>1, <2>2, <2>3, <2>4 DEF Next
<1> QED
  BY <1>1, <1>2, PTL DEF Spec

\* Whatever is asked of a file of any size, the slice handed to sendfile() is
\* inside the file, and 206 never announces an empty one.
THEOREM SliceIsInside == Spec => []SliceInsideFile
<1>1. Init => SliceInsideFile
  BY DEF Init, SliceInsideFile
<1>2. TypeOK /\ SliceInsideFile /\ [Next]_vars => SliceInsideFile'
  <2> SUFFICES ASSUME TypeOK, SliceInsideFile, [Next]_vars PROVE SliceInsideFile'
    OBVIOUS
  <2>1. CASE ParseRequest
    BY <2>1 DEF ParseRequest, SliceInsideFile
  <2>2. CASE ProcessGet
    <3>1. PICK size \in Sizes :
            LET code == RangeStatus(range, size)
            IN  /\ st_size' = size
                /\ status' = code
                /\ start' = IF code = 416 THEN 0 ELSE ReplyStart(range, size)
                /\ length' = IF code = 416 THEN 0 ELSE ReplyLength(range, size)
      BY <2>2 DEF ProcessGet
    <3>2. size \in 0..OffMax /\ range \in Ranges
      BY SizesAssumption DEF TypeOK
    <3> QED
      BY <3>1, <3>2, SliceBounds DEF SliceInsideFile
  <2>3. CASE Recycle
    BY <2>3 DEF Recycle, SliceInsideFile
  <2>4. CASE UNCHANGED vars
    BY <2>4 DEF vars, SliceInsideFile
  <2> QED
    BY <2>1, <2>2, <2>3, <2>4 DEF Next
<1> QED
  BY <1>1, <1>2, TypeCorrect, PTL DEF Spec

\* No off_t computed from a range and a file size overflows, on any width.
THEOREM OffsetsDoNotOverflow == Spec => []NoOffsetOverflow
<1>1. TypeOK => NoOffsetOverflow
  <2> SUFFICES ASSUME TypeOK, NEW size \in Sizes
               PROVE  /\ size - 1 \in OffT
                      /\ (size - 1) - range.end \in OffT
                      /\ SuffixStart(range, size) \in OffT
                      /\ RangeStatus(range, size) = 206 =>
                           To(range, size) - From(range, size) + 1 \in OffT
    BY DEF NoOffsetOverflow
  <2>1. size \in 0..OffMax /\ range \in Ranges
    BY SizesAssumption DEF TypeOK
  <2>2. /\ size - 1 \in OffT
        /\ (size - 1) - range.end \in OffT
        /\ SuffixStart(range, size) \in OffT
    BY <2>1, OffMaxAssumption DEF OffT, SuffixStart, Ranges
  <2>3. To(range, size) - From(range, size) + 1 \in OffT
    BY <2>1, FromToBounds, OffMaxAssumption DEF OffT
  <2> QED
    BY <2>2, <2>3
<1> QED
  BY <1>1, TypeCorrect, PTL

-----------------------------------------------------------------------------
(***************************************************************************)
(* The answer is the one the field asks for.                               *)
(***************************************************************************)

\* What the reference and the code make of one byte position.
SlicePositions(r, size) ==
  {i \in 0..(size - 1) : ReplyStart(r, size) <= i
                         /\ i < ReplyStart(r, size) + ReplyLength(r, size)}

\* The positions from From to To are those a well-formed field names.
LEMMA NamedIsFromTo ==
  ASSUME NEW f \in Fields, WellFormed(f), NEW size \in 0..OffMax,
         NEW i \in 0..(size - 1)
  PROVE  LET r == parse_range_field(NoRange, f)
         IN  Named(f, size, i) <=> (From(r, size) <= i /\ i <= To(r, size))
<1> DEFINE r == parse_range_field(NoRange, f)
<1> USE OffMaxAssumption
<1>1. f.first \in Nat \cup {-1} /\ f.last \in Nat \cup {-1}
  BY DEF Fields, Numbers, Absent
<1>2. CASE f.first # Absent /\ f.last # Absent
  <2>1. r.begin_given /\ r.end_given /\ r.begin = strtoll(f.first) /\ r.end = strtoll(f.last)
    BY <1>2 DEF parse_range_field, BeginGiven, EndGiven, WellFormed, NoRange
  <2> QED
    BY <1>1, <1>2, <2>1 DEF Named, From, To, strtoll, Absent
<1>3. CASE f.first # Absent /\ f.last = Absent
  <2>1. r.begin_given /\ ~r.end_given /\ r.begin = strtoll(f.first)
    BY <1>3 DEF parse_range_field, BeginGiven, EndGiven, WellFormed, NoRange
  <2> QED
    BY <1>1, <1>3, <2>1 DEF Named, From, To, strtoll, Absent
<1>4. CASE f.first = Absent /\ f.last # Absent
  <2>1. ~r.begin_given /\ r.end_given /\ r.end = strtoll(f.last)
    BY <1>4 DEF parse_range_field, BeginGiven, EndGiven, WellFormed, NoRange
  <2> QED
    BY <1>1, <1>4, <2>1 DEF Named, From, To, SuffixStart, strtoll, Absent
<1> QED
  BY <1>2, <1>3, <1>4 DEF WellFormed

\* 416 exactly when no position is named, and otherwise 206 and the positions.
LEMMA AnswerIsReference ==
  ASSUME NEW f \in Fields, WellFormed(f), NEW size \in 0..OffMax
  PROVE  LET r == parse_range_field(NoRange, f)
         IN  /\ RangeStatus(r, size) \in {206, 416}
             /\ (RangeStatus(r, size) = 416) = (Positions(f, size) = {})
             /\ RangeStatus(r, size) = 206 =>
                  SlicePositions(r, size) = Positions(f, size)
<1> DEFINE r == parse_range_field(NoRange, f)
<1> USE OffMaxAssumption
<1>1. r \in Ranges /\ RangeGiven(r)
  BY ParsedRangeType, NoRangeType
     DEF parse_range_field, BeginGiven, EndGiven, WellFormed, NoRange, RangeGiven
<1>2. From(r, size) \in 0..OffMax /\ To(r, size) \in -1..(size - 1)
  BY <1>1, FromToBounds
<1>3. RangeStatus(r, size) \in {206, 416}
  BY <1>1 DEF RangeStatus
<1>4. Positions(f, size) = {i \in 0..(size - 1) : From(r, size) <= i /\ i <= To(r, size)}
  BY NamedIsFromTo DEF Positions
<1>5. CASE RangeStatus(r, size) = 416
  <2>1. From(r, size) >= size \/ To(r, size) < From(r, size)
    BY <1>1, <1>5 DEF RangeStatus, OutsideFile, Backward
  <2>2. Positions(f, size) = {}
    BY <1>2, <1>4, <2>1
  <2> QED
    BY <1>3, <1>5, <2>2
<1>6. CASE RangeStatus(r, size) = 206
  <2>1. From(r, size) < size /\ From(r, size) <= To(r, size)
    BY <1>1, <1>2, <1>6 DEF RangeStatus, OutsideFile, Backward
  <2>2. From(r, size) \in Positions(f, size)
    BY <1>2, <1>4, <2>1
  <2>3. SlicePositions(r, size) = Positions(f, size)
    BY <1>1, <1>2, <1>4 DEF SlicePositions, ReplyStart, ReplyLength
  <2> QED
    BY <1>3, <1>6, <2>2, <2>3
<1> QED
  BY <1>3, <1>5, <1>6

\* The connection's range is the one the current field gives, and the answer
\* is the one process_get computes from it.
AnswerFollows ==
  /\ stage = "recv" => range = NoRange
  /\ stage \in {"parsed", "answered"} => range = parse_range_field(NoRange, field)
  /\ stage = "answered" =>
       /\ status = RangeStatus(range, st_size)
       /\ status # 416 => /\ start = ReplyStart(range, st_size)
                          /\ length = ReplyLength(range, st_size)

LEMMA AnswerFollowsInvariant == Spec => []AnswerFollows
<1>1. Init => AnswerFollows
  BY DEF Init, AnswerFollows
<1>2. AnswerFollows /\ [Next]_vars => AnswerFollows'
  <2> SUFFICES ASSUME AnswerFollows, [Next]_vars PROVE AnswerFollows'
    OBVIOUS
  <2>1. CASE ParseRequest
    BY <2>1 DEF ParseRequest, AnswerFollows
  <2>2. CASE ProcessGet
    BY <2>2 DEF ProcessGet, AnswerFollows
  <2>3. CASE Recycle
    BY <2>3 DEF Recycle, ForgetRange, AnswerFollows
  <2>4. CASE UNCHANGED vars
    BY <2>4 DEF vars, AnswerFollows
  <2> QED
    BY <2>1, <2>2, <2>3, <2>4 DEF Next
<1> QED
  BY <1>1, <1>2, PTL DEF Spec

\* Every answer to a well-formed field carries exactly the bytes the field
\* names, and 416 exactly when it names none: for every off_t width, every
\* field, every file, and any earlier requests on the connection.
THEOREM SliceIsTheOneAsked == Spec => []SliceIsWhatWasAsked
<1>1. TypeOK /\ AnswerFollows => SliceIsWhatWasAsked
  <2> SUFFICES ASSUME TypeOK, AnswerFollows, stage = "answered", WellFormed(field)
               PROVE  /\ status \in {206, 416}
                      /\ (status = 416) = (Positions(field, st_size) = {})
                      /\ status = 206 => Slice = Positions(field, st_size)
    BY DEF SliceIsWhatWasAsked
  <2>1. field \in Fields /\ st_size \in 0..OffMax
    BY DEF TypeOK
  <2>2. range = parse_range_field(NoRange, field) /\ status = RangeStatus(range, st_size)
    BY DEF AnswerFollows
  <2>3. status = 206 => Slice = SlicePositions(range, st_size)
    BY DEF AnswerFollows, Slice, SlicePositions
  <2> QED
    BY <2>1, <2>2, <2>3, AnswerIsReference
<1> QED
  BY <1>1, TypeCorrect, AnswerFollowsInvariant, PTL

\* A request without a Range field is answered with the whole file.
THEOREM WholeFileWithoutRange == Spec => []NoRangeWholeFile
<1>1. parse_range_field(NoRange, NoField) = NoRange
  BY DEF parse_range_field, NoRange, NoField, BeginGiven, EndGiven
<1>2. AnswerFollows => NoRangeWholeFile
  BY <1>1 DEF AnswerFollows, NoRangeWholeFile, NoRange, RangeStatus, RangeGiven,
              ReplyStart, ReplyLength
<1> QED
  BY <1>2, AnswerFollowsInvariant, PTL
=============================================================================
