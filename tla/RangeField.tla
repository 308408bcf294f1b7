------------------------------ MODULE RangeField ------------------------------
(***************************************************************************)
(* The "Range: bytes=" field of a request: what parse_range_field keeps of *)
(* it, and the part of a file process_get makes of that.                   *)
(*                                                                         *)
(* A field is a record:                                                    *)
(*   first   the number before the hyphen, or Absent if no digit is there, *)
(*   hyphen  whether a '-' follows,                                        *)
(*   last    the number after the hyphen, or Absent,                       *)
(*   tail    what follows: the "end" of the field, a "comma" (a list of    *)
(*           ranges), or any "other" character.                            *)
(* NoField stands for a request without the field.                         *)
(*                                                                         *)
(* Offsets are off_t: signed, with OffMax the largest.                     *)
(***************************************************************************)
EXTENDS Integers

CONSTANT OffMax    \* the largest off_t, 2^63-1 in the program

ASSUME OffMaxAssumption == OffMax \in Nat \ {0}

Absent  == -1
NoField == [first |-> Absent, hyphen |-> FALSE, last |-> Absent, tail |-> "end"]

Numbers == Nat \cup {Absent}
Fields  == [first : Numbers, hyphen : BOOLEAN, last : Numbers,
            tail : {"end", "comma", "other"}]

(***************************************************************************)
(* The four members of struct connection that hold a range.                *)
(***************************************************************************)
Ranges  == [begin_given : BOOLEAN, begin : 0..OffMax,
            end_given : BOOLEAN, end : 0..OffMax]
NoRange == [begin_given |-> FALSE, begin |-> 0, end_given |-> FALSE, end |-> 0]

\* Mutant: the digits are added up without a limit.
WrappingDigits(digits) == digits

\* strtoll() of a run of digits: it saturates.
strtoll(digits) == IF digits > OffMax THEN OffMax ELSE digits

\* What of the field is accepted: nothing without a hyphen; the number after
\* the hyphen only if the range ends there.  The number before the hyphen is
\* stored before the rest is looked at.
BeginGiven(field) == field.hyphen /\ field.first # Absent
EndGiven(field)   == field.hyphen /\ field.tail # "other" /\ field.last # Absent

\* Only the members a number is given for are written.
parse_range_field(range, field) ==
  [begin_given |-> range.begin_given \/ BeginGiven(field),
   begin       |-> IF BeginGiven(field) THEN strtoll(field.first) ELSE range.begin,
   end_given   |-> range.end_given \/ EndGiven(field),
   end         |-> IF EndGiven(field) THEN strtoll(field.last) ELSE range.end]

(***************************************************************************)
(* process_get, for a regular file of st_size bytes.                       *)
(***************************************************************************)
RangeGiven(range) == range.begin_given \/ range.end_given

\* Mutant: "-200" taken to end one byte early.
SuffixOffByOne(range, st_size) == (st_size - 1) - range.end

\* "-200": the last 200 bytes.
SuffixStart(range, st_size) == (st_size - 1) - range.end + 1

From(range, st_size) ==
  IF range.begin_given THEN range.begin
  ELSE IF SuffixStart(range, st_size) < 0 THEN 0 ELSE SuffixStart(range, st_size)

To(range, st_size) ==
  IF range.begin_given /\ range.end_given /\ range.end <= st_size - 1
  THEN range.end
  ELSE st_size - 1

OutsideFile(range, st_size) == From(range, st_size) >= st_size
Backward(range, st_size)    == To(range, st_size) < From(range, st_size)

\* The status code process_get answers with once the file is known to be sent.
RangeStatus(range, st_size) ==
  IF ~RangeGiven(range) THEN 200
  ELSE IF OutsideFile(range, st_size) \/ Backward(range, st_size) THEN 416
  ELSE 206

ReplyStart(range, st_size) ==
  IF RangeGiven(range) THEN From(range, st_size) ELSE 0
ReplyLength(range, st_size) ==
  IF RangeGiven(range) THEN To(range, st_size) - From(range, st_size) + 1
  ELSE st_size

=============================================================================
