--------------------------- MODULE ConnectionProofs ---------------------------
(***************************************************************************)
(* The safety of Connection, for every length of requests, headers, pages  *)
(* and files, every set of requests and every choice of options; and, with *)
(* conditions, what its client may count on.                               *)
(***************************************************************************)
EXTENDS Connection, TLAPS

-----------------------------------------------------------------------------
(***************************************************************************)
(* The operators of RangeField: see RangeRequestProofs.                    *)
(***************************************************************************)

\* A number of the request is at most OffMax once strtoll has read it.
LEMMA StrtollBounded ==
  ASSUME NEW n \in Nat
  PROVE  strtoll(n) \in 0..OffMax
BY OffMaxAssumption DEF strtoll

\* parse_range_field stores off_t numbers, whatever the field.
LEMMA ParsedRangeType ==
  ASSUME NEW r \in Ranges, NEW f \in Fields
  PROVE  parse_range_field(r, f) \in Ranges
<1>1. BeginGiven(f) \in BOOLEAN /\ EndGiven(f) \in BOOLEAN
  BY DEF BeginGiven, EndGiven, Fields
<1>2. (IF BeginGiven(f) THEN strtoll(f.first) ELSE r.begin) \in 0..OffMax
  BY StrtollBounded DEF BeginGiven, Fields, Numbers, Ranges
<1>3. (IF EndGiven(f) THEN strtoll(f.last) ELSE r.end) \in 0..OffMax
  BY StrtollBounded DEF EndGiven, Fields, Numbers, Ranges
<1> QED
  BY <1>1, <1>2, <1>3 DEF parse_range_field, Ranges

LEMMA NoRangeType == NoRange \in Ranges
BY OffMaxAssumption DEF NoRange, Ranges

\* The start and the end process_get computes stay around the file.
LEMMA FromToBounds ==
  ASSUME NEW r \in Ranges, NEW size \in 0..OffMax
  PROVE  /\ From(r, size) \in 0..OffMax
         /\ To(r, size) \in -1..(size - 1)
BY OffMaxAssumption DEF Ranges, From, To, SuffixStart

\* A slice that is answered with 200 or 206 lies in the file, and a partial
\* one is not empty (process_get, 200 and 206).
LEMMA SliceBounds ==
  ASSUME NEW r \in Ranges, NEW size \in 0..OffMax, RangeStatus(r, size) # 416
  PROVE  /\ ReplyStart(r, size) \in 0..OffMax
         /\ ReplyLength(r, size) \in 0..OffMax
         /\ ReplyStart(r, size) + ReplyLength(r, size) <= size
         /\ RangeStatus(r, size) = 206 => ReplyLength(r, size) > 0
<1>1. CASE ~RangeGiven(r)
  BY <1>1, OffMaxAssumption DEF RangeStatus, ReplyStart, ReplyLength
<1>2. CASE RangeGiven(r)
  <2>1. ~OutsideFile(r, size) /\ ~Backward(r, size)
    BY <1>2 DEF RangeStatus
  <2>2. From(r, size) <= To(r, size) /\ From(r, size) < size
    BY <2>1, FromToBounds DEF OutsideFile, Backward
  <2> QED
    BY <1>2, <2>2, FromToBounds, OffMaxAssumption DEF ReplyStart, ReplyLength
<1> QED
  BY <1>1, <1>2

LEMMA NoFieldType == NoField \in Fields
BY DEF NoField, Fields, Numbers, Absent

-----------------------------------------------------------------------------
(***************************************************************************)
(* The inductive invariant.                                                *)
(***************************************************************************)

\* Which function runs next fits conn->state.
Control ==
  /\ pc \in {"recv", "process"} => state = "RECV_REQUEST"
  /\ pc = "length" => state \in {"RECV_REQUEST", "SEND_HEADER"}
  /\ pc = "header" => state = "SEND_HEADER"
  /\ pc = "reply" => state = "SEND_REPLY"
  /\ pc \in {"cleanup", "freed"} => state = "DONE"
  /\ pc = "select" => state # "DONE"

\* A connection that receives is as new, but for the bytes it has received.
Fresh ==
  state = "RECV_REQUEST" =>
    /\ asked = NoRequest /\ range = NoRange
    /\ http_code = 0 /\ ~header_only /\ reply_start = 0 /\ reply_length = 0
    /\ header_sent = 0 /\ reply_sent = 0 /\ total_sent = 0
    /\ ptr \subseteq {"request"}

\* The members that are set are those that are allocated.
Owns == ptr = live /\ (pc = "freed" => live = {})

\* A request is unlogged as long as log_connection would still log it.
OneLine == unlogged = IF pc # "freed" /\ Logged THEN 1 ELSE 0

\* Header first, then the body, as far as conn->state says.
Sending ==
  /\ SentInOrder
  /\ state \in {"SEND_HEADER", "SEND_REPLY"} => http_code # 0
  /\ state = "SEND_HEADER" => header_sent < HeaderLength /\ reply_sent = 0
  /\ state = "SEND_REPLY" => header_sent = HeaderLength /\ ~header_only
  /\ pc = "length" => header_sent = 0

\* TypeOK in two parts, which the provers reason about differently.
Flags == header_only \in BOOLEAN /\ conn_close \in BOOLEAN /\ fault \in BOOLEAN

OtherTypes ==
  /\ pc \in {"freed", "select", "recv", "process", "length", "header", "reply",
             "cleanup"}
  /\ state \in {"RECV_REQUEST", "SEND_HEADER", "SEND_REPLY", "DONE"}
  /\ idle \in 0..timeout_secs
  /\ ptr \subseteq Resources /\ live \subseteq Resources /\ lost \subseteq Resources
  /\ request_length \in Nat
  /\ asked \in RequestType
  /\ range \in Ranges
  /\ header_sent \in 0..HeaderLength
  /\ http_code \in {0, 200, 206, 301, 304, 400, 401, 403, 404, 413, 416, 500, 501}
  /\ reply_type \in {"GENERATED", "FROMFILE"}
  /\ reply_start \in 0..OffMax
  /\ reply_length \in 0..OffMax
  /\ reply_sent \in 0..OffMax
  /\ total_sent \in Nat
  /\ told \in ToldType
  /\ file \in 0..OffMax
  /\ unlogged \in 0..1

Inv == TypeOK /\ Control /\ Fresh /\ Owns /\ OneLine /\ Sending

\* The values the members start from have their types.
LEMMA FreshTypes ==
  /\ NoRequest \in RequestType
  /\ NoRange \in Ranges
  /\ Untold \in ToldType
BY NoRangeType, NoFieldType, OffMaxAssumption DEF NoRequest, RequestType, Untold, ToldType

LEMMA InvInit == Init => Inv
<1> SUFFICES ASSUME Init PROVE Inv
  OBVIOUS
<1>1. Flags
  BY DEF Init, Flags
<1>2. OtherTypes
  BY FreshTypes, ConnectionAssumption, OffMaxAssumption DEF Init, OtherTypes
<1>3. TypeOK
  BY <1>1, <1>2 DEF TypeOK, OtherTypes, Flags
<1> QED
  BY <1>3, ConnectionAssumption
     DEF Init, Inv, Control, Fresh, Owns, OneLine, Sending, SentInOrder

\* new_connection.
LEMMA InvAccept == Inv /\ Accept => Inv'
<1> SUFFICES ASSUME Inv, Accept PROVE Inv'
  OBVIOUS
<1>1. Flags'
  BY DEF Accept, ClearMembers, ClearAnswer, Flags
<1>2. OtherTypes'
  BY FreshTypes, ConnectionAssumption, OffMaxAssumption
     DEF Accept, ClearMembers, ClearRequest, ClearRange, ClearAnswer, ClearProgress,
         Inv, TypeOK, OtherTypes
<1>3. TypeOK'
  BY <1>1, <1>2 DEF TypeOK, OtherTypes, Flags
<1> QED
  BY <1>3
     DEF Accept, ClearMembers, ClearRequest, ClearRange, ClearAnswer, ClearProgress,
         Inv, Control, Fresh, Owns, OneLine, Logged, Sending, SentInOrder

\* recycle_connection.
LEMMA InvRecycle == Inv /\ recycle_connection => Inv'
<1> SUFFICES ASSUME Inv, recycle_connection PROVE Inv'
  OBVIOUS
<1>1. TypeOK'
  <2>1. Flags'
    BY DEF recycle_connection, ClearMembers, ClearAnswer, Flags
  <2>2. unlogged' \in 0..1 /\ live' = {} /\ lost' \subseteq Resources
    BY DEF recycle_connection, Inv, TypeOK, OneLine, log_connection, free_members
  <2>3. OtherTypes'
    BY <2>2, FreshTypes, ConnectionAssumption, OffMaxAssumption
       DEF recycle_connection, ClearMembers, ClearRequest, ClearRange, ClearAnswer,
           ClearProgress, Inv, TypeOK, OtherTypes
  <2> QED
    BY <2>1, <2>3 DEF TypeOK, OtherTypes, Flags
<1> USE DEF recycle_connection, ClearMembers, ClearRequest, ClearRange, ClearAnswer,
            ClearProgress
<1>2. Control' /\ Fresh' /\ Owns'
  BY DEF Control, Fresh, Owns, free_members
<1>3. OneLine'
  BY DEF Inv, Owns, OneLine, Logged, log_connection
<1>4. Sending'
  BY DEF Sending, SentInOrder
<1> QED
  BY <1>1, <1>2, <1>3, <1>4 DEF Inv

\* The header announces what it is formatted from.
LEMMA TellType ==
  ASSUME NEW length \in 0..OffMax \cup {NoLength}, NEW size \in 0..OffMax,
         Tell(length, size)
  PROVE  /\ told' \in ToldType
         /\ told'.length = length /\ told'.size = size
         /\ told'.keep <=> ~conn_close'
<1>1. told' \in ToldType
  BY DEF Tell, ToldType
<1>2. told'.length = length /\ told'.size = size
  BY DEF Tell
<1>3. told'.keep <=> ~conn_close'
  BY DEF Tell
<1> QED
  BY <1>1, <1>2, <1>3

\* What every generated page leaves behind.
LEMMA PageType ==
  ASSUME NEW code, GeneratedReply(code)
  PROVE  /\ http_code' = code
         /\ reply_type' = "GENERATED"
         /\ reply_length' = PageLength
         /\ reply_length' \in 0..OffMax
         /\ told' \in ToldType
         /\ told'.length = reply_length'
         /\ told'.keep <=> ~conn_close'
<1>1. PageLength \in 0..OffMax \cup {NoLength} /\ 0 \in 0..OffMax
  BY ConnectionAssumption, OffMaxAssumption
<1>2. http_code' = code /\ reply_type' = "GENERATED" /\ reply_length' = PageLength
  BY DEF GeneratedReply
<1>3. told' \in ToldType /\ told'.length = PageLength /\ (told'.keep <=> ~conn_close')
  BY <1>1, TellType DEF GeneratedReply
<1> QED
  BY <1>2, <1>3, ConnectionAssumption

\* The 413 page, over an answer or over none.
LEMMA InvTooLong == Inv /\ TooLong => Inv'
<1> SUFFICES ASSUME Inv, TooLong PROVE Inv'
  OBVIOUS
<1>1. /\ http_code' = 413 /\ reply_type' = "GENERATED" /\ reply_start' = 0
      /\ reply_length' \in 0..OffMax
      /\ told' \in ToldType
  BY PageType DEF TooLong, default_reply
<1>2. /\ ptr' = live' /\ ptr' \subseteq Resources /\ lost' \subseteq Resources
      /\ "method" \in ptr' <=> "method" \in ptr
  BY DEF TooLong, Assign, Page, Resources, Inv, TypeOK, Owns
<1>3. state \in {"RECV_REQUEST", "SEND_HEADER"} /\ header_sent = 0 /\ reply_sent = 0
  BY DEF TooLong, Inv, Control, Fresh, Sending
<1>4. TypeOK'
  BY <1>1, <1>2, OffMaxAssumption DEF TooLong, request, progress, Inv, TypeOK
<1>5. state = "RECV_REQUEST" => "method" \notin ptr
  BY DEF Inv, Fresh
<1>6. OneLine'
  BY <1>1, <1>2, <1>3, <1>5 DEF TooLong, Inv, Sending, OneLine, Logged
<1> QED
  BY <1>1, <1>2, <1>3, <1>4, <1>6, ConnectionAssumption
     DEF TooLong, progress, Inv, Control, Fresh, Owns, Sending, SentInOrder

\* What process_request sets: the method always, the request never.
LEMMA ProcessAssigns ==
  ASSUME NEW r,
         \/ BadRequest(r) \/ redirect_https(r) \/ Unauthorized(r)
         \/ GetPage(r) \/ GetNoFile(r) \/ GetNotModified(r)
         \/ GetFile(r) \/ GetNotSatisfiable(r)
         \/ NotImplemented(r)
  PROVE  \E S \in SUBSET (Resources \ {"request"}) :
           "method" \in S /\ AssignAndDropRequest(S)
<1> DEFINE Members == SUBSET (Resources \ {"request"})
<1>1. /\ \A url \in SUBSET {"url"} : {"method"} \cup url \cup Page \in Members
      /\ Parsed \cup Page \in Members
      /\ Parsed \cup Page \cup {"reply_fd"} \in Members
      /\ Parsed \cup {"header", "reply_fd"} \in Members
      /\ "method" \in Parsed
  BY DEF Parsed, Page, Resources
<1>2. CASE BadRequest(r)
  BY <1>1, <1>2 DEF BadRequest
<1>3. CASE ~BadRequest(r)
  <2>1. \/ AssignAndDropRequest(Parsed \cup Page)
        \/ AssignAndDropRequest(Parsed \cup Page \cup {"reply_fd"})
        \/ AssignAndDropRequest(Parsed \cup {"header", "reply_fd"})
    BY <1>3 DEF redirect_https, Unauthorized, GetPage, GetNoFile, GetNotModified,
       GetFile, GetNotSatisfiable, NotImplemented
  <2> QED
    BY <1>1, <2>1
<1> QED
  BY <1>2, <1>3

\* process_request.
LEMMA InvProcess == Inv /\ ProcessRequest => Inv'
<1> SUFFICES ASSUME Inv, ProcessRequest PROVE Inv'
  OBVIOUS
<1> USE ConnectionAssumption, OffMaxAssumption
<1>1. PICK r \in Requests :
       /\ asked' = r
       /\ parse_request(r)
       /\ \/ BadRequest(r) \/ redirect_https(r) \/ Unauthorized(r)
          \/ GetPage(r) \/ GetNoFile(r) \/ GetNotModified(r)
          \/ GetFile(r) \/ GetNotSatisfiable(r)
          \/ NotImplemented(r)
  BY DEF ProcessRequest
<1>2. /\ state = "RECV_REQUEST" /\ pc = "process"
      /\ state' = "SEND_HEADER" /\ pc' = "length" /\ unlogged' = unlogged + 1
      /\ idle' = idle /\ request_length' = request_length /\ fault' = fault
      /\ header_sent' = header_sent /\ reply_sent' = reply_sent /\ total_sent' = total_sent
  BY DEF ProcessRequest, Inv, Control, progress
<1>3. r \in RequestType /\ asked' \in RequestType
  BY <1>1
<1>4. range' \in Ranges /\ conn_close' \in BOOLEAN
  <2>1. r.range \in Fields /\ r.wellformed \in BOOLEAN /\ r.keep \in BOOLEAN
    BY <1>3 DEF RequestType
  <2>2. parse_range_field(range, r.range) \in Ranges
    BY <2>1, ParsedRangeType DEF Inv, TypeOK
  <2> QED
    BY <1>1, <2>1, <2>2 DEF parse_request, Inv, TypeOK
<1>5. /\ ptr' = live' /\ "method" \in ptr' /\ ptr' \subseteq Resources
      /\ lost' \subseteq Resources
  <2>1. \E S \in SUBSET (Resources \ {"request"}) :
          "method" \in S /\ AssignAndDropRequest(S)
    BY <1>1, ProcessAssigns
  <2>2. PICK S \in SUBSET Resources : "method" \in S /\ AssignAndDropRequest(S)
    BY <2>1
  <2> QED
    BY <2>2 DEF AssignAndDropRequest, Inv, TypeOK, Owns
<1>6. /\ http_code' \in {200, 206, 301, 304, 400, 401, 403, 404, 413, 416, 500, 501}
      /\ reply_type' \in {"GENERATED", "FROMFILE"}
      /\ reply_start' \in 0..OffMax /\ reply_length' \in 0..OffMax
      /\ told' \in ToldType
      /\ file' \in 0..OffMax
  <2> USE <1>3, <1>4, PageType DEF default_reply, redirect, generate_dir_listing, Inv, TypeOK
  <2>1. CASE BadRequest(r)
    BY <2>1 DEF BadRequest
  <2>2. CASE redirect_https(r)
    BY <2>2 DEF redirect_https
  <2>3. CASE Unauthorized(r)
    BY <2>3 DEF Unauthorized
  <2>4. CASE GetPage(r)
    BY <2>4 DEF GetPage
  <2>5. CASE GetNoFile(r)
    BY <2>5 DEF GetNoFile
  <2>6. CASE GetNotModified(r)
    <3>1. NoLength \in 0..OffMax \cup {NoLength} /\ 0 \in 0..OffMax
      OBVIOUS
    <3>2. told' \in ToldType
      BY <2>6, <3>1, TellType DEF GetNotModified
    <3> QED
      BY <2>6, <3>1, <3>2 DEF GetNotModified
  <2>7. CASE GetFile(r)
    <3>1. PICK size \in FileSizes : 
       /\ file' = size
       /\ RangeStatus(range', size) # 416
       /\ http_code' = RangeStatus(range', size)
       /\ reply_type' = "FROMFILE"
       /\ Slice(size)
       /\ Tell(reply_length', size)
      BY <2>7 DEF GetFile
    <3>2. size \in 0..OffMax
      OBVIOUS
    <3>3. ReplyStart(range', size) \in 0..OffMax /\ ReplyLength(range', size) \in 0..OffMax
      BY <3>1, <3>2, SliceBounds
    <3>4. RangeStatus(range', size) \in {200, 206, 416}
      BY DEF RangeStatus
    <3> QED
      BY <2>7, <3>1, <3>2, <3>3, <3>4, TellType DEF GetFile, Slice
  <2>8. CASE GetNotSatisfiable(r)
    BY <2>8 DEF GetNotSatisfiable
  <2>9. CASE NotImplemented(r)
    BY <2>9 DEF NotImplemented
  <2> QED
    BY <1>1, <2>1, <2>2, <2>3, <2>4, <2>5, <2>6, <2>7, <2>8, <2>9
<1>7. header_only' \in BOOLEAN
  BY <1>1 DEF BadRequest, redirect_https, Unauthorized, GetPage, GetNoFile,
       GetNotModified, GetFile, GetNotSatisfiable, NotImplemented, Inv, TypeOK
<1>8. OtherTypes'
  BY <1>2, <1>3, <1>4, <1>5, <1>6 DEF Inv, TypeOK, OtherTypes, Fresh, OneLine, Logged
<1>9. TypeOK'
  BY <1>2, <1>4, <1>7, <1>8 DEF Inv, TypeOK, OtherTypes
<1> QED
  BY <1>2, <1>5, <1>6, <1>9
     DEF Inv, TypeOK, Control, Fresh, Owns, OneLine, Logged, Sending, SentInOrder

\* Every step keeps the invariant.
LEMMA InvNext == Inv /\ [Next]_vars => Inv'
<1> SUFFICES ASSUME Inv, [Next]_vars PROVE Inv'
  OBVIOUS
<1> USE ConnectionAssumption, OffMaxAssumption
    DEF Inv, TypeOK, Control, Fresh, Owns, OneLine, Logged, Sending, SentInOrder,
        heap, request, answer, progress
<1>1. CASE RecvWouldBlock
  BY <1>1 DEF RecvWouldBlock
<1>2. CASE RecvClosed
  BY <1>2 DEF RecvClosed
<1>3. CASE RecvBytes
  BY <1>3 DEF RecvBytes, Resources
<1>4. CASE LengthOK
  BY <1>4 DEF LengthOK
<1>5. CASE SendWouldBlock
  BY <1>5 DEF SendWouldBlock
<1>6. CASE SendFails
  BY <1>6 DEF SendFails
<1>7. CASE SendHeader
  BY <1>7 DEF SendHeader
<1>8. CASE SendReply
  BY <1>8 DEF SendReply, DoneSending, Remaining
<1>9. CASE SendReplyNothing
  BY <1>9 DEF SendReplyNothing
<1>10. CASE VisitExpired
  BY <1>10 DEF VisitExpired
<1>11. CASE VisitReady
  BY <1>11 DEF VisitReady
<1>12. CASE Free
  BY <1>12 DEF Free, log_connection, free_members
<1>13. CASE Tick
  BY <1>13 DEF Tick
<1>14. CASE Truncate
  BY <1>14 DEF Truncate
<1>15. CASE UNCHANGED vars
  BY <1>15 DEF vars
<1> HIDE DEF Inv
<1> QED
  BY <1>1, <1>2, <1>3, <1>4, <1>5, <1>6, <1>7, <1>8, <1>9, <1>10, <1>11, <1>12, <1>13,
     <1>14, <1>15, InvAccept, InvRecycle, InvProcess, InvTooLong DEF Next

LEMMA Invariant == Spec => []Inv
BY InvInit, InvNext, PTL DEF Spec

-----------------------------------------------------------------------------
(***************************************************************************)
(* What follows from the invariant alone.                                  *)
(***************************************************************************)

\* Every member of struct connection keeps its type; the counters of bytes
\* stay within what they count.
THEOREM TypeCorrect == Spec => []TypeOK
BY Invariant, PTL DEF Inv

\* No pointer survives what it points to, on any path (free_connection and the
\* free(conn->request) of process_request).
THEOREM NothingDangles == Spec => []NoDangling
<1>1. Inv => NoDangling
  BY DEF Inv, Owns, NoDangling
<1> QED
  BY <1>1, Invariant, PTL

\* Header, then body, never past its end, and total_sent is their sum
\* (poll_send_header, poll_send_reply).
THEOREM BytesInOrder == Spec => []SentInOrder
<1>1. Inv => SentInOrder
  BY DEF Inv, Sending
<1> QED
  BY <1>1, Invariant, PTL

\* However an answer ends, its request is logged when the connection is freed
\* or recycled (log_connection).
THEOREM EveryRequestIsLogged == Spec => []EveryRequestLogged
<1>1. Inv => EveryRequestLogged
  BY DEF Inv, OneLine, Fresh, Logged, EveryRequestLogged
<1> QED
  BY <1>1, Invariant, PTL

-----------------------------------------------------------------------------
(***************************************************************************)
(* The answer belongs to the request.                                      *)
(***************************************************************************)
Denied(r) == auth_key /\ ~r.creds

PageAnswer ==
  /\ reply_type = "GENERATED"
  /\ reply_start = 0 /\ reply_length \in {0, PageLength}
  /\ Denied(asked) => http_code \notin {200, 206, 304} /\ "reply_fd" \notin ptr

FileAnswer ==
  LET r == parse_range_field(NoRange, asked.range)
  IN  /\ reply_type = "FROMFILE"
      /\ ~Denied(asked)
      /\ http_code = RangeStatus(r, told.size) /\ http_code # 416
      /\ reply_start = ReplyStart(r, told.size)
      /\ reply_length = ReplyLength(r, told.size)

Answering ==
  http_code # 0 =>
    /\ PageAnswer \/ FileAnswer
    /\ header_only => asked.method = "HEAD" \/ asked.unmodified

\* Steps that leave the request, its answer and what is owned alone.
LEMMA AnswerUntouched ==
  ASSUME Answering, UNCHANGED <<asked, answer>>, ptr' \in {ptr, {}}
  PROVE  Answering'
BY DEF Answering, PageAnswer, FileAnswer, Denied, answer

\* process_request and process_get.
LEMMA AnswerProcess == Inv /\ ProcessRequest => Answering'
<1> SUFFICES ASSUME Inv, ProcessRequest PROVE Answering'
  OBVIOUS
<1>1. PICK r \in Requests :
       /\ asked' = r
       /\ parse_request(r)
       /\ \/ BadRequest(r) \/ redirect_https(r) \/ Unauthorized(r)
          \/ GetPage(r) \/ GetNoFile(r) \/ GetNotModified(r)
          \/ GetFile(r) \/ GetNotSatisfiable(r)
          \/ NotImplemented(r)
  BY DEF ProcessRequest
<1>2. range = NoRange /\ reply_start = 0 /\ ~header_only /\ ptr \subseteq {"request"}
  BY DEF ProcessRequest, Inv, Control, Fresh
<1>3. r.wellformed => range' = parse_range_field(NoRange, r.range)
  BY <1>1, <1>2 DEF parse_request
<1>4. header_only' => asked'.method = "HEAD" \/ asked'.unmodified
  BY <1>1, <1>2 DEF BadRequest, redirect_https, Unauthorized, GetPage, GetNoFile,
     GetNotModified, GetFile, GetNotSatisfiable, NotImplemented
<1>5. CASE BadRequest(r) \/ redirect_https(r) \/ Unauthorized(r) \/ NotImplemented(r)
  <2>1. reply_type' = "GENERATED" /\ reply_start' = 0 /\ reply_length' = PageLength
    BY <1>2, <1>5, PageType
       DEF BadRequest, redirect_https, Unauthorized, NotImplemented, redirect, default_reply
  <2>2. http_code' \in {301, 400, 401, 501}
    BY <1>2, <1>5, PageType
       DEF BadRequest, redirect_https, Unauthorized, NotImplemented, redirect, default_reply
  <2>3. "reply_fd" \notin ptr'
    BY <1>2, <1>5
       DEF BadRequest, redirect_https, Unauthorized, NotImplemented,
           AssignAndDropRequest, Parsed, Page
  <2> QED
    BY <1>4, <2>1, <2>2, <2>3 DEF Answering, PageAnswer
<1>6. CASE GetPage(r) \/ GetNoFile(r) \/ GetNotModified(r) \/ GetNotSatisfiable(r)
  <2>1. reply_type' = "GENERATED" /\ reply_start' = 0 /\ reply_length' \in {0, PageLength}
    BY <1>2, <1>6, PageType
       DEF GetPage, GetNoFile, GetNotModified, GetNotSatisfiable, redirect,
           default_reply, generate_dir_listing
  <2>2. ~Denied(r)
    BY <1>6 DEF GetPage, GetNoFile, GetNotModified, GetNotSatisfiable, Gets, Accepted,
       Refused, Denied
  <2> QED
    BY <1>1, <1>4, <2>1, <2>2 DEF Answering, PageAnswer, Denied
<1>7. CASE GetFile(r)
  <2>1. PICK size \in FileSizes :
       /\ RangeStatus(range', size) # 416
       /\ http_code' = RangeStatus(range', size)
       /\ reply_type' = "FROMFILE"
       /\ Slice(size)
       /\ Tell(reply_length', size)
    BY <1>7 DEF GetFile
  <2>2. told'.size = size
    BY <2>1 DEF Tell
  <2>3. ~Denied(r) /\ range' = parse_range_field(NoRange, r.range)
    BY <1>3, <1>7 DEF GetFile, Gets, Accepted, Refused, Denied
  <2>4. reply_start' = ReplyStart(range', size) /\ reply_length' = ReplyLength(range', size)
    BY <1>2, <2>1 DEF Slice, ReplyStart
  <2> QED
    BY <1>1, <1>4, <2>1, <2>2, <2>3, <2>4 DEF Answering, FileAnswer, Denied
<1> QED
  BY <1>1, <1>5, <1>6, <1>7

\* The 413 page.
LEMMA AnswerTooLong == Inv /\ Answering /\ TooLong => Answering'
<1> SUFFICES ASSUME Inv, Answering, TooLong PROVE Answering'
  OBVIOUS
<1>1. /\ http_code' = 413 /\ reply_type' = "GENERATED" /\ reply_start' = 0
      /\ reply_length' = PageLength
  BY PageType DEF TooLong, default_reply
<1>2. asked' = asked /\ header_only' = header_only
  BY DEF TooLong, request
<1>3. "reply_fd" \in ptr' => "reply_fd" \in ptr
  BY DEF TooLong, Assign, Page
<1>4. http_code = 0 => ~header_only /\ ptr \subseteq {"request"}
  BY DEF TooLong, Inv, Control, Fresh, Sending
<1> QED
  BY <1>1, <1>2, <1>3, <1>4 DEF Answering, PageAnswer, FileAnswer, Denied

LEMMA AnswerNext == Inv /\ Answering /\ [Next]_vars => Answering'
<1> SUFFICES ASSUME Inv, Answering, [Next]_vars PROVE Answering'
  OBVIOUS
<1>1. CASE Accept \/ recycle_connection
  BY <1>1 DEF Accept, recycle_connection, ClearMembers, ClearAnswer, Answering
<1>2. CASE RecvBytes
  BY <1>2 DEF RecvBytes, answer, Answering, Inv, Control, Fresh
<1>3. CASE ProcessRequest
  BY <1>3, AnswerProcess
<1>4. CASE TooLong
  BY <1>4, AnswerTooLong
<1>5. CASE \/ RecvWouldBlock \/ RecvClosed \/ LengthOK
           \/ SendWouldBlock \/ SendFails \/ SendHeader \/ SendReply \/ SendReplyNothing
           \/ VisitExpired \/ VisitReady \/ Free \/ Tick \/ Truncate
           \/ UNCHANGED vars
  <2>1. UNCHANGED <<asked, answer>> /\ ptr' \in {ptr, {}}
    BY <1>5 DEF RecvWouldBlock, RecvClosed, LengthOK, SendWouldBlock, SendFails,
       SendHeader, SendReply, SendReplyNothing, VisitExpired, VisitReady, Free, Tick,
       Truncate, vars, request, heap
  <2> QED
    BY <2>1, AnswerUntouched
<1> QED
  BY <1>1, <1>2, <1>3, <1>4, <1>5 DEF Next

LEMMA AnsweringInvariant == Spec => []Answering
<1>1. Init => Answering
  BY DEF Init, Answering
<1> QED
  BY <1>1, AnswerNext, Invariant, PTL DEF Spec

\* Nothing of an earlier request shows in the answer to this one, whatever the
\* requests and their order (recycle_connection).
THEOREM AnswerFitsItsRequest == Spec => []AnswerFitsRequest
<1>1. Answering => AnswerFitsRequest
  BY DEF Answering, PageAnswer, FileAnswer, AnswerFitsRequest
<1> QED
  BY <1>1, AnsweringInvariant, PTL

\* The order of process_request's tests keeps everything from clients without
\* credentials: no file is opened for them and no answer of 200 or 304 made.
THEOREM RefusedGetsNothing == Spec => []RefusedGetNothing
<1>1. Answering => RefusedGetNothing
  BY DEF Answering, PageAnswer, FileAnswer, Denied, RefusedGetNothing
<1> QED
  BY <1>1, AnsweringInvariant, PTL

\* A slice of a file is inside the file, and a page is sent from its start.
LEMMA ReadsInside == ASSUME Inv, Answering PROVE ReadsInsideReply
<1> SUFFICES ASSUME state \in {"SEND_HEADER", "SEND_REPLY"}
             PROVE  reply_start + reply_length
                      <= IF reply_type = "GENERATED" THEN PageLength ELSE told.size
  BY DEF ReadsInsideReply
<1>1. PageAnswer \/ FileAnswer
  BY DEF Inv, Sending, Answering
<1>2. CASE PageAnswer
  BY <1>2, ConnectionAssumption DEF PageAnswer
<1>3. CASE FileAnswer
  <2> DEFINE r == parse_range_field(NoRange, asked.range)
  <2>1. told.size \in 0..OffMax /\ asked.range \in Fields
    BY DEF Inv, TypeOK, ToldType, RequestType
  <2>2. r \in Ranges
    BY <2>1, NoRangeType, ParsedRangeType
  <2> QED
    BY <1>3, <2>1, <2>2, SliceBounds DEF FileAnswer
<1> QED
  BY <1>1, <1>2, <1>3

\* Whatever is sent lies in the page, or in the file as it was when its size
\* was asked for (reply_start and reply_length of process_get, default_reply).
THEOREM ReadsAreInsideReply == Spec => []ReadsInsideReply
<1>1. Inv /\ Answering => ReadsInsideReply
  BY ReadsInside
<1> QED
  BY <1>1, Invariant, AnsweringInvariant, PTL
-----------------------------------------------------------------------------
(***************************************************************************)
(* What a client may count on, and under which conditions: the properties  *)
(* of Connection that its code keeps only as long as no complete request   *)
(* is over the length limit, HEAD comes only from clients that are let in, *)
(* and no file is empty.  Each theorem names the conditions it needs; runs *)
(* of TLC show the properties violated where a condition does not hold.    *)
(***************************************************************************)
WithinLimit   == ClientMax <= MAX_REQUEST_LENGTH
HeadsAccepted == \A r \in Requests : r.method = "HEAD" => Accepted(r)
NoEmptyFile   == 0 \notin FileSizes

-----------------------------------------------------------------------------
(***************************************************************************)
(* Memory.                                                                 *)
(***************************************************************************)
Tidy == lost = {} /\ request_length <= ClientMax

LEMMA NeverTooLong == ASSUME WithinLimit, Inv, Tidy PROVE ~TooLong
BY ConnectionAssumption DEF WithinLimit, Tidy, TooLong, Inv, TypeOK

LEMMA TidyNext == ASSUME WithinLimit, Inv, Tidy, [Next]_vars PROVE Tidy'
<1>1. ~TooLong
  BY NeverTooLong
<1>2. CASE Accept \/ recycle_connection
  BY <1>2, ConnectionAssumption
     DEF Accept, recycle_connection, ClearMembers, ClearRequest, free_members, Inv, Owns, Tidy
<1>3. CASE RecvBytes
  BY <1>3 DEF RecvBytes, Tidy
<1>4. CASE ProcessRequest
  <2>1. live \subseteq {"request"} /\ request_length' = request_length
    BY <1>4 DEF ProcessRequest, Inv, Control, Fresh, Owns
  <2>2. PICK S \in SUBSET (Resources \ {"request"}) : AssignAndDropRequest(S)
    BY <1>4, ProcessAssigns DEF ProcessRequest
  <2>3. lost' = lost
    BY <2>1, <2>2 DEF AssignAndDropRequest
  <2> QED
    BY <1>1, <2>1, <2>3 DEF Tidy
<1>5. CASE Free
  BY <1>1, <1>5 DEF Free, free_members, request, Inv, Owns, Tidy
<1>6. CASE \/ RecvWouldBlock \/ RecvClosed \/ LengthOK
           \/ SendWouldBlock \/ SendFails \/ SendHeader \/ SendReply \/ SendReplyNothing
           \/ VisitExpired \/ VisitReady \/ Tick \/ Truncate
           \/ UNCHANGED vars
  <2>1. UNCHANGED <<lost, request_length>>
    BY <1>6 DEF RecvWouldBlock, RecvClosed, LengthOK, SendWouldBlock, SendFails,
       SendHeader, SendReply, SendReplyNothing, VisitExpired, VisitReady, Tick,
       Truncate, vars, request, heap
  <2> QED
    BY <1>1, <2>1 DEF Tidy
<1> QED
  BY <1>1, <1>2, <1>3, <1>4, <1>5, <1>6 DEF Next

LEMMA TidyInvariant == ASSUME WithinLimit PROVE Spec => []Tidy
<1>1. Init => Tidy
  BY ConnectionAssumption DEF Init, Tidy
<1>2. Inv /\ Tidy /\ [Next]_vars => Tidy'
  BY TidyNext
<1> QED
  BY <1>1, <1>2, Invariant, PTL DEF Spec

\* As long as no complete request is over the limit, nothing a connection has
\* allocated or opened is lost (free_connection frees what every member holds,
\* and no member is set twice for one request).
THEOREM NothingLeaks == ASSUME WithinLimit PROVE Spec => []NoLeak
<1>1. Inv /\ Tidy => NoLeak
  BY DEF Inv, Owns, Tidy, NoLeak
<1> QED
  BY <1>1, Invariant, TidyInvariant, PTL

-----------------------------------------------------------------------------
(***************************************************************************)
(* Framing.                                                                *)
(***************************************************************************)
BodyAnnounced ==
  http_code # 0 =>
    /\ header_only <=> asked.method = "HEAD" \/ http_code = 304
    /\ ~header_only => reply_length = told.length
    /\ ~conn_close => told.keep

WholeAnswerSent ==
  state = "DONE" /\ ~conn_close =>
    /\ http_code # 0
    /\ header_sent = HeaderLength
    /\ ~header_only => reply_sent = reply_length

Framing == BodyAnnounced /\ WholeAnswerSent

LEMMA FramingProcess ==
  ASSUME HeadsAccepted, Inv, ProcessRequest PROVE Framing'
<1>1. PICK r \in Requests :
       /\ asked' = r
       /\ \/ BadRequest(r) \/ redirect_https(r) \/ Unauthorized(r)
          \/ GetPage(r) \/ GetNoFile(r) \/ GetNotModified(r)
          \/ GetFile(r) \/ GetNotSatisfiable(r)
          \/ NotImplemented(r)
  BY DEF ProcessRequest
<1>2. ~header_only /\ state' = "SEND_HEADER"
  BY DEF ProcessRequest, Inv, Control, Fresh
<1>3. CASE BadRequest(r) \/ redirect_https(r) \/ Unauthorized(r) \/ NotImplemented(r)
  <2>1. header_only' = header_only /\ r.method # "HEAD"
    BY <1>3
       DEF HeadsAccepted, Accepted, BadRequest, redirect_https, Unauthorized,
           NotImplemented
  <2>2. PICK code \in {301, 400, 401, 501} : GeneratedReply(code)
    BY <1>3 DEF BadRequest, redirect_https, Unauthorized, NotImplemented, redirect,
       default_reply
  <2>3. http_code' # 304 /\ reply_length' = told'.length /\ (~conn_close' => told'.keep)
    BY <2>2, PageType
  <2> QED
    BY <1>1, <1>2, <2>1, <2>3 DEF Framing, BodyAnnounced, WholeAnswerSent
<1>4. CASE GetPage(r) \/ GetNoFile(r) \/ GetNotSatisfiable(r)
  <2>1. header_only' <=> r.method = "HEAD"
    BY <1>2, <1>4 DEF GetPage, GetNoFile, GetNotSatisfiable
  <2>2. PICK code \in {200, 301, 400, 403, 404, 416, 500} : GeneratedReply(code)
    BY <1>4 DEF GetPage, GetNoFile, GetNotSatisfiable, redirect, default_reply,
       generate_dir_listing
  <2>3. http_code' # 304 /\ reply_length' = told'.length /\ (~conn_close' => told'.keep)
    BY <2>2, PageType
  <2> QED
    BY <1>1, <1>2, <2>1, <2>3 DEF Framing, BodyAnnounced, WholeAnswerSent
<1>5. CASE GetNotModified(r)
  BY <1>1, <1>2, <1>5 DEF GetNotModified, Tell, Framing, BodyAnnounced, WholeAnswerSent
<1>6. CASE GetFile(r)
  <2>1. PICK size \in FileSizes :
          http_code' = RangeStatus(range', size) /\ Tell(reply_length', size)
    BY <1>6 DEF GetFile
  <2>2. http_code' # 304
    BY <2>1 DEF RangeStatus
  <2>3. header_only' <=> r.method = "HEAD"
    BY <1>2, <1>6 DEF GetFile
  <2>4. reply_length' = told'.length /\ (~conn_close' => told'.keep)
    BY <2>1 DEF Tell
  <2> QED
    BY <1>1, <1>2, <2>2, <2>3, <2>4 DEF Framing, BodyAnnounced, WholeAnswerSent
<1> QED
  BY <1>1, <1>3, <1>4, <1>5, <1>6

LEMMA FramingNext ==
  ASSUME HeadsAccepted, Inv, Framing, ~TooLong, [Next]_vars PROVE Framing'
<1> USE DEF Framing, BodyAnnounced, WholeAnswerSent
<1>1. CASE Accept \/ recycle_connection
  BY <1>1 DEF Accept, recycle_connection, ClearMembers, ClearAnswer
<1>2. CASE RecvBytes
  BY <1>2 DEF RecvBytes, answer, progress, Inv, Control, Fresh
<1>3. CASE ProcessRequest
  BY <1>3, FramingProcess
<1>4. CASE RecvClosed \/ SendFails \/ SendReplyNothing \/ VisitExpired
  BY <1>4 DEF RecvClosed, SendFails, SendReplyNothing, VisitExpired, request, answer
<1>5. CASE RecvWouldBlock \/ LengthOK \/ SendWouldBlock \/ VisitReady \/ Tick \/ Truncate
           \/ Free \/ UNCHANGED vars
  BY <1>5 DEF RecvWouldBlock, LengthOK, SendWouldBlock, VisitReady, Tick, Truncate, Free,
     vars, request, answer, progress
<1>6. CASE SendHeader
  BY <1>6, ConnectionAssumption
     DEF SendHeader, request, answer, Inv, TypeOK, Control, Sending
<1>7. CASE SendReply
  BY <1>7 DEF SendReply, DoneSending, request, answer, Inv, TypeOK, Control, Sending
<1> QED
  BY <1>1, <1>2, <1>3, <1>4, <1>5, <1>6, <1>7 DEF Next

LEMMA FramingInvariant ==
  ASSUME WithinLimit, HeadsAccepted PROVE Spec => []Framing
<1>1. Init => Framing
  BY DEF Init, Framing, BodyAnnounced, WholeAnswerSent
<1>2. Inv /\ Tidy /\ Framing /\ [Next]_vars => Framing'
  BY TidyNext, NeverTooLong, FramingNext
<1> QED
  BY <1>1, <1>2, Invariant, TidyInvariant, PTL DEF Spec

\* A connection that goes on to the next request has sent the whole header,
\* and the whole body the header announced to the method the client used.
THEOREM KeptConnectionsAreFramed ==
  ASSUME WithinLimit, HeadsAccepted PROVE Spec => []KeepAliveFramed
<1>1. Inv /\ Framing => KeepAliveFramed
  BY DEF Inv, Control, Sending, SentInOrder, Framing, BodyAnnounced, WholeAnswerSent,
     KeepAliveFramed, BodyLength, TypeOK
<1> QED
  BY <1>1, Invariant, FramingInvariant, PTL

-----------------------------------------------------------------------------
(***************************************************************************)
(* The announced keep-alive.                                               *)
(***************************************************************************)

\* Until the client or the file system fails, the announcement is what
\* conn_close says, and there is something to send whenever sending goes on.
Honest ==
  /\ http_code = 0 => ~told.keep
  /\ http_code # 0 /\ ~fault =>
       /\ told.keep <=> ~conn_close
       /\ reply_type = "FROMFILE" => file = told.size
  /\ http_code # 0 /\ ~header_only => reply_length > 0
  /\ state = "SEND_REPLY" => reply_sent < reply_length

LEMMA HonestProcess ==
  ASSUME NoEmptyFile, Inv, ProcessRequest PROVE Honest'
<1>1. PICK r \in Requests :
       /\ asked' = r
       /\ parse_request(r)
       /\ \/ BadRequest(r) \/ redirect_https(r) \/ Unauthorized(r)
          \/ GetPage(r) \/ GetNoFile(r) \/ GetNotModified(r)
          \/ GetFile(r) \/ GetNotSatisfiable(r)
          \/ NotImplemented(r)
  BY DEF ProcessRequest
<1>2. state' = "SEND_HEADER"
  BY DEF ProcessRequest
<1>3. CASE \/ BadRequest(r) \/ redirect_https(r) \/ Unauthorized(r) \/ NotImplemented(r)
           \/ GetPage(r) \/ GetNoFile(r) \/ GetNotSatisfiable(r)
  <2>1. PICK code \in {200, 301, 400, 401, 403, 404, 416, 500, 501} : GeneratedReply(code)
    BY <1>3 DEF BadRequest, redirect_https, Unauthorized, NotImplemented, GetPage,
       GetNoFile, GetNotSatisfiable, redirect, default_reply, generate_dir_listing
  <2>2. /\ http_code' # 0 /\ reply_type' = "GENERATED" /\ reply_length' = PageLength
        /\ told'.keep <=> ~conn_close'
    BY <2>1, PageType
  <2>3. PageLength > 0
    BY ConnectionAssumption, OffMaxAssumption
  <2> QED
    BY <1>2, <2>2, <2>3 DEF Honest
<1>4. CASE GetNotModified(r)
  <2>1. http_code' = 304 /\ header_only' /\ reply_type' = "GENERATED"
    BY <1>4 DEF GetNotModified
  <2>2. told'.keep <=> ~conn_close'
    BY <1>4 DEF GetNotModified, Tell
  <2> QED
    BY <1>2, <2>1, <2>2 DEF Honest
<1>5. CASE GetFile(r)
  <2>1. PICK size \in FileSizes :
       /\ file' = size
       /\ RangeStatus(range', size) # 416
       /\ http_code' = RangeStatus(range', size)
       /\ Slice(size)
       /\ Tell(reply_length', size)
    BY <1>5 DEF GetFile
  <2>2. size \in 0..OffMax /\ size > 0
    BY ConnectionAssumption, OffMaxAssumption DEF NoEmptyFile
  <2>3. range' \in Ranges
    BY InvProcess DEF Inv, TypeOK
  <2>4. http_code' # 0 /\ reply_length' > 0
    BY <2>1, <2>2, <2>3, SliceBounds DEF Slice, RangeStatus, ReplyLength
  <2>5. told'.size = size
    BY <2>1 DEF Tell
  <2>6. told'.keep <=> ~conn_close'
    BY <2>1 DEF Tell
  <2> QED
    BY <1>2, <2>1, <2>4, <2>5, <2>6 DEF Honest
<1> QED
  BY <1>1, <1>3, <1>4, <1>5

\* While the file is as it was, a call of sendfile() has something to send.
LEMMA SomethingToSend ==
  ASSUME Inv, Answering, Honest, pc = "reply", ~fault PROVE Remaining > 0
<1>1. http_code # 0 /\ reply_sent < reply_length
  BY DEF Inv, Control, Sending, Honest
<1>2. reply_start + reply_length <= file \/ reply_type = "GENERATED"
  <2>1. ReadsInsideReply
    BY ReadsInside
  <2> QED
    BY <1>1, <2>1 DEF Inv, TypeOK, Control, ReadsInsideReply, Honest
<1> QED
  BY <1>1, <1>2 DEF Remaining, Inv, TypeOK

LEMMA HonestNext ==
  ASSUME NoEmptyFile, Inv, Answering, Honest, ~TooLong, [Next]_vars PROVE Honest'
<1>1. CASE Accept \/ recycle_connection
  BY <1>1 DEF Accept, recycle_connection, ClearMembers, ClearAnswer, Untold, Honest
<1>2. CASE RecvBytes
  BY <1>2 DEF RecvBytes, answer, progress, Inv, Control, Fresh, Honest
<1>3. CASE ProcessRequest
  BY <1>3, HonestProcess
<1>4. CASE RecvClosed \/ SendFails \/ VisitExpired \/ Truncate
  BY <1>4 DEF RecvClosed, SendFails, VisitExpired, Truncate, answer, progress, Honest
<1>5. CASE SendReplyNothing
  BY <1>5, SomethingToSend DEF SendReplyNothing, answer, progress, Honest, Inv, TypeOK,
     Remaining
<1>6. CASE RecvWouldBlock \/ LengthOK \/ SendWouldBlock \/ VisitReady \/ Tick \/ Free
           \/ UNCHANGED vars
  BY <1>6 DEF RecvWouldBlock, LengthOK, SendWouldBlock, VisitReady, Tick, Free,
     vars, answer, progress, Honest
<1>7. CASE SendHeader
  BY <1>7 DEF SendHeader, answer, Inv, TypeOK, Control, Sending, Honest
<1>8. CASE SendReply
  BY <1>8 DEF SendReply, DoneSending, Remaining, answer, Inv, TypeOK, Control, Sending,
     SentInOrder, Honest
<1> QED
  BY <1>1, <1>2, <1>3, <1>4, <1>5, <1>6, <1>7, <1>8 DEF Next

LEMMA HonestInvariant ==
  ASSUME WithinLimit, NoEmptyFile PROVE Spec => []Honest
<1>1. Init => Honest
  BY DEF Init, Untold, Honest
<1>2. Inv /\ Tidy /\ Answering /\ Honest /\ [Next]_vars => Honest'
  BY NeverTooLong, HonestNext
<1> QED
  BY <1>1, <1>2, Invariant, TidyInvariant, AnsweringInvariant, PTL DEF Spec

\* A client told its connection is kept, that neither stalls nor fails, and
\* whose file stays whole, is not disconnected (keep_alive, conn_close).
THEOREM KeepAliveIsHonoured ==
  ASSUME WithinLimit, NoEmptyFile PROVE Spec => []KeepAliveHonoured
<1>1. Honest => KeepAliveHonoured
  BY DEF Honest, KeepAliveHonoured
<1> QED
  BY <1>1, HonestInvariant, PTL

-----------------------------------------------------------------------------
(***************************************************************************)
(* Connection implements HttpExchange.                                     *)
(***************************************************************************)
LEMMA ExchangeInit == Init => Exchange!Init
BY DEF Init, Exchange!Init, Exchange!Quiet, Phase, Untold

\* What the client is still owed can be counted.
LEMMA PromiseIsNat ==
  ASSUME Inv, Framing, http_code # 0
  PROVE  /\ HeaderLength + BodyLength \in Nat
         /\ BodyLength = IF header_only THEN 0 ELSE reply_length
BY ConnectionAssumption DEF Inv, TypeOK, Framing, BodyAnnounced, BodyLength

LEMMA SumsKeepOrder ==
  ASSUME NEW a \in Nat, NEW b \in Nat, NEW c \in Nat, b <= c PROVE a + b <= a + c
OBVIOUS

LEMMA ExchangeNext ==
  ASSUME Inv, Inv', Framing, Framing', ~TooLong, [Next]_vars
  PROVE  [Exchange!Next]_Exchange!vars
<1> USE DEF Exchange!vars, Phase
<1>1. CASE Accept
  BY <1>1 DEF Accept, ClearMembers, ClearAnswer, Exchange!Next, Exchange!Connect
<1>2. CASE ProcessRequest
  <2>1. pc = "process" /\ pc' = "length" /\ http_code = 0 /\ total_sent = 0 /\ total_sent' = 0
    BY <1>2 DEF ProcessRequest, progress, Inv, Control, Fresh
  <2>2. http_code' # 0
    BY <1>2 DEF ProcessRequest, Inv, Sending
  <2>3. (HeaderLength + BodyLength)' \in Nat
    BY <2>2, ConnectionAssumption
       DEF Inv, TypeOK, ToldType, Framing, BodyAnnounced, BodyLength
  <2>4. told'.keep \in BOOLEAN
    BY DEF Inv, TypeOK, ToldType
  <2>5. Exchange!Promise
    BY <2>1, <2>2, <2>3, <2>4 DEF Exchange!Promise
  <2> QED
    BY <2>5 DEF Exchange!Next
<1>3. CASE Free
  BY <1>3 DEF Free, Exchange!Next, Exchange!Hangup, Exchange!Quiet
<1>4. CASE recycle_connection
  <2>1. http_code # 0 /\ told.keep /\ total_sent = HeaderLength + BodyLength
    BY <1>4, PromiseIsNat DEF recycle_connection, Framing, BodyAnnounced, WholeAnswerSent,
       Inv, Control, Sending, SentInOrder, TypeOK
  <2>2. pc' = "select" /\ pc = "cleanup" /\ http_code' = 0
    BY <1>4 DEF recycle_connection, ClearMembers, ClearAnswer
  <2> QED
    BY <2>1, <2>2 DEF Exchange!Next, Exchange!NextAnswer, Exchange!Quiet
<1>5. CASE SendHeader \/ SendReply
  <2>1. /\ http_code # 0 /\ http_code' = http_code /\ asked' = asked /\ told' = told
        /\ pc # "freed" /\ pc' # "freed"
        /\ header_only' = header_only /\ reply_length' = reply_length
    BY <1>5 DEF SendHeader, SendReply, answer, request, Inv, Control, Sending
  <2>2. BodyLength' = BodyLength
    BY <2>1 DEF BodyLength
  <2>3. total_sent' > total_sent
    BY <1>5 DEF SendHeader, SendReply, Inv, TypeOK, Remaining
  <2>4. total_sent' <= HeaderLength + BodyLength
    <3>1. CASE SendHeader
      BY <2>1, <3>1, PromiseIsNat, ConnectionAssumption
         DEF SendHeader, Inv, TypeOK, Control, Sending, SentInOrder
    <3>2. CASE SendReply
      <4>1. header_sent' = HeaderLength /\ ~header_only
        BY <3>2 DEF SendReply, Inv, Control, Sending
      <4>2. total_sent' <= HeaderLength + reply_length'
        <5>1. HeaderLength \in Nat /\ reply_sent' \in Nat /\ reply_length' \in Nat
          BY ConnectionAssumption DEF Inv, TypeOK
        <5>2. reply_sent' <= reply_length' /\ total_sent' = header_sent' + reply_sent'
          BY DEF Inv, Sending, SentInOrder
        <5>3. HeaderLength + reply_sent' <= HeaderLength + reply_length'
          BY <5>1, <5>2, SumsKeepOrder
        <5> QED
          BY <4>1, <5>2, <5>3
      <4>3. BodyLength = reply_length'
        BY <2>1, <4>1, PromiseIsNat
      <4> QED
        BY <4>2, <4>3
    <3> QED
      BY <1>5, <3>1, <3>2
  <2> QED
    BY <2>1, <2>2, <2>3, <2>4 DEF Exchange!Next, Exchange!Send
<1>6. CASE \/ RecvWouldBlock \/ RecvClosed \/ RecvBytes \/ LengthOK
           \/ SendWouldBlock \/ SendFails \/ SendReplyNothing
           \/ VisitExpired \/ VisitReady \/ Tick \/ Truncate
           \/ UNCHANGED vars
  <2>1. (pc = "freed" <=> pc' = "freed") /\ http_code' = http_code /\ told' = told /\ total_sent' = total_sent
    BY <1>6 DEF RecvWouldBlock, RecvClosed, RecvBytes, LengthOK, SendWouldBlock, SendFails,
       SendReplyNothing, VisitExpired, VisitReady, Tick, Truncate, vars, answer, progress
  <2>2. asked' = asked
    BY <1>6 DEF RecvWouldBlock, RecvClosed, RecvBytes, LengthOK, SendWouldBlock, SendFails,
       SendReplyNothing, VisitExpired, VisitReady, Tick, Truncate, vars, request
  <2>3. BodyLength' = BodyLength
    BY <2>1, <2>2 DEF BodyLength
  <2> QED
    BY <2>1, <2>3
<1> QED
  BY <1>1, <1>2, <1>3, <1>4, <1>5, <1>6 DEF Next

\* The connection is a sequence of exchanges as its client expects them: every
\* step of a handler is a step of HttpExchange or leaves what the client sees.
THEOREM ConnectionImplementsExchange ==
  ASSUME WithinLimit, HeadsAccepted PROVE Spec => ImplementsExchange
<1>1. Inv /\ Inv' /\ Tidy /\ Framing /\ Framing' /\ [Next]_vars
        => [Exchange!Next]_Exchange!vars
  BY NeverTooLong, ExchangeNext
<1> QED
  BY <1>1, ExchangeInit, Invariant, TidyInvariant, FramingInvariant, PTL
     DEF Spec, ImplementsExchange, Exchange!Spec
=============================================================================
