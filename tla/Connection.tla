------------------------------ MODULE Connection ------------------------------
(***************************************************************************)
(* One struct connection of darkhttpd, from accept() to close(), with      *)
(* everything its handlers do to it: receive a request, process it, send   *)
(* the header, send the reply, and then be freed or recycled for the next  *)
(* request of a kept-alive connection.                                     *)
(*                                                                         *)
(* httpd_poll runs a handler to its end before anything else of the        *)
(* program runs, but the client and the file system go on meanwhile.  So   *)
(* a handler is cut at its system calls: pc names the function that runs   *)
(* next, "select" while the connection waits for httpd_poll to visit it.   *)
(* What a system call returns is chosen freely among what it can return.   *)
(***************************************************************************)
EXTENDS RangeField

CONSTANTS
  MAX_REQUEST_LENGTH,
  RecvBuf,            \* most bytes one recv() returns: sizeof(buf)
  ClientMax,          \* longest request clients send
  HeaderLength,       \* length of a reply's header
  PageLength,         \* length of a generated page
  FileSizes,          \* sizes of the served files
  Requests,           \* what clients send once it is complete
  want_keepalive, auth_key, forward_to_https,   \* command-line options
  timeout_secs

\* A request as its handlers see it: whether parse_request succeeds, the
\* method, whether the client's version and Connection field ask to keep the
\* connection, whether X-Forwarded-Proto names another protocol than https,
\* whether the credentials are right, the Range field, and whether
\* If-Modified-Since is the file's date.
RequestType ==
  [wellformed : BOOLEAN, method : {"GET", "HEAD", "OTHER"}, keep : BOOLEAN,
   plain : BOOLEAN, creds : BOOLEAN, range : Fields, unmodified : BOOLEAN]

NoRequest ==
  [wellformed |-> FALSE, method |-> "OTHER", keep |-> FALSE, plain |-> FALSE,
   creds |-> FALSE, range |-> NoField, unmodified |-> FALSE]

ASSUME ConnectionAssumption ==
  /\ MAX_REQUEST_LENGTH \in Nat
  /\ RecvBuf \in Nat \ {0}
  /\ ClientMax \in Nat
  /\ HeaderLength \in Nat \ {0}
  /\ PageLength \in 1..OffMax
  /\ FileSizes \subseteq 0..OffMax
  /\ Requests \subseteq RequestType
  /\ want_keepalive \in BOOLEAN
  /\ auth_key \in BOOLEAN
  /\ forward_to_https \in BOOLEAN
  /\ timeout_secs \in Nat

VARIABLES
  pc,              \* where control is
  state,           \* conn->state
  idle,            \* now - conn->last_active, counted up to timeout_secs
  \* What the connection owns.  "fields" stands for referer, user_agent,
  \* authorization and forwarded_for, which are set and freed together.
  ptr,             \* members that hold a pointer, or a descriptor in reply_fd
  live,            \* members whose pointee is allocated, or open
  lost,            \* members whose pointee was overwritten without being freed
  request_length,
  range,           \* range_begin, range_end, range_begin_given, range_end_given
  header_sent, header_only, http_code, conn_close,
  reply_type, reply_start, reply_length, reply_sent, total_sent,
  \* The world.
  asked,           \* the request being answered, NoRequest if there is none
  told,            \* what the header says: Content-Length, kept alive or not;
                   \* and the size the served file had when it was opened
  file,            \* size of the file behind reply_fd now
  fault,           \* the client or the file system let the connection down
  unlogged         \* requests processed and not yet logged

request  == <<request_length, asked>>
heap     == <<ptr, live, lost>>
answer   == <<http_code, header_only, reply_type, reply_start, reply_length, told>>
progress == <<header_sent, reply_sent, total_sent>>
vars == <<pc, state, idle, heap, request, range, answer, progress, conn_close,
          file, fault, unlogged>>

Resources == {"request", "method", "url", "fields", "header", "reply", "reply_fd"}

NoLength == -1      \* a header without Content-Length
ToldType == [length : 0..OffMax \cup {NoLength}, keep : BOOLEAN, size : 0..OffMax]
Untold == [length |-> NoLength, keep |-> FALSE, size |-> 0]

-----------------------------------------------------------------------------
(***************************************************************************)
(* The members new_connection and recycle_connection both set; reply_type  *)
(* is not among them.                                                      *)
(***************************************************************************)

ClearRequest == asked' = NoRequest /\ request_length' = 0

\* Mutant: the range of the last request is kept.
KeepRange == range' = range

ClearRange == range' = NoRange

\* Mutant: header_only is kept.
KeepHeaderOnly ==
  /\ http_code' = 0 /\ header_only' = header_only
  /\ reply_start' = 0 /\ reply_length' = 0
  /\ told' = Untold

ClearAnswer ==
  /\ http_code' = 0 /\ header_only' = FALSE
  /\ reply_start' = 0 /\ reply_length' = 0
  /\ told' = Untold

\* Mutant: the count of body bytes sent is kept.
KeepReplySent == header_sent' = 0 /\ reply_sent' = reply_sent /\ total_sent' = 0

ClearProgress == header_sent' = 0 /\ reply_sent' = 0 /\ total_sent' = 0

ClearMembers ==
  /\ ClearRequest
  /\ ClearRange
  /\ ClearAnswer
  /\ ClearProgress
  /\ conn_close' = TRUE
  /\ ptr' = {}
  /\ file' = 0

\* new_connection, as accept_connection completes it; the handler for
\* requests runs at once.  The struct is fresh memory, reply_type included.
Accept ==
  /\ pc = "freed"
  /\ ClearMembers
  /\ live' = {}
  /\ reply_type' \in {"GENERATED", "FROMFILE"}
  /\ state' = "RECV_REQUEST"
  /\ pc' = "recv"
  /\ idle' = 0
  /\ fault' = FALSE
  /\ UNCHANGED <<lost, unlogged>>

Init ==
  /\ pc = "freed"
  /\ state = "DONE"
  /\ idle = 0
  /\ ptr = {} /\ live = {} /\ lost = {}
  /\ request_length = 0 /\ asked = NoRequest /\ range = NoRange
  /\ http_code = 0 /\ header_only = FALSE /\ told = Untold
  /\ reply_type = "GENERATED" /\ reply_start = 0 /\ reply_length = 0
  /\ header_sent = 0 /\ reply_sent = 0 /\ total_sent = 0
  /\ conn_close = TRUE
  /\ file = 0 /\ fault = FALSE /\ unlogged = 0

-----------------------------------------------------------------------------
(***************************************************************************)
(* The heap.                                                               *)
(***************************************************************************)

\* The members of S get newly allocated values; what they held is lost.
Assign(S) ==
  /\ ptr' = ptr \cup S
  /\ live' = live \cup S
  /\ lost' = lost \cup (S \cap live)

\* Mutant: the request is freed and its pointer left.
AssignKeepRequest(S) ==
  /\ ptr' = ptr \cup S
  /\ live' = (live \cup S) \ {"request"}
  /\ lost' = lost \cup (S \cap live)

\* process_request's assignments, and its free(conn->request) at the end.
AssignAndDropRequest(S) ==
  /\ ptr' = (ptr \cup S) \ {"request"}
  /\ live' = (live \cup S) \ {"request"}
  /\ lost' = lost \cup (S \cap live)

-----------------------------------------------------------------------------
(***************************************************************************)
(* poll_recv_request.                                                      *)
(***************************************************************************)

RecvWouldBlock ==
  /\ pc = "recv"
  /\ pc' = "select"
  /\ UNCHANGED <<state, idle, heap, request, range, answer, progress,
                 conn_close, file, fault, unlogged>>

\* recv() fails, or the client has closed its end.
RecvClosed ==
  /\ pc = "recv"
  /\ conn_close' = TRUE
  /\ state' = "DONE"
  /\ pc' = "cleanup"
  /\ fault' = TRUE
  /\ UNCHANGED <<idle, heap, request, range, answer, progress, file, unlogged>>

\* n more bytes; they may end with the empty line that completes a request,
\* "\n\n" after at least one other byte being the shortest.
RecvBytes ==
  /\ pc = "recv"
  /\ \E n \in 1..RecvBuf :
       /\ request_length + n <= ClientMax
       /\ request_length' = request_length + n
       /\ \/ pc' = "length"
          \/ request_length + n > 2 /\ pc' = "process"
  /\ idle' = 0
  /\ ptr' = ptr \cup {"request"}
  /\ live' = live \cup {"request"}
  /\ UNCHANGED <<state, lost, asked, range, answer, progress, conn_close,
                 file, fault, unlogged>>

(***************************************************************************)
(* The answers of process_request.  r is the request.                      *)
(***************************************************************************)

Parsed == {"method", "url", "fields"}
Page   == {"header", "reply"}

\* Mutant: the connection is announced as kept whenever the server keeps any.
TellWanted(length, size) ==
  told' = [length |-> length, keep |-> want_keepalive, size |-> size]

\* The header is formatted from conn_close and the length of the body.
Tell(length, size) ==
  told' = [length |-> length, keep |-> ~conn_close', size |-> size]

\* redirect and generate_dir_listing leave reply_start as it is.
GeneratedReply(code) ==
  /\ http_code' = code
  /\ reply_type' = "GENERATED"
  /\ reply_length' = PageLength
  /\ Tell(PageLength, 0)

redirect == GeneratedReply(301) /\ UNCHANGED reply_start

generate_dir_listing == GeneratedReply(200) /\ UNCHANGED reply_start

\* Mutant: reply_start is not reset.
default_reply_keeps_start(code) == GeneratedReply(code) /\ UNCHANGED reply_start

default_reply(code) == GeneratedReply(code) /\ reply_start' = 0

\* parse_request's conn_close and range.
parse_request(r) ==
  /\ conn_close' = (~r.wellformed \/ ~r.keep \/ ~want_keepalive)
  /\ range' = IF r.wellformed THEN parse_range_field(range, r.range) ELSE range

\* It may fail before or after the URL is copied.
BadRequest(r) ==
  /\ ~r.wellformed
  /\ default_reply(400)
  /\ \E url \in SUBSET {"url"} :
       AssignAndDropRequest({"method"} \cup url \cup Page)
  /\ UNCHANGED <<header_only, file>>

needs_https_redirect(r) == r.wellformed /\ forward_to_https /\ r.plain

\* 400 when the URL is not safe or there is no Host field.
redirect_https(r) ==
  /\ needs_https_redirect(r)
  /\ redirect \/ default_reply(400)
  /\ AssignAndDropRequest(Parsed \cup Page)
  /\ UNCHANGED <<header_only, file>>

\* Mutant: a HEAD request needs no credentials.
RefusedUnlessHead(r) == auth_key /\ ~r.creds /\ r.method # "HEAD"

Refused(r) == auth_key /\ ~r.creds

Unauthorized(r) ==
  /\ r.wellformed /\ ~needs_https_redirect(r) /\ Refused(r)
  /\ default_reply(401)
  /\ AssignAndDropRequest(Parsed \cup Page)
  /\ UNCHANGED <<header_only, file>>

Accepted(r) == r.wellformed /\ ~needs_https_redirect(r) /\ ~Refused(r)

NotImplemented(r) ==
  /\ Accepted(r) /\ r.method = "OTHER"
  /\ default_reply(501)
  /\ AssignAndDropRequest(Parsed \cup Page)
  /\ UNCHANGED <<header_only, file>>

(***************************************************************************)
(* process_get, for GET and HEAD.                                          *)
(***************************************************************************)

Gets(r) == Accepted(r) /\ r.method \in {"GET", "HEAD"}

\* Before any file is opened: an unsafe URL, a name that must not or cannot be
\* opened, a directory that cannot be listed; a forwarded host; a listing.
GetPage(r) ==
  /\ Gets(r)
  /\ \/ \E code \in {400, 403, 404, 500} : default_reply(code)
     \/ redirect
     \/ generate_dir_listing
  /\ header_only' = (header_only \/ r.method = "HEAD")
  /\ AssignAndDropRequest(Parsed \cup Page)
  /\ UNCHANGED file

\* After open(): fstat() fails, or it is a directory, or not a regular file.
GetNoFile(r) ==
  /\ Gets(r)
  /\ redirect \/ \E code \in {403, 500} : default_reply(code)
  /\ header_only' = (header_only \/ r.method = "HEAD")
  /\ AssignAndDropRequest(Parsed \cup Page \cup {"reply_fd"})
  /\ UNCHANGED file

GetNotModified(r) ==
  /\ Gets(r) /\ r.unmodified
  /\ http_code' = 304
  /\ reply_type' = "GENERATED"
  /\ reply_length' = 0
  /\ Tell(NoLength, 0)
  /\ header_only' = TRUE
  /\ AssignAndDropRequest(Parsed \cup {"header", "reply_fd"})
  /\ file' \in FileSizes
  /\ UNCHANGED reply_start

Slice(size) ==
  /\ reply_start' = IF RangeGiven(range') THEN ReplyStart(range', size) ELSE reply_start
  /\ reply_length' = ReplyLength(range', size)

GetFile(r) ==
  /\ Gets(r) /\ ~r.unmodified
  /\ \E size \in FileSizes :
       /\ file' = size
       /\ RangeStatus(range', size) # 416
       /\ http_code' = RangeStatus(range', size)
       /\ reply_type' = "FROMFILE"
       /\ Slice(size)
       /\ Tell(reply_length', size)
  /\ header_only' = (header_only \/ r.method = "HEAD")
  /\ AssignAndDropRequest(Parsed \cup {"header", "reply_fd"})

GetNotSatisfiable(r) ==
  /\ Gets(r) /\ ~r.unmodified
  /\ \E size \in FileSizes : file' = size /\ RangeStatus(range', size) = 416
  /\ default_reply(416)
  /\ header_only' = (header_only \/ r.method = "HEAD")
  /\ AssignAndDropRequest(Parsed \cup Page \cup {"reply_fd"})

ProcessRequest ==
  /\ pc = "process"
  /\ \E r \in Requests :
       /\ asked' = r
       /\ parse_request(r)
       /\ \/ BadRequest(r) \/ redirect_https(r) \/ Unauthorized(r)
          \/ GetPage(r) \/ GetNoFile(r) \/ GetNotModified(r)
          \/ GetFile(r) \/ GetNotSatisfiable(r)
          \/ NotImplemented(r)
  /\ state' = "SEND_HEADER"
  /\ pc' = "length"
  /\ unlogged' = unlogged + 1
  /\ UNCHANGED <<idle, request_length, progress, fault>>

(***************************************************************************)
(* The rest of poll_recv_request: the length is checked whether or not the *)
(* request has just been answered.                                         *)
(***************************************************************************)
TooLong ==
  /\ pc = "length"
  /\ request_length > MAX_REQUEST_LENGTH
  /\ UNCHANGED conn_close
  /\ default_reply(413)
  /\ Assign(Page)
  /\ state' = "SEND_HEADER"
  /\ pc' = "header"
  /\ UNCHANGED <<idle, request, range, header_only, progress, file, fault, unlogged>>

LengthOK ==
  /\ pc = "length"
  /\ request_length <= MAX_REQUEST_LENGTH
  /\ pc' = IF state = "SEND_HEADER" THEN "header" ELSE "select"
  /\ UNCHANGED <<state, idle, heap, request, range, answer, progress, conn_close,
                 file, fault, unlogged>>

-----------------------------------------------------------------------------
(***************************************************************************)
(* poll_send_header and poll_send_reply.                                   *)
(***************************************************************************)

\* send() or sendfile() would block; last_active is set even so.
SendWouldBlock ==
  /\ pc \in {"header", "reply"}
  /\ idle' = 0
  /\ pc' = "select"
  /\ UNCHANGED <<state, heap, request, range, answer, progress, conn_close,
                 file, fault, unlogged>>

\* Any other error of send() or sendfile(): the client is gone.
SendFails ==
  /\ pc \in {"header", "reply"}
  /\ idle' = 0
  /\ conn_close' = TRUE
  /\ state' = "DONE"
  /\ pc' = "cleanup"
  /\ fault' = TRUE
  /\ UNCHANGED <<heap, request, range, answer, progress, file, unlogged>>

SendHeader ==
  /\ pc = "header"
  /\ \E n \in 1..(HeaderLength - header_sent) :
       /\ header_sent' = header_sent + n
       /\ total_sent' = total_sent + n
       /\ IF header_sent + n < HeaderLength THEN state' = state /\ pc' = "select"
          ELSE IF header_only THEN state' = "DONE" /\ pc' = "cleanup"
          ELSE state' = "SEND_REPLY" /\ pc' = "reply"
  /\ idle' = 0
  /\ UNCHANGED <<heap, request, range, answer, reply_sent, conn_close,
                 file, fault, unlogged>>

\* Bytes left that can be sent: the file may end before the reply does.
Remaining ==
  IF reply_type = "GENERATED" \/ reply_start + reply_length <= file
  THEN reply_length - reply_sent
  ELSE file - (reply_start + reply_sent)

\* Mutant: the bytes skipped at the start of the file count as sent.
DoneSendingFromStart(n) == reply_start + reply_sent + n >= reply_length

DoneSending(n) == reply_sent + n = reply_length

SendReply ==
  /\ pc = "reply"
  /\ \E n \in 1..Remaining :
       /\ reply_sent' = reply_sent + n
       /\ total_sent' = total_sent + n
       /\ IF DoneSending(n) THEN state' = "DONE" /\ pc' = "cleanup"
          ELSE state' = state /\ pc' = "select"
  /\ idle' = 0
  /\ UNCHANGED <<heap, request, range, answer, header_sent, conn_close,
                 file, fault, unlogged>>

\* A call that has nothing to send returns 0, which is taken for closure.
SendReplyNothing ==
  /\ pc = "reply"
  /\ Remaining <= 0
  /\ idle' = 0
  /\ conn_close' = TRUE
  /\ state' = "DONE"
  /\ pc' = "cleanup"
  /\ UNCHANGED <<heap, request, range, answer, progress, file, fault, unlogged>>

-----------------------------------------------------------------------------
(***************************************************************************)
(* httpd_poll's part: the visit, and what is done with a finished          *)
(* connection.                                                             *)
(***************************************************************************)

\* poll_check_timeout.
Expired == timeout_secs > 0 /\ idle >= timeout_secs

VisitExpired ==
  /\ pc = "select"
  /\ Expired
  /\ conn_close' = TRUE
  /\ state' = "DONE"
  /\ pc' = "cleanup"
  /\ fault' = TRUE
  /\ UNCHANGED <<idle, heap, request, range, answer, progress, file, unlogged>>

\* select() reports the socket readable or writable, whichever was asked for.
VisitReady ==
  /\ pc = "select"
  /\ ~Expired
  /\ \/ state = "RECV_REQUEST" /\ pc' = "recv"
     \/ state = "SEND_HEADER" /\ pc' = "header"
     \/ state = "SEND_REPLY" /\ pc' = "reply"
  /\ UNCHANGED <<state, idle, heap, request, range, answer, progress, conn_close,
                 file, fault, unlogged>>

\* Mutant: an answer of which nothing was sent is not logged.
LoggedIfSent == http_code # 0 /\ "method" \in ptr /\ total_sent > 0

\* log_connection writes a line for an answered request that was parsed.
Logged == http_code # 0 /\ "method" \in ptr

log_connection == unlogged' = IF Logged THEN unlogged - 1 ELSE unlogged

\* Mutant: the file behind reply_fd is not closed.
free_all_but_file ==
  /\ live' = {}
  /\ lost' = lost \cup (live \ ptr) \cup (live \cap {"reply_fd"})

\* free_connection: every member that is not NULL is freed.
free_members ==
  /\ live' = {}
  /\ lost' = lost \cup (live \ ptr)

Free ==
  /\ pc = "cleanup"
  /\ conn_close
  /\ log_connection
  /\ free_members
  /\ ptr' = {}
  /\ pc' = "freed"
  /\ UNCHANGED <<state, idle, request, range, answer, progress, conn_close,
                 file, fault>>

recycle_connection ==
  /\ pc = "cleanup"
  /\ ~conn_close
  /\ log_connection
  /\ free_members
  /\ ClearMembers
  /\ state' = "RECV_REQUEST"
  /\ pc' = "select"
  /\ fault' = FALSE
  /\ UNCHANGED <<idle, reply_type>>

(***************************************************************************)
(* The world: time passes while httpd_poll waits, and a file being served  *)
(* can be cut short.                                                       *)
(***************************************************************************)
Tick ==
  /\ pc = "select"
  /\ idle < timeout_secs
  /\ idle' = idle + 1
  /\ UNCHANGED <<pc, state, heap, request, range, answer, progress, conn_close,
                 file, fault, unlogged>>

Truncate ==
  /\ "reply_fd" \in live
  /\ \E size \in FileSizes : size < file /\ file' = size
  /\ fault' = TRUE
  /\ UNCHANGED <<pc, state, idle, heap, request, range, answer, progress, conn_close,
                 unlogged>>

Next ==
  \/ Accept
  \/ RecvWouldBlock \/ RecvClosed \/ RecvBytes
  \/ ProcessRequest
  \/ TooLong \/ LengthOK
  \/ SendWouldBlock \/ SendFails
  \/ SendHeader \/ SendReply \/ SendReplyNothing
  \/ VisitExpired \/ VisitReady
  \/ Free \/ recycle_connection
  \/ Tick \/ Truncate

Spec == Init /\ [][Next]_vars

-----------------------------------------------------------------------------
(***************************************************************************)
(* Properties.                                                             *)
(***************************************************************************)

TypeOK ==
  /\ pc \in {"freed", "select", "recv", "process", "length", "header", "reply",
             "cleanup"}
  /\ state \in {"RECV_REQUEST", "SEND_HEADER", "SEND_REPLY", "DONE"}
  /\ idle \in 0..timeout_secs
  /\ ptr \subseteq Resources /\ live \subseteq Resources /\ lost \subseteq Resources
  /\ request_length \in Nat
  /\ asked \in RequestType
  /\ range \in Ranges
  /\ header_sent \in 0..HeaderLength
  /\ header_only \in BOOLEAN
  /\ http_code \in {0, 200, 206, 301, 304, 400, 401, 403, 404, 413, 416, 500, 501}
  /\ conn_close \in BOOLEAN
  /\ reply_type \in {"GENERATED", "FROMFILE"}
  /\ reply_start \in 0..OffMax
  /\ reply_length \in 0..OffMax
  /\ reply_sent \in 0..OffMax
  /\ total_sent \in Nat
  /\ told \in ToldType
  /\ file \in 0..OffMax
  /\ fault \in BOOLEAN
  /\ unlogged \in 0..1

\* No member ever points to what has been freed, so nothing is used or freed
\* twice ("important: don't free it again later", process_request; the NULLs
\* recycle_connection stores).
NoDangling == ptr \subseteq live

\* Nothing allocated or opened for a connection is overwritten before it is
\* freed, or left out when the connection is freed ("cleanly deallocate its
\* internals", free_connection).
NoLeak == lost = {} /\ live \subseteq ptr

\* What is about to be read of the reply lies inside it: inside the page that
\* was generated, or inside the file as it was when the header was written,
\* whatever requests the connection served before (reply_start).
ReadsInsideReply ==
  state \in {"SEND_HEADER", "SEND_REPLY"} =>
    reply_start + reply_length <= IF reply_type = "GENERATED" THEN PageLength ELSE told.size

\* The slice and status of a file answer are those the current request asks
\* for, and the body is withheld only from HEAD and from a client whose copy
\* is current: nothing of an earlier request on the connection shows.
AnswerFitsRequest ==
  http_code # 0 =>
    /\ reply_type = "FROMFILE" =>
         LET r == parse_range_field(NoRange, asked.range)
         IN  /\ http_code = RangeStatus(r, told.size)
             /\ reply_start = ReplyStart(r, told.size)
             /\ reply_length = ReplyLength(r, told.size)
    /\ header_only => asked.method = "HEAD" \/ asked.unmodified

\* The header goes first and whole, the body never passes the reply's end, and
\* total_sent, the number the log line shows, is the bytes sent for this answer.
SentInOrder ==
  /\ total_sent = header_sent + reply_sent
  /\ reply_sent > 0 => header_sent = HeaderLength /\ ~header_only
  /\ reply_sent <= reply_length

\* With --auth, whoever does not give the credentials is never served a file,
\* a listing or a 304: nothing is even opened (process_request's order of
\* tests), and no file of an earlier, accepted request is still there.
RefusedGetNothing ==
  http_code # 0 /\ auth_key /\ ~asked.creds =>
    reply_type = "GENERATED" /\ "reply_fd" \notin ptr /\ http_code \notin {200, 206, 304}

\* When a connection is freed, and when it waits for its next request, every
\* request it processed has been logged, however its answer ended: delivered,
\* timed out, or cut off by an error (log_connection in free_connection).
EveryRequestLogged == pc = "freed" \/ state = "RECV_REQUEST" => unlogged = 0

\* The bytes of body the client expects from what it asked and was told.
BodyLength ==
  IF asked.method = "HEAD" \/ http_code = 304 THEN 0 ELSE told.length

\* A connection that goes on to its next request has sent exactly the answer
\* its client expects to the last one: the client finds the next answer where
\* it looks for it (test.py, get_keepalive).
KeepAliveFramed ==
  pc = "cleanup" /\ ~conn_close =>
    told.keep /\ header_sent = HeaderLength /\ reply_sent = BodyLength

\* A client that was told the connection is kept, and that neither fell silent
\* nor failed, is not disconnected (keep_alive announces what conn_close says).
KeepAliveHonoured ==
  pc = "cleanup" /\ conn_close /\ ~fault => ~told.keep

-----------------------------------------------------------------------------
(***************************************************************************)
(* What the client sees, see HttpExchange.                                 *)
(***************************************************************************)
Phase ==
  IF pc = "freed" THEN "closed" ELSE IF http_code = 0 THEN "idle" ELSE "answering"

Exchange == INSTANCE HttpExchange WITH
  phase   <- Phase,
  promise <- IF Phase = "answering" THEN HeaderLength + BodyLength ELSE 0,
  kept    <- Phase = "answering" /\ told.keep,
  sent    <- IF Phase = "answering" THEN total_sent ELSE 0

\* The connection is a sequence of exchanges as its client expects them.
ImplementsExchange == Exchange!Spec
=============================================================================
