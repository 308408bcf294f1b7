----------------------------- MODULE RequestText -----------------------------
(***************************************************************************)
(* The text of requests on one connection: a client writes them, recv()    *)
(* returns them in any pieces, poll_recv_request looks for the empty line, *)
(* and parse_request and parse_field take the buffer apart again.          *)
(*                                                                         *)
(* A text is a sequence of tokens: a blank, a CR, an LF, a NUL, or a word  *)
(* (upper and lower case are one token).                                   *)
(***************************************************************************)
EXTENDS Naturals, SequencesExt

CONSTANTS
  Requests,           \* what clients ask: see RequestType
  LineEnds,
  Options,            \* want_keepalive, and auth_key or None
  MAX_REQUEST_LENGTH,
  MaxRequests,        \* bound: requests a client sends
  Words, None

SP  == "SP"
CR  == "CR"
LF  == "LF"
Nul == "NUL"
Tokens == Words \cup {SP, CR, LF, Nul}

\* The fields that are looked for.  A method is not written like one.
Parsed == {"Connection:", "Authorization:", "Range:"}
Value == Seq(Words \cup {SP})
RequestType ==
  [method : Words \ Parsed,
   url : {u \in Seq(Words \cup {Nul}) : u # <<>> /\ u[1] \in Words},
   version : Words \cup {None},
   fields : Seq([name : Words, value : Value])]

ASSUME RequestTextAssumption ==
  /\ Words \cap {SP, CR, LF, Nul} = {} /\ None \notin Words \cup Seq(Tokens)
  /\ Requests \subseteq RequestType
  /\ LineEnds \subseteq {<<CR, LF>>, <<LF>>}
  /\ Options \subseteq [want_keepalive : BOOLEAN, auth_key : Value \cup {None}]
  /\ MAX_REQUEST_LENGTH \in Nat /\ MaxRequests \in Nat
  /\ {"GET", "HEAD", "HTTP/1.0", "HTTP/1.1", "close", "keep-alive",
      "Connection:", "Authorization:", "Range:"} \subseteq Words

VARIABLES
  options,
  sent,         \* the requests the client has sent, with their line ends
  wire,         \* what it has sent and recv() has not returned
  pipelined,    \* it has sent one before the last one was answered
  request, conn_close, state, reply,
  answers       \* the replies it has got

vars == <<options, sent, wire, pipelined, request, conn_close, state, reply, answers>>

-----------------------------------------------------------------------------
(***************************************************************************)
(* The client.                                                             *)
(***************************************************************************)
Line(r) ==
  <<r.method, SP>> \o r.url \o (IF r.version = None THEN <<>> ELSE <<SP, r.version>>)

Text(r, end) ==
  Line(r) \o end
  \o FlattenSeq([i \in DOMAIN r.fields |-> <<r.fields[i].name, SP>> \o r.fields[i].value \o end])
  \o end

Init ==
  /\ options \in Options
  /\ sent = <<>> /\ wire = <<>> /\ pipelined = FALSE
  /\ request = <<>> /\ conn_close = TRUE /\ state = "RECV_REQUEST"
  /\ reply = None /\ answers = <<>>

Send(r, end) ==
  /\ Len(sent) < MaxRequests
  /\ sent' = Append(sent, [request |-> r, end |-> end])
  /\ wire' = wire \o Text(r, end)
  /\ pipelined' = (pipelined \/ Len(answers) < Len(sent))
  /\ UNCHANGED <<options, request, conn_close, state, reply, answers>>

-----------------------------------------------------------------------------
(***************************************************************************)
(* The parser.                                                             *)
(***************************************************************************)
\* The first place, from i on, of one of some tokens, or the end.
Find(text, i, tokens) ==
  CHOOSE j \in i..(Len(text) + 1) :
    /\ j = Len(text) + 1 \/ text[j] \in tokens
    /\ \A k \in i..(j - 1) : text[k] \notin tokens

PastBlanks(text, i) == Find(text, i, Tokens \ {SP})

\* What follows the last token is the NUL of the buffer.
TokenAt(text, i) == IF i <= Len(text) THEN text[i] ELSE Nul

\* strcasestr(): nothing behind a NUL is looked at.  Mutant: a field is found
\* anywhere in a line.
FieldInLine(text, name, i) == i > 1 /\ text[i] = name /\ text[i + 1] = SP
FieldStarts(text, name, i) ==
  /\ i > 1 /\ text[i - 1] = LF /\ text[i] = name /\ text[i + 1] = SP
  /\ \A k \in 1..i : text[k] # Nul

parse_field(text, name) ==
  LET places == {i \in 1..(Len(text) - 1) : FieldStarts(text, name, i)}
      first  == CHOOSE i \in places : \A j \in places : i <= j
  IN  IF places = {} THEN None
      ELSE SubSeq(text, first + 2, Find(text, first + 2, {CR, LF}) - 1)

\* What ends the words of the request line.  Mutant: a blank.
BlankOnly == {SP}
WordEnds == {SP, CR, LF}

parse_request(text) ==
  LET blank  == Find(text, 1, {SP})
      begin  == PastBlanks(text, blank)
      end    == Find(text, begin + 1, WordEnds)
      ver    == PastBlanks(text, end)
      verEnd == Find(text, ver + 1, WordEnds)
      proto  == IF TokenAt(text, end) = SP THEN SubSeq(text, ver, verEnd - 1) ELSE None
      field  == parse_field(text, "Connection:")
      good   == /\ begin <= Len(text)
                /\ \A k \in (begin + 1)..(end - 1) : text[k] # Nul
                /\ proto # None =>
                     /\ TokenAt(text, verEnd) \in {CR, LF}
                     /\ proto \in {<<"HTTP/1.0">>, <<"HTTP/1.1">>}
      close  == IF field = <<"close">> THEN TRUE
                ELSE IF field = <<"keep-alive">> THEN FALSE
                ELSE conn_close /\ proto # <<"HTTP/1.1">>
  IN  IF ~good THEN [good |-> FALSE]
      ELSE [good          |-> TRUE,
            method        |-> SubSeq(text, 1, blank - 1),
            url           |-> SubSeq(text, begin, end - 1),
            close         |-> close \/ ~options.want_keepalive,
            authorization |-> parse_field(text, "Authorization:"),
            range         |-> parse_field(text, "Range:")]

\* Compares past the end of the shorter one, and the lengths in the end.
\* Mutant: it stops at the end of what the client sent.
EqualSoFar(user_input, secret) == IsPrefix(user_input, secret)
password_equal(user_input, secret) ==
  LET Char(text, i) == IF i < Len(text) THEN text[i + 1] ELSE Nul
      j(i) == IF i < Len(secret) THEN i ELSE Len(secret)
  IN  /\ \A i \in 0..Len(user_input) : Char(user_input, i) = Char(secret, j(i))
      /\ Len(user_input) = j(Len(user_input))
      /\ Char(secret, j(Len(user_input))) = Nul

-----------------------------------------------------------------------------
(***************************************************************************)
(* The server.                                                             *)
(***************************************************************************)
Code(code) == [code |-> code, head |-> FALSE, url |-> <<>>, range |-> None]

\* Over the limit.  default_reply leaves header_only alone, so that the page is
\* left out if process_request has just read a HEAD.  (That a 304 sets the
\* same flag is in Connection: no file is looked for here.)
TooLarge(head) == [Code(413) EXCEPT !.head = head]

\* process_request, for a parsed request.
Reply(p) ==
  IF ~p.good THEN Code(400)
  ELSE IF /\ options.auth_key # None
          /\ p.authorization = None \/ ~password_equal(p.authorization, options.auth_key)
    THEN Code(401)
  ELSE IF p.method \notin {<<"GET">>, <<"HEAD">>} THEN Code(501)
  ELSE [code |-> 200, head |-> p.method = <<"HEAD">>, url |-> p.url, range |-> p.range]

\* The empty line is looked for at the end of the whole buffer.  Mutants: at
\* the end of what has just come; anywhere in the buffer.
CompletePiece(text, piece) ==
  IsSuffix(<<LF, LF>>, piece) \/ IsSuffix(<<CR, LF, CR, LF>>, piece)
CompleteSomewhere(text, piece) ==
  \E i \in 2..Len(text) :
    LET upTo == SubSeq(text, 1, i)
    IN  IsSuffix(<<LF, LF>>, upTo) \/ IsSuffix(<<CR, LF, CR, LF>>, upTo)
Complete(text, piece) ==
  \/ Len(text) > 2 /\ IsSuffix(<<LF, LF>>, text)
  \/ Len(text) > 4 /\ IsSuffix(<<CR, LF, CR, LF>>, text)

TooLong(text) == Len(text) > MAX_REQUEST_LENGTH

poll_recv_request(n) ==
  /\ state = "RECV_REQUEST"
  /\ LET piece == SubSeq(wire, 1, n)
         text  == request \o piece
         p     == parse_request(text)
     IN  /\ request' = text
         /\ conn_close' = IF Complete(text, piece) THEN ~p.good \/ p.close ELSE conn_close
         /\ state' = IF Complete(text, piece) \/ TooLong(text)
                       THEN "SEND_HEADER" ELSE state
         /\ reply' = IF TooLong(text)
                       THEN TooLarge(IF Complete(text, piece) THEN Reply(p).head ELSE FALSE)
                     ELSE IF Complete(text, piece) THEN Reply(p) ELSE reply
  /\ wire' = SubSeq(wire, n + 1, Len(wire))
  /\ UNCHANGED <<options, sent, pipelined, answers>>

Recv == \E n \in 1..Len(wire) : poll_recv_request(n)

\* poll_send_header and poll_send_reply, to the end.
poll_send ==
  /\ state = "SEND_HEADER"
  /\ state' = "DONE"
  /\ answers' = Append(answers, [reply |-> reply, close |-> conn_close])
  /\ UNCHANGED <<options, sent, wire, pipelined, request, conn_close, reply>>

\* recv() or send() fails, or the time is over.
Break ==
  /\ state \in {"RECV_REQUEST", "SEND_HEADER"}
  /\ state' = "DONE" /\ conn_close' = TRUE
  /\ UNCHANGED <<options, sent, wire, pipelined, request, reply, answers>>

free_connection ==
  /\ state = "DONE" /\ conn_close
  /\ state' = "closed"
  /\ UNCHANGED <<options, sent, wire, pipelined, request, conn_close, reply, answers>>

\* Mutant: the flag of the last request stays.
SameClose == UNCHANGED conn_close
ResetClose == conn_close' = TRUE

recycle_connection ==
  /\ state = "DONE" /\ ~conn_close
  /\ state' = "RECV_REQUEST"
  /\ request' = <<>> /\ reply' = None
  /\ ResetClose
  /\ UNCHANGED <<options, sent, wire, pipelined, answers>>

Serve == Recv \/ poll_send \/ free_connection \/ recycle_connection

Next == (\E r \in Requests, end \in LineEnds : Send(r, end)) \/ Serve \/ Break

\* What has arrived is read (RequestsAreReceived of EventLoop) and clients
\* read their answers; nothing makes them send.
Spec == Init /\ [][Next]_vars /\ WF_vars(Serve)

-----------------------------------------------------------------------------
(***************************************************************************)
(* The reference: what a request says, without looking at its text.        *)
(***************************************************************************)
FirstField(r, name) ==
  LET its == {i \in DOMAIN r.fields : r.fields[i].name = name}
  IN  IF its = {} THEN None ELSE r.fields[Min(its)].value

Malformed(r) ==
  \/ Nul \in {Tail(r.url)[i] : i \in 1..(Len(r.url) - 1)}
  \/ r.version \notin {"HTTP/1.0", "HTTP/1.1", None}

HasKey(r) == options.auth_key \in {None, FirstField(r, "Authorization:")}

WantsClose(r) ==
  LET connection == FirstField(r, "Connection:")
  IN  IF connection \in {<<"close">>, <<"keep-alive">>}
        THEN connection = <<"close">> ELSE r.version # "HTTP/1.1"

Deserved(r) ==
  CASE Malformed(r) -> Code(400)
    [] ~Malformed(r) /\ ~HasKey(r) -> Code(401)
    [] ~Malformed(r) /\ HasKey(r) /\ r.method \notin {"GET", "HEAD"} -> Code(501)
    [] OTHER -> [code |-> 200, head |-> r.method = "HEAD", url |-> r.url,
                 range |-> FirstField(r, "Range:")]

SentText(i) == Text(sent[i].request, sent[i].end)

\* The answers a request may get.  There are two for one over the limit: it
\* was found too long before its end was read, or with it.
Answers(r, text) ==
  LET close == Malformed(r) \/ WantsClose(r) \/ ~options.want_keepalive
  IN  IF TooLong(text)
        THEN {[reply |-> TooLarge(FALSE), close |-> TRUE],
              [reply |-> TooLarge(Deserved(r).head), close |-> close]}
        ELSE {[reply |-> Deserved(r), close |-> close]}

-----------------------------------------------------------------------------
(***************************************************************************)
(* Properties.                                                             *)
(***************************************************************************)
ReplyType ==
  [code : {200, 400, 401, 413, 501}, head : BOOLEAN, url : Seq(Words),
   range : Value \cup {None}]

\* Every variable keeps its type: the URL of a page has no blank, no line end
\* and no NUL in it.
TypeOK ==
  /\ options \in Options
  /\ \A i \in DOMAIN sent : sent[i].request \in Requests /\ sent[i].end \in LineEnds
  /\ wire \in Seq(Tokens) /\ request \in Seq(Tokens)
  /\ pipelined \in BOOLEAN /\ conn_close \in BOOLEAN
  /\ state \in {"RECV_REQUEST", "SEND_HEADER", "DONE", "closed"}
  /\ reply \in ReplyType \cup {None}
  /\ state = "SEND_HEADER" => reply \in ReplyType

\* A client that waits for its answers gets one for every request, in order:
\* the one this request deserves by its own line and fields, however its text
\* is cut, whatever came before it, and kept open only if it asked for that.
\* Over the limit that is 413, with its page unless a HEAD was read whole.
EachAnsweredAsAsked ==
  ~pipelined =>
    /\ Len(answers) <= Len(sent)
    /\ \A i \in DOMAIN answers : answers[i] \in Answers(sent[i].request, SentText(i))

\* Even if the client does not wait, the server starts to read at the start
\* of a request, never in the middle of one.
StartsAtRequest ==
  state = "RECV_REQUEST" =>
    \E k \in 1..(Len(sent) + 1) :
      request \o wire = FlattenSeq([i \in 1..(Len(sent) + 1 - k) |-> SentText(k + i - 1)])

\* Nobody gets a page who has not said the key in a field of his own, be it
\* in another request that was received with this one.
PageNeedsKey ==
  \A i \in DOMAIN answers :
    answers[i].reply.code = 200 => \E k \in DOMAIN sent : HasKey(sent[k].request)

\* A client that waits does not wait for ever: the empty line is noticed in
\* whatever pieces it comes.
WaitingIsAnswered ==
  (~pipelined /\ Len(answers) < Len(sent)) ~>
    (pipelined \/ Len(answers) = Len(sent) \/ state = "closed")

=============================================================================
