------------------------------- MODULE EventLoop -------------------------------
(***************************************************************************)
(* The main loop of darkhttpd: main's while (running) httpd_poll(), with   *)
(* select(), accept_connection, the pass over connlist, the time-outs, the *)
(* descriptors, and the clean exit after a signal.                         *)
(*                                                                         *)
(* A connection is reduced to what the loop sees of it: receiving, sending *)
(* or done, and how many more calls its request or its reply can take      *)
(* (module Connection has the rest).  Clients connect, send, read and hang *)
(* up at any time; the loop's own steps are cut where they read what       *)
(* others write: the test of running, the call of select(), accept() and   *)
(* the visit of each connection.                                           *)
(***************************************************************************)
EXTENDS Integers, FiniteSets

CONSTANTS
  Conns,              \* the structs connection there may be at once
  Fds,                \* descriptors the process may have open besides its own
  NoFd,               \* -1
  Sockin,             \* the listening socket
  max_connections,    \* --maxconn
  timeout_secs,       \* --timeout
  MaxParts,           \* most calls one request, or one reply, is spread over
  FileTableFull       \* TRUE if the system's file table may fill up (ENFILE)

ASSUME EventLoopAssumption ==
  /\ IsFiniteSet(Conns)
  /\ IsFiniteSet(Fds) /\ Fds # {}
  /\ Cardinality(Fds) <= Cardinality(Conns)   \* descriptors run out first
  /\ NoFd \notin Fds /\ Sockin \notin Fds /\ Sockin # NoFd
  /\ max_connections \in Nat
  /\ timeout_secs \in Nat
  /\ MaxParts \in Nat
  /\ FileTableFull \in BOOLEAN

VARIABLES
  pc,            \* "check", "build", "select", "accept", "first", "visit",
                 \* "exit", "free_all" or "stopped"
  running,       \* cleared by the signal handler
  accepting,
  connlist,      \* a set: nothing depends on the order of a pass
  todo,          \* connections the current pass has yet to visit
  state,         \* conn->state, "SEND" for SEND_HEADER and SEND_REPLY
  conn_close,
  socket, reply_fd,
  parts,         \* calls the request has been received, or the reply sent, in
  idle,          \* now - conn->last_active, as far as timeout_secs
  recv_set, send_set,
  open,          \* descriptors open in the kernel, besides the process's own
  lag,           \* seconds since now was read
  backlog,       \* clients waiting to be accepted
  data,          \* what recv() has for each connection: "none", "some", "eof"
  room,          \* whether send() can take a byte
  logfile,       \* "open" or "closed"
  wrote_closed   \* log_connection has used the closed logfile

conns  == <<connlist, state, conn_close, socket, reply_fd, parts, idle>>
sets   == <<recv_set, send_set>>
client == <<data, room>>
exit   == <<logfile, wrote_closed>>
vars == <<pc, running, accepting, conns, todo, sets, open, lag, backlog, client, exit>>

Free == Fds \ open

\* Mutant: only a connection that is receiving is worth a time-out.
bother_if_receiving ==
  timeout_secs > 0 /\ \E c \in connlist : state[c] = "RECV_REQUEST"

\* select() is given a time-out only if there is a connection to wait for.
bother_with_timeout == timeout_secs > 0 /\ connlist # {}

Init ==
  /\ pc = "check"
  /\ running = TRUE
  /\ accepting = TRUE
  /\ connlist = {} /\ todo = {}
  /\ state = [c \in Conns |-> "DONE"]
  /\ conn_close = [c \in Conns |-> TRUE]
  /\ socket = [c \in Conns |-> NoFd]
  /\ reply_fd = [c \in Conns |-> NoFd]
  /\ parts = [c \in Conns |-> 0]
  /\ idle = [c \in Conns |-> 0]
  /\ recv_set = {} /\ send_set = {}
  /\ open = {}
  /\ lag = 0
  /\ backlog = 0
  /\ data = [c \in Conns |-> "none"]
  /\ room = [c \in Conns |-> FALSE]
  /\ logfile = "open" /\ wrote_closed = FALSE

-----------------------------------------------------------------------------
(***************************************************************************)
(* main, up to select().                                                   *)
(***************************************************************************)

\* Mutant: a stopping server first finishes with its clients.
RunningOrBusy == running \/ connlist # {}

KeepRunning == running

CheckRunning ==
  /\ pc = "check"
  /\ pc' = IF KeepRunning THEN "build" ELSE "exit"
  /\ UNCHANGED <<running, accepting, conns, todo, sets, open, lag, backlog, client, exit>>

Watched(S) == {socket[c] : c \in {d \in connlist : state[d] = S}}

BuildSets ==
  /\ pc = "build"
  /\ recv_set' = Watched("RECV_REQUEST") \cup (IF accepting THEN {Sockin} ELSE {})
  /\ send_set' = Watched("SEND")
  /\ pc' = "select"
  /\ UNCHANGED <<running, accepting, conns, todo, open, lag, backlog, client, exit>>

-----------------------------------------------------------------------------
(***************************************************************************)
(* select().                                                               *)
(***************************************************************************)
Readable ==
  {socket[c] : c \in {d \in connlist : data[d] # "none"}}
  \cup (IF backlog > 0 THEN {Sockin} ELSE {})

Writable == {socket[c] : c \in {d \in connlist : room[d]}}

ReadyToRecv == recv_set \cap Readable
ReadyToSend == send_set \cap Writable

Sooner(a, b) == IF a < b THEN a ELSE b

\* now = time(NULL): every connection's idle time is counted anew.
UpdateTime ==
  /\ idle' = [c \in Conns |-> IF c \in connlist THEN Sooner(idle[c] + lag, timeout_secs)
                              ELSE idle[c]]
  /\ lag' = 0

SelectReturns ==
  /\ pc = "select"
  /\ \/ ReadyToRecv \cup ReadyToSend # {}
     \/ bother_with_timeout /\ lag >= timeout_secs
  /\ recv_set' = ReadyToRecv
  /\ send_set' = ReadyToSend
  /\ UpdateTime
  /\ pc' = "accept"
  /\ UNCHANGED <<running, accepting, connlist, state, conn_close, socket, reply_fd,
                 parts, todo, open, backlog, client, exit>>

-----------------------------------------------------------------------------
(***************************************************************************)
(* accept_connection.                                                      *)
(***************************************************************************)
NoAccept ==
  /\ pc = "accept"
  /\ Sockin \notin recv_set
  /\ todo' = connlist
  /\ pc' = "visit"
  /\ UNCHANGED <<running, accepting, conns, sets, open, lag, backlog, client, exit>>

\* EMFILE when the process has no descriptor left, ENFILE when the system has
\* none.  The client stays in the queue.
AcceptRunsOut ==
  /\ pc = "accept"
  /\ Sockin \in recv_set
  /\ Free = {} \/ FileTableFull
  /\ accepting' = FALSE
  /\ todo' = connlist
  /\ pc' = "visit"
  /\ UNCHANGED <<running, conns, sets, open, lag, backlog, client, exit>>

\* Any other error of accept(): the client is gone.
AcceptFails ==
  /\ pc = "accept"
  /\ Sockin \in recv_set
  /\ backlog' = backlog - 1
  /\ todo' = connlist
  /\ pc' = "visit"
  /\ UNCHANGED <<running, accepting, conns, sets, open, lag, client, exit>>

\* new_connection and LIST_INSERT_HEAD.  The client may have sent something,
\* or left, before.
AcceptConnection ==
  /\ pc = "accept"
  /\ Sockin \in recv_set
  /\ \E c \in Conns \ connlist, fd \in Free, d \in {"none", "some", "eof"} :
       /\ connlist' = connlist \cup {c}
       /\ todo' = {c}
       /\ state' = [state EXCEPT ![c] = "RECV_REQUEST"]
       /\ conn_close' = [conn_close EXCEPT ![c] = TRUE]
       /\ socket' = [socket EXCEPT ![c] = fd]
       /\ reply_fd' = [reply_fd EXCEPT ![c] = NoFd]
       /\ parts' = [parts EXCEPT ![c] = 0]
       /\ idle' = [idle EXCEPT ![c] = 0]
       /\ open' = open \cup {fd}
       /\ data' = [data EXCEPT ![c] = d]
       /\ room' = [room EXCEPT ![c] = TRUE]
  /\ backlog' = backlog - 1
  /\ pc' = "first"
  /\ UNCHANGED <<running, accepting, sets, lag, exit>>

-----------------------------------------------------------------------------
(***************************************************************************)
(* The handlers of a connection.  Each sets state, conn_close, reply_fd,   *)
(* parts, idle, open, data and room.                                       *)
(***************************************************************************)
Unhandled(c) == UNCHANGED <<state, conn_close, reply_fd, parts, idle, open, data, room>>

\* conn_close = 1; state = DONE
Abandon(c) ==
  /\ state' = [state EXCEPT ![c] = "DONE"]
  /\ conn_close' = [conn_close EXCEPT ![c] = TRUE]
  /\ UNCHANGED <<reply_fd, parts, open, data>>

\* Bytes that leave the request incomplete.  MAX_REQUEST_LENGTH bounds how
\* often that can happen.
ReceivePart(c) ==
  /\ parts[c] < MaxParts
  /\ parts' = [parts EXCEPT ![c] = @ + 1]
  /\ UNCHANGED <<state, conn_close, reply_fd, open, room>>

\* The request is complete, or too long: it is answered, for which a file may
\* be opened, and sending begins at once.  That can be all, or fail.
Answer(c) ==
  /\ \E close \in BOOLEAN : conn_close' = [conn_close EXCEPT ![c] = close]
  /\ \E fd \in Free \cup {NoFd} :
       /\ reply_fd' = [reply_fd EXCEPT ![c] = fd]
       /\ open' = open \cup ({fd} \ {NoFd})
  /\ \E s \in {"SEND", "DONE"} : state' = [state EXCEPT ![c] = s]
  /\ \E r \in BOOLEAN : room' = [room EXCEPT ![c] = r]
  /\ parts' = [parts EXCEPT ![c] = 0]

poll_recv_request(c) ==
  \/ /\ data[c] = "none"
     /\ Unhandled(c)
  \/ /\ data[c] = "eof"
     /\ Abandon(c)
     /\ UNCHANGED <<idle, room>>
  \/ /\ data[c] = "some"
     /\ \E d \in {"none", "some"} : data' = [data EXCEPT ![c] = d]
     /\ idle' = [idle EXCEPT ![c] = 0]
     /\ ReceivePart(c) \/ Answer(c)

\* poll_send_header and poll_send_reply: some bytes, the last bytes, or an error.
poll_send(c) ==
  /\ idle' = [idle EXCEPT ![c] = 0]
  /\ \E r \in BOOLEAN : room' = [room EXCEPT ![c] = r]
  /\ \/ /\ parts[c] < MaxParts
        /\ parts' = [parts EXCEPT ![c] = @ + 1]
        /\ UNCHANGED <<state, conn_close, reply_fd, open, data>>
     \/ /\ state' = [state EXCEPT ![c] = "DONE"]
        /\ UNCHANGED <<conn_close, reply_fd, parts, open, data>>
     \/ Abandon(c)

\* Mutant: idle for more than timeout_secs, which the capped time never is.
ExpiredLate(c) == timeout_secs > 0 /\ idle[c] > timeout_secs

Expired(c) == timeout_secs > 0 /\ idle[c] >= timeout_secs

\* Mutant: the pass does not include the new connection.
PassWithoutNew == connlist \ todo

\* accept_connection's own call of poll_recv_request comes before the pass.
Pass == connlist

FirstRecv ==
  /\ pc = "first"
  /\ \E c \in todo : poll_recv_request(c)
  /\ todo' = Pass
  /\ pc' = "visit"
  /\ UNCHANGED <<running, accepting, connlist, socket, sets, lag, backlog, exit>>

-----------------------------------------------------------------------------
(***************************************************************************)
(* The pass over connlist.                                                 *)
(***************************************************************************)

\* Visited and done, to be freed or recycled before the next is visited; or
\* done by accept_connection's call, for which the visit does nothing else.
Finished == {c \in todo : state[c] = "DONE"}

\* Mutant: one connection a pass.
LeaveOthers(c) == {}

Others(c) == todo \ {c}

Visit ==
  /\ pc = "visit"
  /\ Finished = {}
  /\ \E c \in todo :
       /\ IF Expired(c) THEN Abandon(c) /\ UNCHANGED <<idle, room>>
          ELSE IF state[c] = "RECV_REQUEST" /\ socket[c] \in recv_set
          THEN poll_recv_request(c)
          ELSE IF state[c] = "SEND" /\ socket[c] \in send_set THEN poll_send(c)
          ELSE Unhandled(c)
       /\ todo' = IF state'[c] = "DONE" THEN todo ELSE Others(c)
  /\ UNCHANGED <<pc, running, accepting, connlist, socket, sets, lag, backlog, exit>>

\* Mutant: only accept_connection writes accepting.
StayDeaf == accepting' = accepting

\* free_connection's end: "if we ran out of sockets, try to resume accepting".
ResumeAccepting == accepting' = TRUE

\* The members of a freed struct connection are forgotten.
Forget(c) ==
  /\ connlist' = connlist \ {c}
  /\ state' = [state EXCEPT ![c] = "DONE"]
  /\ conn_close' = [conn_close EXCEPT ![c] = TRUE]
  /\ socket' = [socket EXCEPT ![c] = NoFd]
  /\ reply_fd' = [reply_fd EXCEPT ![c] = NoFd]
  /\ parts' = [parts EXCEPT ![c] = 0]
  /\ idle' = [idle EXCEPT ![c] = 0]
  /\ data' = [data EXCEPT ![c] = "none"]
  /\ room' = [room EXCEPT ![c] = FALSE]

free_connection ==
  /\ pc = "visit"
  /\ \E c \in Finished :
       /\ conn_close[c]
       /\ Forget(c)
       /\ todo' = Others(c)
       /\ open' = open \ {socket[c], reply_fd[c]}
  /\ ResumeAccepting
  /\ UNCHANGED <<pc, running, sets, lag, backlog, exit>>

\* Mutant: free_connection closes the socket of a recycled connection too.
ClosedByRecycle(c) == {socket[c], reply_fd[c]}

\* recycle_connection hides the socket from free_connection.
ClosedWhenRecycled(c) == {reply_fd[c]}

recycle_connection ==
  /\ pc = "visit"
  /\ \E c \in Finished :
       /\ ~conn_close[c]
       /\ todo' = Others(c)
       /\ state' = [state EXCEPT ![c] = "RECV_REQUEST"]
       /\ conn_close' = [conn_close EXCEPT ![c] = TRUE]
       /\ reply_fd' = [reply_fd EXCEPT ![c] = NoFd]
       /\ parts' = [parts EXCEPT ![c] = 0]
       /\ open' = open \ ClosedWhenRecycled(c)
       /\ room' = [room EXCEPT ![c] = TRUE]    \* looked at for the next answer
  /\ ResumeAccepting
  /\ UNCHANGED <<pc, running, connlist, socket, idle, sets, lag, backlog, data, exit>>

EndPass ==
  /\ pc = "visit"
  /\ todo = {}
  /\ recv_set' = {} /\ send_set' = {}     \* local to httpd_poll
  /\ pc' = "check"
  /\ UNCHANGED <<running, accepting, conns, todo, open, lag, backlog, client, exit>>

-----------------------------------------------------------------------------
(***************************************************************************)
(* The clean exit of main.                                                 *)
(***************************************************************************)
CloseFiles ==
  /\ pc = "exit"
  /\ logfile' = "closed"
  /\ pc' = "free_all"
  /\ UNCHANGED <<running, accepting, conns, todo, sets, open, lag, backlog, client,
                 wrote_closed>>

\* A connection with an answer under way is logged.
FreeAtExit ==
  /\ pc = "free_all"
  /\ \E c \in connlist :
       /\ wrote_closed' = (wrote_closed \/ (state[c] = "SEND" /\ logfile = "closed"))
       /\ Forget(c)
       /\ open' = open \ {socket[c], reply_fd[c]}
  /\ ResumeAccepting
  /\ UNCHANGED <<pc, running, todo, sets, lag, backlog, logfile>>

Exit ==
  /\ pc = "free_all"
  /\ connlist = {}
  /\ pc' = "stopped"
  /\ UNCHANGED <<running, accepting, conns, todo, sets, open, lag, backlog, client, exit>>

Stopped == pc = "stopped" /\ UNCHANGED vars

-----------------------------------------------------------------------------
(***************************************************************************)
(* Clients, signals and the clock.  The loop learns of clients waiting to  *)
(* be accepted and of room to send only from select(), and of data from    *)
(* select() and recv(): a client that moves at another time is one that    *)
(* moves just before the next of these.                                    *)
(***************************************************************************)
Running == pc \notin {"exit", "free_all", "stopped"}

\* listen() keeps max_connections clients waiting.
Connect ==
  /\ pc = "select"
  /\ backlog < max_connections
  /\ Cardinality(connlist) + backlog <= Cardinality(Conns)
  /\ backlog' = backlog + 1
  /\ UNCHANGED <<pc, running, accepting, conns, todo, sets, open, lag, client, exit>>

ClientSends ==
  /\ pc \in {"select", "visit"}
  /\ \E c \in connlist, d \in {"some", "eof"} :
       /\ data[c] = "none"
       /\ data' = [data EXCEPT ![c] = d]
  /\ UNCHANGED <<pc, running, accepting, conns, todo, sets, open, lag, backlog, room, exit>>

ClientReads ==
  /\ pc = "select"
  /\ \E c \in connlist : ~room[c] /\ room' = [room EXCEPT ![c] = TRUE]
  /\ UNCHANGED <<pc, running, accepting, conns, todo, sets, open, lag, backlog, data, exit>>

\* stop_running.  A select() that is waiting returns with EINTR, and httpd_poll
\* with it; anywhere else, the handler only clears running.
Signal ==
  /\ Running
  /\ running
  /\ running' = FALSE
  /\ pc' = IF pc = "select" THEN "check" ELSE pc
  /\ UNCHANGED <<accepting, conns, todo, sets, open, lag, backlog, client, exit>>

Tick ==
  /\ pc = "select"
  /\ lag < timeout_secs
  /\ lag' = lag + 1
  /\ UNCHANGED <<pc, running, accepting, conns, todo, sets, open, backlog, client, exit>>

Server ==
  \/ CheckRunning \/ BuildSets \/ SelectReturns
  \/ NoAccept \/ AcceptRunsOut \/ AcceptFails \/ AcceptConnection \/ FirstRecv
  \/ Visit \/ free_connection \/ recycle_connection \/ EndPass
  \/ CloseFiles \/ FreeAtExit \/ Exit

Next ==
  \/ Server \/ Stopped
  \/ Connect \/ ClientSends \/ ClientReads \/ Signal \/ Tick

Spec == Init /\ [][Next]_vars

(***************************************************************************)
(* The program takes its next step when it can: the process is scheduled,  *)
(* and select() returns when a descriptor is ready or its time-out has     *)
(* passed; a signal ends it at once.  Time passes however busy the loop    *)
(* is.                                                                     *)
(* Nothing is asked of clients.                                            *)
(***************************************************************************)
FairSpec == Spec /\ WF_vars(Server) /\ SF_vars(Tick)

-----------------------------------------------------------------------------
(***************************************************************************)
(* Safety.                                                                 *)
(***************************************************************************)
TypeOK ==
  /\ pc \in {"check", "build", "select", "accept", "first", "visit", "exit",
             "free_all", "stopped"}
  /\ running \in BOOLEAN /\ accepting \in BOOLEAN
  /\ connlist \subseteq Conns
  /\ todo \subseteq connlist
  /\ state \in [Conns -> {"RECV_REQUEST", "SEND", "DONE"}]
  /\ conn_close \in [Conns -> BOOLEAN]
  /\ socket \in [Conns -> Fds \cup {NoFd}]
  /\ reply_fd \in [Conns -> Fds \cup {NoFd}]
  /\ parts \in [Conns -> 0..MaxParts]
  /\ idle \in [Conns -> 0..timeout_secs]
  /\ recv_set \subseteq Fds \cup {Sockin}
  /\ send_set \subseteq Fds
  /\ open \subseteq Fds
  /\ lag \in 0..timeout_secs
  /\ backlog \in 0..max_connections
  /\ data \in [Conns -> {"none", "some", "eof"}]
  /\ room \in [Conns -> BOOLEAN]
  /\ logfile \in {"open", "closed"} /\ wrote_closed \in BOOLEAN

\* Every open descriptor belongs to one connection, as its socket or as the
\* file it sends, and what a connection holds is open: nothing is closed twice,
\* sent on another client's socket, or left open by free_connection and
\* recycle_connection, whatever numbers the kernel hands out again.
FdOwnership ==
  /\ open = {socket[c] : c \in connlist} \cup ({reply_fd[c] : c \in connlist} \ {NoFd})
  /\ \A c, d \in connlist :
       /\ socket[c] = socket[d] => c = d
       /\ reply_fd[c] = reply_fd[d] /\ reply_fd[c] # NoFd => c = d
       /\ socket[c] # reply_fd[d]

\* select() waits for every connection, on descriptors that are open (it would
\* fail with EBADF, and the server exit): "no connection should be left" DONE
\* by the pass, a connection finished in accept_connection included.
SelectWatchesAll ==
  pc = "select" =>
    /\ \A c \in connlist : socket[c] \in recv_set \cup send_set
    /\ recv_set \cup send_set \subseteq open \cup {Sockin}

\* While the server does not accept for want of descriptors, some connection
\* is left whose end makes it accept again (accepting in accept_connection and
\* free_connection): it never waits with nothing to wait for.
DeafHasConnection == pc = "select" /\ ~accepting => connlist # {}

\* No connection is still there when select() is called that has been idle
\* for the time-out: poll_check_timeout, run by every pass over now, lets none
\* overstay, so that with select()'s own wait it is gone within twice the
\* time-out.
NoneOverstays ==
  pc = "select" /\ timeout_secs > 0 =>
    \A c \in connlist : idle[c] < timeout_secs /\ idle[c] + lag < 2 * timeout_secs

\* log_connection writes to the log file only while it is open, at exit too.
LogIsOpen == ~wrote_closed

-----------------------------------------------------------------------------
(***************************************************************************)
(* Liveness, with a time-out.                                              *)
(***************************************************************************)

\* The client owes the next move.
Waiting(c) ==
  \/ state[c] = "RECV_REQUEST" /\ data[c] = "none"
  \/ state[c] = "SEND" /\ ~room[c]

\* A client that stays silent is disconnected, in the middle of a request or
\* of an answer, however busy others keep the loop (README: "Times out idle
\* connections").
SilentIsClosed ==
  \A c \in Conns : []<>~(c \in connlist /\ Waiting(c) /\ running)

\* What a client has sent is received until its request is complete, however
\* many other connections there are (the pass over connlist visits them all).
RequestsAreReceived ==
  \A c \in Conns :
    (c \in connlist /\ state[c] = "RECV_REQUEST" /\ data[c] # "none")
      ~> (c \notin connlist \/ state[c] # "RECV_REQUEST" \/ data[c] = "none" \/ ~running)

\* "Failed to accept, but try to keep serving existing connections", and "if
\* we ran out of sockets, try to resume accepting": a server that stopped
\* accepting accepts again.
AcceptingResumes == ~accepting ~> (accepting \/ ~running)

\* A signal ends a server that has connections, whatever they do.
StopsWithConnections == (~running /\ connlist # {}) ~> (pc = "stopped")

\* A signal ends the server: "close all sockets and FILEs and exit".  Not one
\* that comes between the test of running and select() when there is no
\* connection: see README.md, "Where the code and what is said of it disagree".
StopsWhenTold == ~running ~> (pc = "stopped")
=============================================================================
