---------------------------- MODULE EventLoopProofs ----------------------------
(***************************************************************************)
(* The safety of EventLoop, for any number of connections and descriptors, *)
(* any time-out and any number of calls a request or a reply takes.        *)
(***************************************************************************)
EXTENDS EventLoop, TLAPS

-----------------------------------------------------------------------------
(***************************************************************************)
(* The inductive invariant.                                                *)
(***************************************************************************)

\* The part of TypeOK that the properties rest on.
LoopTypes ==
  /\ pc \in {"check", "build", "select", "accept", "first", "visit", "exit",
             "free_all", "stopped"}
  /\ connlist \subseteq Conns
  /\ todo \subseteq connlist
  /\ state \in [Conns -> {"RECV_REQUEST", "SEND", "DONE"}]
  /\ socket \in [Conns -> Fds \cup {NoFd}]
  /\ reply_fd \in [Conns -> Fds \cup {NoFd}]
  /\ parts \in [Conns -> 0..MaxParts]
  /\ idle \in [Conns -> 0..timeout_secs]
  /\ recv_set \subseteq Fds \cup {Sockin}
  /\ send_set \subseteq Fds
  /\ open \subseteq Fds
  /\ lag \in 0..timeout_secs
  /\ backlog \in 0..max_connections
  /\ data \in [Conns -> {"none", "some", "eof"}]
  /\ logfile \in {"open", "closed"}

Switches ==
  /\ running \in BOOLEAN /\ accepting \in BOOLEAN
  /\ conn_close \in [Conns -> BOOLEAN]
  /\ room \in [Conns -> BOOLEAN]
  /\ wrote_closed \in BOOLEAN

\* Every descriptor a connection holds is open, every open one is held, and by
\* one connection only; a request is received before a file is opened for it.
Ownership ==
  /\ \A c \in connlist : socket[c] \in open
  /\ \A c \in connlist : reply_fd[c] # NoFd => reply_fd[c] \in open
  /\ \A fd \in open : \E c \in connlist : fd = socket[c] \/ fd = reply_fd[c]
  /\ \A c, d \in connlist : socket[c] = socket[d] => c = d
  /\ \A c, d \in connlist : reply_fd[c] = reply_fd[d] /\ reply_fd[c] # NoFd => c = d
  /\ \A c, d \in connlist : socket[c] # reply_fd[d]
  /\ \A c \in connlist : state[c] = "RECV_REQUEST" => reply_fd[c] = NoFd

\* Between two passes, the new connection's first call not included.
Between == {"check", "build", "select", "accept"}

\* A pass leaves no connection DONE behind it, and there is none between passes.
Swept ==
  /\ pc \notin {"first", "visit"} => todo = {}
  /\ pc \in Between \cup {"first", "visit"} =>
       \A c \in connlist \ todo : state[c] # "DONE"
  /\ pc = "first" => \A c \in todo : state[c] = "RECV_REQUEST"

\* accept() is called only for a client that waits.
SomeoneWaits == pc = "accept" /\ Sockin \in recv_set => backlog > 0

\* Only connections still to be visited, or to be closed, may be over time.
InTime ==
  timeout_secs > 0 =>
    /\ pc \in {"check", "build", "select"} => \A c \in connlist : idle[c] < timeout_secs
    /\ pc = "first" => \A c \in todo : idle[c] < timeout_secs
    /\ pc = "visit" =>
         /\ \A c \in connlist \ todo : idle[c] < timeout_secs
         /\ \A c \in todo : state[c] = "DONE" /\ ~conn_close[c] => idle[c] < timeout_secs

Inv == LoopTypes /\ Switches /\ Ownership /\ Swept /\ SomeoneWaits /\ SelectWatchesAll /\ InTime

LEMMA InvInit == Init => Inv
<1> SUFFICES ASSUME Init PROVE Inv
  OBVIOUS
<1>1. LoopTypes
  BY EventLoopAssumption DEF Init, LoopTypes
<1>2. Switches
  BY DEF Init, Switches
<1>3. Ownership
  BY DEF Init, Ownership
<1> QED
  BY <1>1, <1>2, <1>3 DEF Init, Inv, Swept, Between, SomeoneWaits, SelectWatchesAll, InTime

-----------------------------------------------------------------------------
(***************************************************************************)
(* What a handler does: it changes its own connection only, and opens a    *)
(* file only to answer a request.                                          *)
(***************************************************************************)
OpensNothing(c) ==
  /\ open' = open /\ reply_fd' = reply_fd
  /\ state'[c] = "RECV_REQUEST" => state[c] = "RECV_REQUEST"

OpensFile(c) ==
  /\ state[c] = "RECV_REQUEST" /\ state'[c] # "RECV_REQUEST"
  /\ \E fd \in Free : /\ open' = open \cup {fd}
                      /\ reply_fd' = [reply_fd EXCEPT ![c] = fd]

ConnTypes ==
  /\ state \in [Conns -> {"RECV_REQUEST", "SEND", "DONE"}]
  /\ reply_fd \in [Conns -> Fds \cup {NoFd}]
  /\ parts \in [Conns -> 0..MaxParts]
  /\ idle \in [Conns -> 0..timeout_secs]
  /\ open \subseteq Fds
  /\ data \in [Conns -> {"none", "some", "eof"}]

ConnSwitches == conn_close \in [Conns -> BOOLEAN] /\ room \in [Conns -> BOOLEAN]

Handled(c) ==
  /\ ConnTypes' /\ ConnSwitches'
  /\ \A d \in Conns \ {c} : /\ state'[d] = state[d] /\ idle'[d] = idle[d]
                            /\ conn_close'[d] = conn_close[d]
  /\ idle'[c] \in {0, idle[c]}
  /\ OpensNothing(c) \/ OpensFile(c)

LEMMA RecvHandles ==
  ASSUME LoopTypes, Switches, Ownership, NEW c \in connlist, state[c] = "RECV_REQUEST",
         poll_recv_request(c)
  PROVE  Handled(c)
<1> USE EventLoopAssumption DEF LoopTypes, Switches, ConnTypes, ConnSwitches, Handled
<1>1. CASE Unhandled(c)
  BY <1>1 DEF Unhandled, OpensNothing
<1>2. CASE Abandon(c) /\ UNCHANGED <<idle, room>>
  BY <1>2 DEF Abandon, OpensNothing
<1>3. CASE /\ \E d \in {"none", "some"} : data' = [data EXCEPT ![c] = d]
           /\ idle' = [idle EXCEPT ![c] = 0]
           /\ ReceivePart(c)
  BY <1>3 DEF ReceivePart, OpensNothing
<1>4. CASE /\ \E d \in {"none", "some"} : data' = [data EXCEPT ![c] = d]
           /\ idle' = [idle EXCEPT ![c] = 0]
           /\ Answer(c)
  <2>1. reply_fd[c] = NoFd
    BY DEF Ownership
  <2>2. PICK fd \in Free \cup {NoFd} : /\ reply_fd' = [reply_fd EXCEPT ![c] = fd]
                                       /\ open' = open \cup ({fd} \ {NoFd})
    BY <1>4 DEF Answer
  <2>3. /\ ConnTypes'
        /\ \A d \in Conns \ {c} : state'[d] = state[d] /\ idle'[d] = idle[d]
        /\ idle'[c] = 0
        /\ state'[c] # "RECV_REQUEST"
    BY <1>4, <2>2 DEF Answer, Free
  <2>4. ConnSwitches' /\ \A d \in Conns \ {c} : conn_close'[d] = conn_close[d]
    BY <1>4 DEF Answer
  <2>5. CASE fd = NoFd
    BY <2>1, <2>2, <2>3, <2>4, <2>5 DEF OpensNothing
  <2>6. CASE fd \in Free
    <3>1. {fd} \ {NoFd} = {fd}
      BY <2>6 DEF Free
    <3>2. OpensFile(c)
      BY <2>2, <2>3, <2>6, <3>1 DEF OpensFile
    <3> QED
      BY <2>3, <2>4, <3>2
  <2> QED
    BY <2>2, <2>5, <2>6
<1> HIDE DEF LoopTypes, Switches, ConnTypes, ConnSwitches, Handled
<1> QED
  BY <1>1, <1>2, <1>3, <1>4 DEF poll_recv_request

LEMMA SendHandles ==
  ASSUME LoopTypes, Switches, NEW c \in connlist, state[c] = "SEND", poll_send(c)
  PROVE  Handled(c)
<1>1. ConnTypes' /\ OpensNothing(c)
  BY EventLoopAssumption DEF poll_send, Abandon, OpensNothing, LoopTypes, ConnTypes
<1>2. ConnSwitches'
  BY DEF poll_send, Abandon, Switches, ConnSwitches
<1>3. /\ \A d \in Conns \ {c} : state'[d] = state[d] /\ idle'[d] = idle[d]
      /\ idle'[c] \in {0, idle[c]}
  BY DEF poll_send, Abandon, LoopTypes
<1>4. \A d \in Conns \ {c} : conn_close'[d] = conn_close[d]
  BY DEF poll_send, Abandon, Switches
<1> QED
  BY <1>1, <1>2, <1>3, <1>4 DEF Handled

LEMMA VisitHandles ==
  ASSUME LoopTypes, Switches, Ownership, NEW c \in connlist,
         \/ Abandon(c) /\ UNCHANGED <<idle, room>>
         \/ state[c] = "RECV_REQUEST" /\ poll_recv_request(c)
         \/ state[c] = "SEND" /\ poll_send(c)
         \/ Unhandled(c)
  PROVE  Handled(c)
<1>1. CASE Abandon(c) /\ UNCHANGED <<idle, room>>
  BY <1>1 DEF Abandon, OpensNothing, LoopTypes, Switches, ConnTypes, ConnSwitches, Handled
<1>2. CASE Unhandled(c)
  BY <1>2 DEF Unhandled, OpensNothing, LoopTypes, Switches, ConnTypes, ConnSwitches, Handled
<1> QED
  BY <1>1, <1>2, RecvHandles, SendHandles

LEMMA HandledOwns ==
  ASSUME LoopTypes, Ownership, NEW c \in connlist, Handled(c), UNCHANGED <<connlist, socket>>
  PROVE  Ownership'
<1> USE EventLoopAssumption DEF LoopTypes, Handled, ConnTypes
<1>1. CASE OpensNothing(c)
  BY <1>1 DEF OpensNothing, Ownership
<1>2. CASE OpensFile(c)
  <2>1. PICK fd \in Free : /\ open' = open \cup {fd}
                           /\ reply_fd' = [reply_fd EXCEPT ![c] = fd]
    BY <1>2 DEF OpensFile
  <2>2. fd \notin open /\ fd # NoFd
    BY DEF Free
  <2> QED
    BY <1>2, <2>1, <2>2 DEF OpensFile, Ownership
<1> QED
  BY <1>1, <1>2

-----------------------------------------------------------------------------
(***************************************************************************)
(* Every step keeps the invariant.                                         *)
(***************************************************************************)

\* The steps that leave the connections and their descriptors as they are.
Quiet ==
  \/ CheckRunning \/ BuildSets \/ NoAccept \/ AcceptRunsOut \/ AcceptFails \/ EndPass
  \/ CloseFiles \/ Exit \/ Connect \/ ClientSends \/ ClientReads \/ Signal \/ Tick
  \/ UNCHANGED vars

LEMMA QuietTypes == ASSUME Inv, Quiet PROVE LoopTypes' /\ Switches'
<1> USE EventLoopAssumption
     DEF Inv, Quiet, vars, conns, sets, client, exit
<1>1. CASE CheckRunning \/ NoAccept \/ AcceptRunsOut \/ EndPass \/ CloseFiles \/ Exit
           \/ Signal \/ UNCHANGED vars
  <2>1. LoopTypes'
    BY <1>1 DEF CheckRunning, NoAccept, AcceptRunsOut, EndPass, CloseFiles, Exit, Signal,
       LoopTypes
  <2>2. Switches'
    BY <1>1 DEF CheckRunning, NoAccept, AcceptRunsOut, EndPass, CloseFiles, Exit, Signal,
       Switches
  <2> QED
    BY <2>1, <2>2
<1>2. CASE BuildSets
  <2>1. Watched("SEND") \subseteq Fds /\ Watched("RECV_REQUEST") \subseteq Fds
    BY DEF Watched, LoopTypes, Ownership
  <2>2. LoopTypes'
    BY <1>2, <2>1 DEF BuildSets, LoopTypes
  <2>3. Switches'
    BY <1>2 DEF BuildSets, Switches
  <2> QED
    BY <2>2, <2>3
<1>3. CASE AcceptFails \/ Connect \/ Tick
  <2>1. LoopTypes'
    BY <1>3 DEF AcceptFails, Connect, Tick, LoopTypes, SomeoneWaits
  <2>2. Switches'
    BY <1>3 DEF AcceptFails, Connect, Tick, Switches
  <2> QED
    BY <2>1, <2>2
<1>4. CASE ClientSends \/ ClientReads
  <2>1. LoopTypes'
    BY <1>4 DEF ClientSends, ClientReads, LoopTypes
  <2>2. Switches'
    BY <1>4 DEF ClientSends, ClientReads, Switches
  <2> QED
    BY <2>1, <2>2
<1> QED
  BY <1>1, <1>2, <1>3, <1>4

LEMMA QuietKeeps == ASSUME Inv, Quiet PROVE Inv'
<1>1. LoopTypes' /\ Switches'
  BY QuietTypes
<1>2. /\ UNCHANGED <<connlist, state, conn_close, socket, reply_fd, idle, open>>
  BY DEF Quiet, CheckRunning, BuildSets, NoAccept, AcceptRunsOut, AcceptFails, EndPass,
     CloseFiles, Exit, Connect, ClientSends, ClientReads, Signal, Tick, vars, conns
<1>3. Ownership'
  BY <1>2 DEF Inv, Ownership
<1>4. /\ Swept' /\ SomeoneWaits' /\ InTime'
  BY <1>2 DEF Inv, Swept, Between, SomeoneWaits, InTime, LoopTypes, Quiet,
     CheckRunning, BuildSets, NoAccept, AcceptRunsOut, AcceptFails, EndPass, CloseFiles,
     Exit, Connect, ClientSends, ClientReads, Signal, Tick, vars, conns, sets
<1>5. SelectWatchesAll'
  <2>1. CASE BuildSets
    <3>1. \A c \in connlist : state[c] \in {"RECV_REQUEST", "SEND"}
      BY <2>1 DEF BuildSets, Inv, Swept, Between, LoopTypes
    <3> QED
      BY <1>2, <2>1, <3>1
         DEF BuildSets, Watched, Inv, Ownership, LoopTypes, SelectWatchesAll
  <2>2. CASE ~BuildSets
    BY <1>2, <2>2 DEF Quiet, CheckRunning, NoAccept, AcceptRunsOut, AcceptFails, EndPass,
       CloseFiles, Exit, Connect, ClientSends, ClientReads, Signal, Tick, vars, sets,
       Inv, SelectWatchesAll
  <2> QED
    BY <2>1, <2>2
<1> QED
  BY <1>1, <1>3, <1>4, <1>5 DEF Inv

\* select() returns: time is counted anew.
LEMMA SelectKeeps == ASSUME Inv, SelectReturns PROVE Inv'
<1> USE DEF SelectReturns, UpdateTime, client, exit
<1>1. idle' \in [Conns -> 0..timeout_secs]
  <2>1. \A a, b \in Nat : Sooner(a, b) \in 0..b
    BY DEF Sooner
  <2>2. \A c \in Conns : idle[c] + lag \in Nat
    BY EventLoopAssumption DEF Inv, LoopTypes
  <2> QED
    BY <2>1, <2>2, EventLoopAssumption DEF Inv, LoopTypes
<1>2. LoopTypes'
  BY <1>1, EventLoopAssumption DEF Inv, LoopTypes, ReadyToRecv, ReadyToSend
<1>3. Switches'
  BY DEF Inv, Switches
<1>4. Ownership'
  BY DEF Inv, Ownership
<1>5. SomeoneWaits'
  <2>1. Sockin \in recv_set' => Sockin \in Readable
    BY DEF ReadyToRecv
  <2>2. Sockin \in Readable => backlog > 0
    BY EventLoopAssumption DEF Readable, Inv, LoopTypes, Ownership
  <2> QED
    BY <2>1, <2>2 DEF SomeoneWaits
<1> QED
  BY <1>2, <1>3, <1>4, <1>5 DEF Inv, Swept, Between, SelectWatchesAll, InTime

LEMMA AcceptKeeps == ASSUME Inv, AcceptConnection PROVE Inv'
<1> USE DEF AcceptConnection, sets, exit
<1>1. backlog > 0
  BY DEF Inv, SomeoneWaits
<1>2. LoopTypes'
  BY <1>1, EventLoopAssumption DEF Inv, LoopTypes, Free
<1>3. Switches'
  BY DEF Inv, LoopTypes, Switches
<1>4. Ownership'
  BY EventLoopAssumption DEF Inv, LoopTypes, Ownership, Free
<1>5. Swept' /\ InTime'
  BY EventLoopAssumption DEF Inv, LoopTypes, Swept, Between, InTime
<1> QED
  BY <1>2, <1>3, <1>4, <1>5 DEF Inv, SomeoneWaits, SelectWatchesAll

LEMMA FirstRecvKeeps == ASSUME Inv, FirstRecv PROVE Inv'
<1> USE DEF FirstRecv, sets, exit, Pass
<1>1. PICK c \in todo : poll_recv_request(c)
  OBVIOUS
<1>2. c \in connlist /\ state[c] = "RECV_REQUEST"
  BY DEF Inv, LoopTypes, Swept
<1>3. Handled(c)
  BY <1>1, <1>2, RecvHandles DEF Inv
<1>4. LoopTypes'
  BY <1>3 DEF Handled, ConnTypes, Inv, LoopTypes
<1>5. Switches'
  BY <1>3 DEF Handled, ConnSwitches, Inv, Switches
<1>6. Ownership'
  BY <1>2, <1>3, HandledOwns DEF Inv
<1>7. InTime'
  BY <1>1, <1>2, <1>3, EventLoopAssumption
     DEF Handled, ConnTypes, Inv, LoopTypes, Swept, InTime
<1> QED
  BY <1>4, <1>5, <1>6, <1>7 DEF Inv, Swept, Between, SomeoneWaits, SelectWatchesAll

LEMMA VisitKeeps == ASSUME Inv, Visit PROVE Inv'
<1> USE DEF sets, exit
<1>1. PICK c \in todo :
        /\ IF Expired(c) THEN Abandon(c) /\ UNCHANGED <<idle, room>>
           ELSE IF state[c] = "RECV_REQUEST" /\ socket[c] \in recv_set
           THEN poll_recv_request(c)
           ELSE IF state[c] = "SEND" /\ socket[c] \in send_set THEN poll_send(c)
           ELSE Unhandled(c)
        /\ todo' = IF state'[c] = "DONE" THEN todo ELSE Others(c)
  BY DEF Visit
<1>2. /\ pc = "visit" /\ Finished = {}
      /\ UNCHANGED <<pc, running, accepting, connlist, socket, sets, lag, backlog, exit>>
  BY DEF Visit
<1>3. c \in connlist /\ state[c] # "DONE"
  BY <1>2 DEF Finished, Inv, LoopTypes
<1>4. Handled(c)
  <2>1. \/ Abandon(c) /\ UNCHANGED <<idle, room>>
        \/ state[c] = "RECV_REQUEST" /\ poll_recv_request(c)
        \/ state[c] = "SEND" /\ poll_send(c)
        \/ Unhandled(c)
    BY <1>1
  <2> QED
    BY <1>3, <2>1, VisitHandles DEF Inv
<1>5. LoopTypes'
  BY <1>1, <1>2, <1>4 DEF Handled, ConnTypes, Others, Inv, LoopTypes
<1>6. Switches'
  BY <1>2, <1>4 DEF Handled, ConnSwitches, Inv, Switches
<1>7. Ownership'
  BY <1>2, <1>3, <1>4, HandledOwns DEF Inv
<1>8. Swept'
  BY <1>1, <1>2, <1>3, <1>4 DEF Handled, ConnTypes, Others, Inv, LoopTypes, Swept, Between
<1>9. ASSUME timeout_secs > 0 PROVE idle'[c] < timeout_secs \/ (conn_close'[c] /\ state'[c] = "DONE")
  <2>1. CASE Expired(c)
    BY <1>1, <1>3, <2>1 DEF Abandon, Inv, LoopTypes, Switches
  <2>2. CASE ~Expired(c)
    BY <1>3, <1>4, <1>9, <2>2, EventLoopAssumption DEF Expired, Handled, Inv, LoopTypes
  <2> QED
    BY <2>1, <2>2
<1>10. InTime'
  BY <1>1, <1>2, <1>3, <1>4, <1>9 DEF Handled, ConnTypes, Others, Finished, Inv, LoopTypes, InTime
<1> QED
  BY <1>2, <1>5, <1>6, <1>7, <1>8, <1>10 DEF Inv, SomeoneWaits, SelectWatchesAll

\* free_connection, from the pass or at the exit.
LEMMA ForgetKeeps ==
  ASSUME Inv, NEW c \in connlist, Forget(c), open' = open \ {socket[c], reply_fd[c]},
         todo' = todo \ {c},
         UNCHANGED <<pc, sets, lag, backlog, logfile>>
  PROVE  LoopTypes' /\ Ownership'
<1> USE DEF Forget, sets
<1>1. LoopTypes'
  BY EventLoopAssumption DEF Inv, LoopTypes
<1>2. Ownership'
  BY EventLoopAssumption DEF Inv, LoopTypes, Ownership
<1> QED
  BY <1>1, <1>2

LEMMA FreeKeeps == ASSUME Inv, free_connection PROVE Inv'
<1>1. PICK c \in Finished : /\ Forget(c) /\ todo' = Others(c)
                            /\ open' = open \ {socket[c], reply_fd[c]}
  BY DEF free_connection
<1>2. /\ pc = "visit" /\ accepting' = TRUE
      /\ UNCHANGED <<pc, running, sets, lag, backlog, exit>>
  BY DEF free_connection, ResumeAccepting
<1>3. c \in connlist
  BY DEF Finished, Inv, LoopTypes
<1>4. LoopTypes' /\ Ownership'
  BY <1>1, <1>2, <1>3, ForgetKeeps DEF Others, sets, exit
<1>5. Switches'
  BY <1>1, <1>2 DEF Forget, exit, Inv, Switches
<1>6. Swept' /\ InTime'
  BY <1>1, <1>2, <1>3 DEF Forget, Others, Finished, Inv, LoopTypes, Swept, Between, InTime
<1> QED
  BY <1>2, <1>4, <1>5, <1>6 DEF Inv, SomeoneWaits, SelectWatchesAll

LEMMA FreeAtExitKeeps == ASSUME Inv, todo = {}, FreeAtExit PROVE Inv'
<1>1. PICK c \in connlist : /\ Forget(c)
                            /\ open' = open \ {socket[c], reply_fd[c]}
                            /\ wrote_closed' = (wrote_closed
                                                 \/ (state[c] = "SEND" /\ logfile = "closed"))
  BY DEF FreeAtExit
<1>2. /\ pc = "free_all" /\ accepting' = TRUE
      /\ todo' = todo \ {c}
      /\ UNCHANGED <<pc, running, sets, lag, backlog, logfile>>
  BY DEF FreeAtExit, ResumeAccepting
<1>3. LoopTypes' /\ Ownership'
  BY <1>1, <1>2, ForgetKeeps
<1>4. Switches'
  BY <1>1, <1>2 DEF Forget, Inv, Switches
<1> QED
  BY <1>2, <1>3, <1>4 DEF Inv, Swept, Between, SomeoneWaits, SelectWatchesAll, InTime

LEMMA RecycleKeeps == ASSUME Inv, recycle_connection PROVE Inv'
<1> USE DEF recycle_connection, ResumeAccepting, ClosedWhenRecycled, Others, Finished, sets, exit
<1>1. LoopTypes'
  BY EventLoopAssumption DEF Inv, LoopTypes
<1>2. Switches'
  BY DEF Inv, Switches
<1>3. Ownership'
  BY EventLoopAssumption DEF Inv, LoopTypes, Ownership
<1>4. Swept' /\ InTime'
  BY DEF Inv, LoopTypes, Swept, Between, InTime
<1> QED
  BY <1>1, <1>2, <1>3, <1>4 DEF Inv, SomeoneWaits, SelectWatchesAll

LEMMA InvNext == Inv /\ [Next]_vars => Inv'
<1> SUFFICES ASSUME Inv, [Next]_vars PROVE Inv'
  OBVIOUS
<1>1. FreeAtExit => todo = {}
  BY DEF FreeAtExit, Inv, Swept
<1> QED
  BY <1>1, QuietKeeps, SelectKeeps, AcceptKeeps, FirstRecvKeeps, VisitKeeps, FreeKeeps,
     FreeAtExitKeeps, RecycleKeeps DEF Next, Server, Stopped, Quiet

LEMMA Invariant == Spec => []Inv
BY InvInit, InvNext, PTL DEF Spec

-----------------------------------------------------------------------------
(***************************************************************************)
(* The theorems.                                                           *)
(***************************************************************************)

\* Type correctness of the loop: in particular recv_set and send_set hold
\* descriptors only, never the -1 of a connection without a socket, and
\* accept() is not called more often than clients have come.
THEOREM TypeCorrect == Spec => []TypeOK
<1>1. Inv => TypeOK
  <2> SUFFICES ASSUME Inv PROVE TypeOK
    OBVIOUS
  <2>1. LoopTypes /\ Switches
    BY DEF Inv
  <2> QED
    BY <2>1, Zenon DEF LoopTypes, Switches, TypeOK
<1> QED
  BY <1>1, Invariant, PTL

\* Every open descriptor belongs to exactly one connection, in one role, and
\* what a connection holds is open, whatever accept() and open() hand out
\* while connections are freed and recycled in the middle of a pass.
THEOREM DescriptorsAreOwned == Spec => []FdOwnership
<1>1. Inv => FdOwnership
  <2> DEFINE Held == {socket[c] : c \in connlist} \cup ({reply_fd[c] : c \in connlist} \ {NoFd})
  <2> SUFFICES ASSUME Inv PROVE FdOwnership
    OBVIOUS
  <2>1. open \subseteq Held
    BY EventLoopAssumption DEF Inv, LoopTypes, Ownership
  <2>2. Held \subseteq open
    BY DEF Inv, Ownership
  <2> QED
    BY <2>1, <2>2 DEF Inv, Ownership, FdOwnership
<1> QED
  BY <1>1, Invariant, PTL

\* select() waits for every connection and on open descriptors only: no pass
\* leaves a connection DONE, one finished by accept_connection's own call of
\* poll_recv_request included.
THEOREM SelectWatchesEveryone == Spec => []SelectWatchesAll
<1>1. Inv => SelectWatchesAll
  BY DEF Inv
<1> QED
  BY <1>1, Invariant, PTL

\* poll_check_timeout lets nobody overstay: at select() no connection has been
\* idle for the time-out, and none will have been for twice as long when
\* select() returns.
THEOREM NobodyOverstays == Spec => []NoneOverstays
<1>1. Inv => NoneOverstays
  BY EventLoopAssumption DEF Inv, LoopTypes, InTime, NoneOverstays
<1> QED
  BY <1>1, Invariant, PTL

-----------------------------------------------------------------------------
(***************************************************************************)
(* Running out of descriptors, where only the process's own limit can be   *)
(* met.  A run of TLC shows that ENFILE breaks it.                         *)
(***************************************************************************)
OnlyOwnLimit == ~FileTableFull

\* accept() fails with EMFILE only when connections hold every descriptor.
Deaf == ~accepting => connlist # {}

LEMMA DeafNext == ASSUME OnlyOwnLimit, Inv, Deaf, [Next]_vars PROVE Deaf'
<1>1. CASE AcceptRunsOut
  <2>1. open = Fds
    BY <1>1 DEF AcceptRunsOut, OnlyOwnLimit, Free, Inv, LoopTypes
  <2>2. connlist # {}
    BY <2>1, EventLoopAssumption DEF Inv, Ownership
  <2> QED
    BY <1>1, <2>2 DEF AcceptRunsOut, conns, Deaf
<1>2. CASE free_connection \/ FreeAtExit \/ recycle_connection
  BY <1>2 DEF free_connection, FreeAtExit, recycle_connection, ResumeAccepting, Deaf
<1>3. CASE AcceptConnection
  BY <1>3 DEF AcceptConnection, Deaf
<1>4. CASE \/ CheckRunning \/ BuildSets \/ SelectReturns \/ NoAccept \/ AcceptFails
           \/ FirstRecv \/ Visit \/ EndPass \/ CloseFiles \/ Exit
           \/ Connect \/ ClientSends \/ ClientReads \/ Signal \/ Tick \/ UNCHANGED vars
  BY <1>4 DEF CheckRunning, BuildSets, SelectReturns, NoAccept, AcceptFails, FirstRecv,
     Visit, EndPass, CloseFiles, Exit, Connect, ClientSends, ClientReads, Signal, Tick,
     vars, conns, Deaf
<1> QED
  BY <1>1, <1>2, <1>3, <1>4 DEF Next, Server, Stopped

\* A server that has stopped accepting for want of descriptors has a
\* connection left whose end makes it accept again, if the process meets its
\* own limit before the system's.
THEOREM DeafServerHasConnection == ASSUME OnlyOwnLimit PROVE Spec => []DeafHasConnection
<1>1. Init => Deaf
  BY DEF Init, Deaf
<1>2. Inv /\ Deaf /\ [Next]_vars => Deaf'
  BY DeafNext
<1>3. Deaf => DeafHasConnection
  BY DEF Deaf, DeafHasConnection
<1> QED
  BY <1>1, <1>2, <1>3, Invariant, PTL DEF Spec
=============================================================================
