------------------------------- MODULE Startup -------------------------------
(***************************************************************************)
(* main() from init_sockin to its exit, for several starts of the program  *)
(* that share a pid file and perhaps a port: the socket is bound, a daemon *)
(* is forked off while its parent waits for it, signals are handled,       *)
(* privileges are given up, the pid file is created, and after the main    *)
(* loop it is removed again.  One action per system call that matters;     *)
(* each may fail, and a process may be killed between any two of them.     *)
(*                                                                         *)
(* O_EXLOCK stands for O_EXCL, as it does where there is no O_EXLOCK.      *)
(***************************************************************************)
EXTENDS Naturals, FiniteSets

CONSTANTS
  Starts,     \* starts of the program; each one names the process that serves
  Ports,
  Daemons,    \* the starts with --daemon
  Dropped,    \* what --chroot, --gid and --uid ask to give up
  NoFile, NoStart

Privileges == {"outside", "group", "root"}

ASSUME StartupAssumption ==
  /\ Daemons \subseteq Starts
  /\ Dropped \subseteq Privileges
  /\ NoStart \notin Starts
  /\ NoFile \notin [by : Starts, text : Starts \cup {NoStart}, as : SUBSET Privileges]

VARIABLES
  port,      \* the port of each start
  pc,        \* where the process that will serve is
  fds,       \* which of sockin and the child's end of the lifeline it holds
  privs,     \* which privileges it has
  running,
  ended,     \* how it ended, and at which step
  parent,    \* where the parent of a daemon is
  told,      \* the status the parent exits with
  pidfile    \* who created it, whose number is in it, with which privileges

vars == <<port, pc, fds, privs, running, ended, parent, told, pidfile>>

\* The order of main().  Mutant: the pid file is created first.
CreateFirst ==
  [bind |-> "fork", fork |-> "signals", signals |-> "create", create |-> "write",
   write |-> "chroot", chroot |-> "gid", gid |-> "uid", uid |-> "detach",
   detach |-> "arm", arm |-> "serve", serve |-> "close", close |-> "unlink"]

\* Mutant: the user is changed before the group.
UidFirst ==
  [bind |-> "fork", fork |-> "signals", signals |-> "chroot", chroot |-> "uid",
   uid |-> "gid", gid |-> "create", create |-> "write", write |-> "detach",
   detach |-> "arm", arm |-> "serve", serve |-> "close", close |-> "unlink"]

After ==
  [bind |-> "fork", fork |-> "signals", signals |-> "chroot", chroot |-> "gid",
   gid |-> "uid", uid |-> "create", create |-> "write", write |-> "detach",
   detach |-> "arm", arm |-> "serve", serve |-> "close", close |-> "unlink"]

Steps  == DOMAIN After \cup {"unlink", "refused"}
Over   == {"exiting", "dead"}
Alive(i) == pc[i] \in Steps

Init ==
  /\ port \in [Starts -> Ports]
  /\ pc = [i \in Starts |-> "off"]
  /\ fds = [i \in Starts |-> {}]
  /\ privs = [i \in Starts |-> Privileges]
  /\ running = [i \in Starts |-> FALSE]
  /\ ended = [i \in Starts |-> [how |-> "not", at |-> "off"]]
  /\ parent = [i \in Starts |-> "none"]
  /\ told = [i \in Starts |-> "nothing"]
  /\ pidfile = NoFile

Goto(i, step) == pc' = [pc EXCEPT ![i] = step]
Proceed(i) == Goto(i, After[pc[i]])

\* exit() or death: the descriptors are closed before the process can be
\* waited for.
EndAt(i, how, at) ==
  /\ Goto(i, "exiting")
  /\ ended' = [ended EXCEPT ![i] = [how |-> how, at |-> at]]
  /\ fds' = [fds EXCEPT ![i] = {}]

End(i, how) == EndAt(i, how, pc[i])

Start(i) ==
  /\ pc[i] = "off"
  /\ Goto(i, "bind")
  /\ UNCHANGED <<port, fds, privs, running, ended, parent, told, pidfile>>

\* A parent has sockin, too, until it exits.
PortBusy(i) ==
  \E j \in Starts \ {i} :
    port[j] = port[i] /\ ("sockin" \in fds[j] \/ parent[j] \notin {"none", "exited"})

init_sockin(i) ==
  /\ pc[i] = "bind"
  /\ \/ /\ ~PortBusy(i)
        /\ fds' = [fds EXCEPT ![i] = {"sockin"}]
        /\ Proceed(i)
        /\ UNCHANGED ended
     \/ PortBusy(i) /\ End(i, "error")
  /\ UNCHANGED <<port, privs, running, parent, told, pidfile>>

\* daemonize_start, up to fork(): from here on this process is the child.
daemonize_start(i) ==
  /\ pc[i] = "fork"
  /\ Proceed(i)
  /\ IF i \in Daemons
       THEN /\ fds' = [fds EXCEPT ![i] = @ \cup {"lifeline"}]
            /\ parent' = [parent EXCEPT ![i] = "reading"]
       ELSE UNCHANGED <<fds, parent>>
  /\ UNCHANGED <<port, privs, running, ended, told, pidfile>>

HandleSignals(i) ==
  /\ pc[i] = "signals"
  /\ Proceed(i)
  /\ UNCHANGED <<port, fds, privs, running, ended, parent, told, pidfile>>

\* chroot, setgroups with setgid, and setuid, each as far as it is asked
\* for; only root may.
GivesUp == [chroot |-> "outside", gid |-> "group", uid |-> "root"]

GiveUp(i) ==
  /\ pc[i] \in DOMAIN GivesUp
  /\ LET privilege == GivesUp[pc[i]]
     IN  IF privilege \in Dropped /\ "root" \notin privs[i]
           THEN End(i, "error") /\ UNCHANGED privs
           ELSE /\ Proceed(i)
                /\ privs' = [privs EXCEPT ![i] = @ \ ({privilege} \cap Dropped)]
                /\ UNCHANGED <<fds, ended>>
  /\ UNCHANGED <<port, running, parent, told, pidfile>>

\* Mutant: open() without O_EXCL.
AnyFile == TRUE
Exclusive == pidfile = NoFile

pidfile_create(i) ==
  /\ pc[i] = "create"
  /\ \/ /\ Exclusive
        /\ pidfile' = [by |-> i, text |-> NoStart, as |-> privs[i]]
        /\ Proceed(i)
     \/ ~Exclusive /\ Goto(i, "refused") /\ UNCHANGED pidfile
  /\ UNCHANGED <<port, fds, privs, running, ended, parent, told>>

\* ftruncate() or pwrite() fails: pidfile_remove, whose unlink() may fail in
\* its turn.  Mutant: the file is left there.
LeaveFile(i) == UNCHANGED pidfile
RemoveFile(i) == pidfile' = NoFile

pidfile_write(i) ==
  /\ pc[i] = "write"
  /\ \/ /\ pidfile' = [pidfile EXCEPT !.text = i]
        /\ Proceed(i)
        /\ UNCHANGED <<fds, ended>>
     \/ RemoveFile(i) /\ End(i, "error")
     \/ UNCHANGED pidfile /\ EndAt(i, "error", "cleanup")
  /\ UNCHANGED <<port, privs, running, parent, told>>

\* The pid that is reported is the one in the file by now, if the file is
\* still there and has one: else 0, or another message.
pidfile_read(i) ==
  /\ pc[i] = "refused"
  /\ End(i, "error")
  /\ UNCHANGED <<port, privs, running, parent, told, pidfile>>

\* Mutant: the write end of the lifeline stays open.
KeepLifeline(i) == UNCHANGED fds
CutLifeline(i) == fds' = [fds EXCEPT ![i] = @ \ {"lifeline"}]

\* When setsid() fails, nothing of this: Fail.
daemonize_finish(i) ==
  /\ pc[i] = "detach"
  /\ CutLifeline(i)
  /\ Proceed(i)
  /\ UNCHANGED <<port, privs, running, ended, parent, told, pidfile>>

SetRunning(i) ==
  /\ pc[i] = "arm"
  /\ running' = [running EXCEPT ![i] = TRUE]
  /\ Proceed(i)
  /\ UNCHANGED <<port, fds, privs, ended, parent, told, pidfile>>

LeaveLoop(i) ==
  /\ pc[i] = "serve" /\ ~running[i]
  /\ Proceed(i)
  /\ UNCHANGED <<port, fds, privs, running, ended, parent, told, pidfile>>

\* xclose(sockin); when it dies: Fail.
CloseSockin(i) ==
  /\ pc[i] = "close"
  /\ fds' = [fds EXCEPT ![i] = @ \ {"sockin"}]
  /\ Proceed(i)
  /\ UNCHANGED <<port, privs, running, ended, parent, told, pidfile>>

\* pidfile_remove and the end of main(): once the file is gone, close() may
\* still die, of the pid file or of a connection.
pidfile_remove(i) ==
  /\ pc[i] = "unlink"
  /\ \/ pidfile' = NoFile /\ \E how \in {"clean", "error"} : End(i, how)
     \/ UNCHANGED pidfile /\ End(i, "error")
  /\ UNCHANGED <<port, privs, running, parent, told>>

\* err() of a step that has done nothing else yet: bind(), fopen() or fork(),
\* signal(), chroot() and the like if asked for, open() of the pid file,
\* setsid() of a daemon, select()..., close() of sockin.
MayFail(i) ==
  {"bind", "fork", "signals", "create", "serve", "close"}
    \cup (IF i \in Daemons THEN {"detach"} ELSE {})
    \cup {step \in DOMAIN GivesUp : GivesUp[step] \in Dropped}

Fail(i) ==
  /\ pc[i] \in MayFail(i)
  /\ End(i, "error")
  /\ UNCHANGED <<port, privs, running, parent, told, pidfile>>

\* SIGTERM: stop_running once main() has asked for it, death before.
HandlerSet(i) == pc[i] \notin {"off", "bind", "fork", "signals"}

Terminate(i) ==
  /\ Alive(i)
  /\ IF HandlerSet(i)
       THEN running' = [running EXCEPT ![i] = FALSE] /\ UNCHANGED <<pc, ended, fds>>
       ELSE End(i, "terminated") /\ UNCHANGED running
  /\ UNCHANGED <<port, privs, parent, told, pidfile>>

Kill(i) ==
  /\ Alive(i)
  /\ End(i, "killed")
  /\ UNCHANGED <<port, privs, running, parent, told, pidfile>>

BecomeZombie(i) ==
  /\ pc[i] = "exiting"
  /\ Goto(i, "dead")
  /\ UNCHANGED <<port, fds, privs, running, ended, parent, told, pidfile>>

\* The parent: read() returns when nobody has the other end any more.
\* Mutant: it does not wait.
NoWait(i) == TRUE
EndOfLifeline(i) == "lifeline" \notin fds[i]

ParentReads(i) ==
  /\ parent[i] = "reading"
  /\ EndOfLifeline(i)
  /\ parent' = [parent EXCEPT ![i] = "waiting"]
  /\ UNCHANGED <<port, pc, fds, privs, running, ended, told, pidfile>>

\* What the parent exits with: the status, of which the upper half is 0 for
\* a child that was killed.
WEXITSTATUS(i) == IF ended[i].how = "error" THEN "failure" ELSE "success"

\* waitpid(WNOHANG): only of a child that can be waited for already.
ParentWaits(i) ==
  /\ parent[i] = "waiting"
  /\ parent' = [parent EXCEPT ![i] = "exited"]
  /\ told' = [told EXCEPT ![i] =
       IF pc[i] = "dead" THEN WEXITSTATUS(i) ELSE "success"]
  /\ UNCHANGED <<port, pc, fds, privs, running, ended, pidfile>>

\* Somebody deletes the pid file of a process that is no more.
DeleteStale ==
  /\ pidfile # NoFile
  /\ pc[pidfile.by] \in Over
  /\ pidfile' = NoFile
  /\ UNCHANGED <<port, pc, fds, privs, running, ended, parent, told>>

Work(i) ==
  \/ init_sockin(i) \/ daemonize_start(i) \/ HandleSignals(i) \/ GiveUp(i)
  \/ pidfile_create(i) \/ pidfile_write(i) \/ pidfile_read(i)
  \/ daemonize_finish(i) \/ SetRunning(i)
  \/ LeaveLoop(i) \/ CloseSockin(i) \/ pidfile_remove(i)

Parent(i) == ParentReads(i) \/ ParentWaits(i)

Next ==
  \/ \E i \in Starts :
       \/ Start(i) \/ Work(i) \/ Parent(i) \/ BecomeZombie(i)
       \/ Fail(i) \/ Terminate(i) \/ Kill(i)
  \/ DeleteStale

\* A process that can go on does; nothing makes anybody start one, kill one,
\* or tidy up.
Spec ==
  /\ Init /\ [][Next]_vars
  /\ \A i \in Starts : WF_vars(Work(i)) /\ WF_vars(Parent(i)) /\ WF_vars(BecomeZombie(i))

-----------------------------------------------------------------------------
(***************************************************************************)
(* Properties.                                                             *)
(***************************************************************************)
Endings == {"not", "clean", "error", "terminated", "killed"}
PidFiles == [by : Starts, text : Starts \cup {NoStart}, as : SUBSET Privileges]

\* Every variable keeps its type: a parent exits with one of two statuses.
TypeOK ==
  /\ port \in [Starts -> Ports]
  /\ pc \in [Starts -> {"off"} \cup Steps \cup Over]
  /\ fds \in [Starts -> SUBSET {"sockin", "lifeline"}]
  /\ privs \in [Starts -> SUBSET Privileges]
  /\ running \in [Starts -> BOOLEAN]
  /\ ended \in [Starts -> [how : Endings, at : {"off", "cleanup"} \cup Steps]]
  /\ parent \in [Starts -> {"none", "reading", "waiting", "exited"}]
  /\ told \in [Starts -> {"nothing", "success", "failure"}]
  /\ pidfile \in PidFiles \cup {NoFile}

HoldsFile(i) == pc[i] \in {"write", "detach", "arm", "serve", "close", "unlink"}

\* Of all processes that share a pid file, it names the one that serves:
\* from pidfile_create to pidfile_remove the file is that process's own, with
\* its number in it once it is written, whatever the others do meanwhile.
PidfileNamesHolder ==
  \A i \in Starts : HoldsFile(i) =>
    /\ pidfile # NoFile /\ pidfile.by = i
    /\ pc[i] # "write" => pidfile.text = i

\* The calls that die without pidfile_remove() while the file is there:
\* setsid(), those of httpd_poll(), xclose(sockin), and unlink() itself,
\* after the loop or when the file could not be written.
LeavesFile == {"detach", "serve", "close", "unlink", "cleanup"}

\* A pid file without its process is left by a kill, or by a call of
\* LeavesFile that failed, and by nothing else: not by a start that was
\* refused or could not write its number, not by one that failed at any
\* other call, and not by SIGTERM, whenever it comes, if those calls work.
StaleFileExplained ==
  pidfile # NoFile /\ pc[pidfile.by] \in Over =>
    LET end == ended[pidfile.by]
    IN  end.how = "killed" \/ (end.how = "error" /\ end.at \in LeavesFile)

\* chroot() and setgid() come before the privilege they need is given up,
\* and no client is served with one that was to be given up.
PrivilegesInOrder ==
  \A i \in Starts :
    /\ pc[i] \in DOMAIN GivesUp => "root" \in privs[i]
    /\ pc[i] = "serve" => privs[i] \cap Dropped = {}

\* The clean exit can undo what pidfile_create did: the file was created in
\* the same root directory by the same user and group.
PidfileRemovable ==
  \A i \in Starts : pc[i] = "unlink" => pidfile # NoFile /\ pidfile.as = privs[i]

\* A parent reports failure only of a child that failed, and reports success
\* only of one that has finished daemonize_finish, or has ended.
ParentIsInformed ==
  \A i \in Starts :
    /\ told[i] = "failure" => ended[i].how = "error"
    /\ told[i] = "success" => pc[i] \in {"arm", "serve", "close", "unlink"} \cup Over

\* The parent of a daemon always comes back to the shell: the child cuts the
\* lifeline, or it ends.
ParentReturns ==
  \A i \in Starts : (parent[i] = "reading") ~> (parent[i] = "exited")

\* "child init failed, pass on its exit status": a parent does not report
\* success for a child that failed before it was ready.
FailureIsPassedOn ==
  \A i \in Starts :
    told[i] = "success" /\ ended[i].how = "error" => ended[i].at \in {"serve", "close", "unlink"}

=============================================================================
