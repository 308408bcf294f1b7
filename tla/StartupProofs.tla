---------------------------- MODULE StartupProofs ----------------------------
(***************************************************************************)
(* The properties of Startup for any number of starts, daemons or not, on  *)
(* any ports and whatever privileges they drop.                            *)
(***************************************************************************)
EXTENDS Startup, TLAPS

\* The tables, entry by entry.
LEMMA Order ==
  /\ After["bind"] = "fork" /\ After["fork"] = "signals"
  /\ After["signals"] = "chroot" /\ After["chroot"] = "gid"
  /\ After["gid"] = "uid" /\ After["uid"] = "create"
  /\ After["create"] = "write" /\ After["write"] = "detach"
  /\ After["detach"] = "arm" /\ After["arm"] = "serve"
  /\ After["serve"] = "close" /\ After["close"] = "unlink"
  BY DEF After

LEMMA StepNames ==
  Steps = {"bind", "fork", "signals", "chroot", "gid", "uid", "create", "write",
           "detach", "arm", "serve", "close", "unlink", "refused"}
  BY DEF Steps, After

LEMMA GivenUp ==
  /\ DOMAIN GivesUp = {"chroot", "gid", "uid"}
  /\ GivesUp["chroot"] = "outside" /\ GivesUp["gid"] = "group" /\ GivesUp["uid"] = "root"
  BY DEF GivesUp

-----------------------------------------------------------------------------
LEMMA InitType == Init => TypeOK
  BY DEF Init, TypeOK, Privileges, Endings, Steps

LEMMA EndType ==
  ASSUME TypeOK, NEW i \in Starts, NEW how \in Endings,
         NEW at \in {"off", "cleanup"} \cup Steps, EndAt(i, how, at)
  PROVE  /\ pc' \in [Starts -> {"off"} \cup Steps \cup Over]
         /\ fds' \in [Starts -> SUBSET {"sockin", "lifeline"}]
         /\ ended' \in [Starts -> [how : Endings, at : {"off", "cleanup"} \cup Steps]]
  BY DEF TypeOK, EndAt, Goto, Over

LEMMA ProceedType ==
  ASSUME TypeOK, NEW i \in Starts, Proceed(i),
         pc[i] \in {"bind", "fork", "signals", "chroot", "gid", "uid", "create",
                   "write", "detach", "arm", "serve", "close"}
  PROVE  pc' \in [Starts -> {"off"} \cup Steps \cup Over]
BY Order, StepNames DEF TypeOK, Proceed, Goto

LEMMA StepType ==
  ASSUME TypeOK, PidfileNamesHolder, [Next]_vars
  PROVE  TypeOK'
<1> USE DEF TypeOK, Goto, Proceed, End
<1>1. ASSUME NEW i \in Starts, Start(i) PROVE TypeOK'
  BY <1>1, StepNames DEF Start
<1>2. ASSUME NEW i \in Starts, init_sockin(i) PROVE TypeOK'
  <2> HIDE DEF Proceed
  <2>1. CASE PortBusy(i) /\ End(i, "error")
    BY <1>2, <2>1, EndType, StepNames DEF init_sockin, Endings
  <2>2. CASE Proceed(i) /\ fds' = [fds EXCEPT ![i] = {"sockin"}] /\ UNCHANGED ended
    <3>1. pc' \in [Starts -> {"off"} \cup Steps \cup Over]
      BY <1>2, <2>2, ProceedType DEF init_sockin
    <3>2. fds' \in [Starts -> SUBSET {"sockin", "lifeline"}]
      BY <2>2
    <3> QED
      BY <1>2, <2>2, <3>1, <3>2 DEF init_sockin
  <2> QED
    BY <1>2, <2>1, <2>2 DEF init_sockin
<1>3. ASSUME NEW i \in Starts, daemonize_start(i) PROVE TypeOK'
  <2> HIDE DEF Proceed
  <2>1. pc' \in [Starts -> {"off"} \cup Steps \cup Over]
    BY <1>3, ProceedType DEF daemonize_start
  <2>2. fds[i] \cup {"lifeline"} \in SUBSET {"sockin", "lifeline"}
    OBVIOUS
  <2>3. fds' \in [Starts -> SUBSET {"sockin", "lifeline"}]
    BY <1>3, <2>2 DEF daemonize_start
  <2> QED
    BY <1>3, <2>1, <2>3 DEF daemonize_start
<1>4. ASSUME NEW i \in Starts, HandleSignals(i) PROVE TypeOK'
  BY <1>4, StepNames, Order DEF HandleSignals
<1>5. ASSUME NEW i \in Starts, GiveUp(i) PROVE TypeOK'
  <2> HIDE DEF Proceed
  <2>1. CASE End(i, "error") /\ UNCHANGED privs
    BY <1>5, <2>1, EndType, StepNames, GivenUp DEF GiveUp, Endings
  <2>2. CASE /\ Proceed(i)
             /\ privs' = [privs EXCEPT ![i] = @ \ ({GivesUp[pc[i]]} \cap Dropped)]
             /\ UNCHANGED <<fds, ended>>
    <3>1. pc' \in [Starts -> {"off"} \cup Steps \cup Over]
      BY <1>5, <2>2, ProceedType, GivenUp DEF GiveUp
    <3>2. privs[i] \ ({GivesUp[pc[i]]} \cap Dropped) \in SUBSET Privileges
      OBVIOUS
    <3>3. privs' \in [Starts -> SUBSET Privileges]
      BY <2>2, <3>2
    <3> QED
      BY <1>5, <2>2, <3>1, <3>3 DEF GiveUp
  <2> QED
    BY <1>5, <2>1, <2>2 DEF GiveUp
<1>6. ASSUME NEW i \in Starts, pidfile_create(i) PROVE TypeOK'
  BY <1>6, StepNames, Order DEF pidfile_create, PidFiles
<1>7. ASSUME NEW i \in Starts, pidfile_write(i) PROVE TypeOK'
  <2> HIDE DEF Proceed
  <2>1. CASE RemoveFile(i) /\ End(i, "error")
    BY <1>7, <2>1, EndType, StepNames DEF pidfile_write, RemoveFile, Endings
  <2>2. CASE /\ pidfile' = [pidfile EXCEPT !.text = i]
             /\ Proceed(i) /\ UNCHANGED <<fds, ended>>
    <3>1. pc' \in [Starts -> {"off"} \cup Steps \cup Over]
      BY <1>7, <2>2, ProceedType DEF pidfile_write
    <3>2. pidfile \in PidFiles
      BY <1>7 DEF pidfile_write, PidfileNamesHolder, HoldsFile
    <3> QED
      BY <1>7, <2>2, <3>1, <3>2 DEF pidfile_write, PidFiles
  <2>3. CASE UNCHANGED pidfile /\ EndAt(i, "error", "cleanup")
    BY <1>7, <2>3, EndType DEF pidfile_write, Endings
  <2> QED
    BY <1>7, <2>1, <2>2, <2>3 DEF pidfile_write
<1>8. ASSUME NEW i \in Starts, pidfile_read(i) PROVE TypeOK'
  BY <1>8, EndType, StepNames DEF pidfile_read, Endings
<1>9. ASSUME NEW i \in Starts, daemonize_finish(i) PROVE TypeOK'
  BY <1>9, StepNames, Order DEF daemonize_finish, CutLifeline
<1>10. ASSUME NEW i \in Starts, SetRunning(i) PROVE TypeOK'
  BY <1>10, StepNames, Order DEF SetRunning
<1>11. ASSUME NEW i \in Starts, LeaveLoop(i) PROVE TypeOK'
  BY <1>11, StepNames, Order DEF LeaveLoop
<1>12. ASSUME NEW i \in Starts, CloseSockin(i) PROVE TypeOK'
  BY <1>12, StepNames, Order DEF CloseSockin
<1>13. ASSUME NEW i \in Starts, pidfile_remove(i) PROVE TypeOK'
  <2>1. PICK how \in {"clean", "error"} : EndAt(i, how, "unlink")
    BY <1>13 DEF pidfile_remove
  <2>2. pidfile' \in PidFiles \cup {NoFile}
    BY <1>13 DEF pidfile_remove
  <2>3. how \in Endings /\ "unlink" \in {"off", "cleanup"} \cup Steps
    BY <2>1, StepNames DEF Endings
  <2>4. /\ pc' \in [Starts -> {"off"} \cup Steps \cup Over]
        /\ fds' \in [Starts -> SUBSET {"sockin", "lifeline"}]
        /\ ended' \in [Starts -> [how : Endings, at : {"off", "cleanup"} \cup Steps]]
    BY <2>1, <2>3, EndType
  <2> QED
    BY <1>13, <2>2, <2>4 DEF pidfile_remove
<1>14. ASSUME NEW i \in Starts, Fail(i) PROVE TypeOK'
  <2>1. pc[i] \in Steps
    BY <1>14, GivenUp, StepNames DEF Fail, MayFail
  <2> QED
    BY <1>14, <2>1, EndType DEF Fail, Endings
<1>15. ASSUME NEW i \in Starts, Terminate(i) PROVE TypeOK'
  BY <1>15, EndType DEF Terminate, Alive, Endings
<1>16. ASSUME NEW i \in Starts, Kill(i) PROVE TypeOK'
  BY <1>16, EndType DEF Kill, Alive, Endings
<1>17. ASSUME NEW i \in Starts, BecomeZombie(i) PROVE TypeOK'
  BY <1>17 DEF BecomeZombie, Over
<1>18. ASSUME NEW i \in Starts, Parent(i) PROVE TypeOK'
  BY <1>18 DEF Parent, ParentReads, ParentWaits, WEXITSTATUS
<1>19. CASE DeleteStale
  BY <1>19 DEF DeleteStale
<1>20. CASE UNCHANGED vars
  BY <1>20 DEF vars
<1> QED
  BY <1>1, <1>2, <1>3, <1>4, <1>5, <1>6, <1>7, <1>8, <1>9, <1>10, <1>11, <1>12,
     <1>13, <1>14, <1>15, <1>16, <1>17, <1>18, <1>19, <1>20 DEF Next, Work

-----------------------------------------------------------------------------
\* Who holds the file created it, with the privileges it still has; who
\* created a file that nobody holds was killed, or failed in one of the calls
\* that leave it.
CreatedAsNow == \A i \in Starts : HoldsFile(i) => pidfile.as = privs[i]

StrayExplained ==
  pidfile # NoFile =>
    \/ HoldsFile(pidfile.by)
    \/ /\ pc[pidfile.by] \in Over
       /\ LET end == ended[pidfile.by]
          IN  end.how = "killed" \/ (end.how = "error" /\ end.at \in LeavesFile)

FileInv == PidfileNamesHolder /\ CreatedAsNow /\ StrayExplained

\* Privileges are given up one after the other, the last of them being root.
RootUntilLast ==
  \A i \in Starts :
    pc[i] \in {"off", "bind", "fork", "signals", "chroot", "gid", "uid"} => "root" \in privs[i]

Without(i, privilege) == privilege \notin privs[i] \cap Dropped

GoneOneByOne ==
  \A i \in Starts :
    /\ pc[i] \in {"gid", "uid", "create", "write", "detach", "arm", "serve"} => Without(i, "outside")
    /\ pc[i] \in {"uid", "create", "write", "detach", "arm", "serve"} => Without(i, "group")
    /\ pc[i] \in {"create", "write", "detach", "arm", "serve"} => Without(i, "root")

PrivInv == RootUntilLast /\ GoneOneByOne

\* Steps that leave the file alone, and take nobody into holding it or out.
LEMMA FileUntouched ==
  ASSUME TypeOK, FileInv, NEW i \in Starts, NEW step,
         Goto(i, step), pc[i] # step, pc[i] \notin Over,
         UNCHANGED <<pidfile, privs, ended>>,
         \/ step \in {"detach", "arm", "serve", "close", "unlink"}
            /\ pc[i] \in {"detach", "arm", "serve", "close"}
         \/ ~HoldsFile(i) /\ step \notin {"write", "detach", "arm", "serve", "close", "unlink"}
  PROVE  FileInv'
<1> USE DEF Goto, HoldsFile, Over
<1>1. PidfileNamesHolder'
  BY DEF TypeOK, FileInv, PidfileNamesHolder
<1>2. CreatedAsNow'
  BY DEF TypeOK, FileInv, CreatedAsNow
<1>3. StrayExplained'
  BY DEF TypeOK, FileInv, StrayExplained, PidFiles
<1> QED
  BY <1>1, <1>2, <1>3 DEF FileInv

\* A process that ends leaves the file alone.
LEMMA FileAfterEnd ==
  ASSUME TypeOK, FileInv, NEW i \in Starts, NEW how, NEW at, EndAt(i, how, at),
         pc[i] \in Steps, UNCHANGED <<pidfile, privs>>,
         \/ ~HoldsFile(i) \/ how = "killed"
         \/ how = "error" /\ at \in LeavesFile
  PROVE  FileInv'
<1> USE DEF Goto, EndAt, HoldsFile, Over
<1>1. PidfileNamesHolder'
  BY DEF TypeOK, FileInv, PidfileNamesHolder
<1>2. CreatedAsNow'
  BY DEF TypeOK, FileInv, CreatedAsNow
<1>3. StrayExplained'
  BY StepNames DEF TypeOK, FileInv, StrayExplained, PidFiles
<1> QED
  BY <1>1, <1>2, <1>3 DEF FileInv

LEMMA StepFile ==
  ASSUME TypeOK, FileInv, [Next]_vars
  PROVE  FileInv'
<1> USE DEF End
<1>1. ASSUME NEW i \in Starts, Start(i) PROVE FileInv'
  BY <1>1, FileUntouched DEF Start, HoldsFile, Over
<1>2. ASSUME NEW i \in Starts, init_sockin(i) PROVE FileInv'
  BY <1>2, FileUntouched, FileAfterEnd, StepNames, Order
  DEF init_sockin, HoldsFile, Over, Proceed
<1>3. ASSUME NEW i \in Starts, daemonize_start(i) PROVE FileInv'
  BY <1>3, FileUntouched, Order DEF daemonize_start, HoldsFile, Over, Proceed
<1>4. ASSUME NEW i \in Starts, HandleSignals(i) PROVE FileInv'
  BY <1>4, FileUntouched, Order DEF HandleSignals, HoldsFile, Over, Proceed
<1>5. ASSUME NEW i \in Starts, GiveUp(i) PROVE FileInv'
  <2>1. CASE End(i, "error") /\ UNCHANGED privs
    BY <1>5, <2>1, FileAfterEnd, StepNames, GivenUp DEF GiveUp, HoldsFile
  <2>2. CASE /\ Proceed(i)
             /\ privs' = [privs EXCEPT ![i] = @ \ ({GivesUp[pc[i]]} \cap Dropped)]
             /\ UNCHANGED <<fds, ended>>
    <3> USE <1>5, <2>2, GivenUp, Order DEF GiveUp, Proceed, Goto, HoldsFile, Over
    <3>1. PidfileNamesHolder'
      BY DEF TypeOK, FileInv, PidfileNamesHolder
    <3>2. CreatedAsNow'
      BY DEF TypeOK, FileInv, CreatedAsNow
    <3>3. StrayExplained'
      BY DEF TypeOK, FileInv, StrayExplained, PidFiles
    <3> QED
      BY <3>1, <3>2, <3>3 DEF FileInv
  <2> QED
    BY <1>5, <2>1, <2>2 DEF GiveUp
<1>6. ASSUME NEW i \in Starts, pidfile_create(i) PROVE FileInv'
  <2>1. CASE Goto(i, "refused") /\ UNCHANGED pidfile
    BY <1>6, <2>1, FileUntouched DEF pidfile_create, HoldsFile, Over
  <2>2. CASE /\ Exclusive /\ Proceed(i)
             /\ pidfile' = [by |-> i, text |-> NoStart, as |-> privs[i]]
    <3> USE <1>6, <2>2, Order DEF pidfile_create, Exclusive, Proceed, Goto, HoldsFile, Over
    <3>1. pidfile' # NoFile
      BY StartupAssumption DEF TypeOK
    <3>2. PidfileNamesHolder'
      BY <3>1 DEF TypeOK, FileInv, PidfileNamesHolder
    <3>3. CreatedAsNow'
      BY DEF TypeOK, FileInv, CreatedAsNow, PidfileNamesHolder
    <3>4. StrayExplained'
      BY DEF TypeOK, StrayExplained
    <3> QED
      BY <3>2, <3>3, <3>4 DEF FileInv
  <2> QED
    BY <1>6, <2>1, <2>2 DEF pidfile_create
<1>7. ASSUME NEW i \in Starts, pidfile_write(i) PROVE FileInv'
  <2>1. pidfile # NoFile /\ pidfile \in PidFiles /\ pidfile.by = i
    BY <1>7 DEF pidfile_write, FileInv, PidfileNamesHolder, HoldsFile, TypeOK
  <2>2. CASE RemoveFile(i) /\ End(i, "error")
    <3> USE <1>7, <2>1, <2>2 DEF pidfile_write, RemoveFile, EndAt, Goto, HoldsFile
    <3>1. PidfileNamesHolder'
      BY DEF TypeOK, FileInv, PidfileNamesHolder
    <3>2. CreatedAsNow'
      BY DEF TypeOK, FileInv, CreatedAsNow, PidfileNamesHolder
    <3>3. StrayExplained'
      BY DEF StrayExplained
    <3> QED
      BY <3>1, <3>2, <3>3 DEF FileInv
  <2>3. CASE /\ pidfile' = [pidfile EXCEPT !.text = i]
             /\ Proceed(i) /\ UNCHANGED <<fds, ended>>
    <3> USE <1>7, <2>1, <2>3, Order DEF pidfile_write, Proceed, Goto, HoldsFile, PidFiles
    <3>1. pidfile' \in PidFiles /\ pidfile'.by = i /\ pidfile'.text = i /\ pidfile'.as = pidfile.as
      OBVIOUS
    <3>2. pidfile' # NoFile
      BY <3>1, StartupAssumption
    <3>3. PidfileNamesHolder'
      BY <3>1, <3>2 DEF TypeOK, FileInv, PidfileNamesHolder
    <3>4. CreatedAsNow'
      BY <3>1 DEF TypeOK, FileInv, CreatedAsNow
    <3>5. StrayExplained'
      BY <3>1 DEF TypeOK, StrayExplained
    <3> QED
      BY <3>3, <3>4, <3>5 DEF FileInv
  <2>4. CASE UNCHANGED pidfile /\ EndAt(i, "error", "cleanup")
    BY <1>7, <2>4, FileAfterEnd, StepNames DEF pidfile_write, LeavesFile
  <2> QED
    BY <1>7, <2>2, <2>3, <2>4 DEF pidfile_write
<1>8. ASSUME NEW i \in Starts, pidfile_read(i) PROVE FileInv'
  BY <1>8, FileAfterEnd, StepNames DEF pidfile_read, HoldsFile
<1>9. ASSUME NEW i \in Starts, daemonize_finish(i) PROVE FileInv'
  BY <1>9, FileUntouched, Order DEF daemonize_finish, Over, Proceed
<1>10. ASSUME NEW i \in Starts, SetRunning(i) PROVE FileInv'
  BY <1>10, FileUntouched, Order DEF SetRunning, Over, Proceed
<1>11. ASSUME NEW i \in Starts, LeaveLoop(i) PROVE FileInv'
  BY <1>11, FileUntouched, Order DEF LeaveLoop, Over, Proceed
<1>12. ASSUME NEW i \in Starts, CloseSockin(i) PROVE FileInv'
  BY <1>12, FileUntouched, Order DEF CloseSockin, Over, Proceed
<1>13. ASSUME NEW i \in Starts, pidfile_remove(i) PROVE FileInv'
  <2>1. CASE UNCHANGED pidfile /\ End(i, "error")
    BY <1>13, <2>1, FileAfterEnd, StepNames DEF pidfile_remove, LeavesFile
  <2>2. CASE pidfile' = NoFile /\ \E how \in {"clean", "error"} : End(i, how)
    <3> USE <1>13, <2>2 DEF pidfile_remove, EndAt, Goto, HoldsFile
    <3>1. PidfileNamesHolder'
      BY DEF TypeOK, FileInv, PidfileNamesHolder
    <3>2. CreatedAsNow'
      BY DEF TypeOK, FileInv, CreatedAsNow, PidfileNamesHolder
    <3>3. StrayExplained'
      BY DEF StrayExplained
    <3> QED
      BY <3>1, <3>2, <3>3 DEF FileInv
  <2> QED
    BY <1>13, <2>1, <2>2 DEF pidfile_remove
<1>14. ASSUME NEW i \in Starts, Fail(i) PROVE FileInv'
  <2>1. ~HoldsFile(i) \/ pc[i] \in LeavesFile
    BY <1>14, GivenUp DEF Fail, MayFail, HoldsFile, LeavesFile
  <2>2. pc[i] \in Steps
    BY <1>14, GivenUp, StepNames DEF Fail, MayFail
  <2> QED
    BY <1>14, <2>1, <2>2, FileAfterEnd DEF Fail
<1>15. ASSUME NEW i \in Starts, Terminate(i) PROVE FileInv'
  <2>1. CASE HandlerSet(i)
    BY <1>15, <2>1 DEF Terminate, FileInv, PidfileNamesHolder, CreatedAsNow, StrayExplained, HoldsFile
  <2>2. CASE ~HandlerSet(i)
    BY <1>15, <2>2, FileAfterEnd DEF Terminate, HandlerSet, Alive, HoldsFile
  <2> QED
    BY <2>1, <2>2
<1>16. ASSUME NEW i \in Starts, Kill(i) PROVE FileInv'
  <2>1. PICK how, at : how = "killed" /\ EndAt(i, how, at)
    BY <1>16 DEF Kill
  <2>2. pc[i] \in Steps /\ UNCHANGED <<pidfile, privs>>
    BY <1>16 DEF Kill, Alive
  <2> QED
    BY <2>1, <2>2, FileAfterEnd
<1>17. ASSUME NEW i \in Starts, BecomeZombie(i) PROVE FileInv'
  <2> USE <1>17 DEF BecomeZombie, Goto, HoldsFile, Over
  <2>1. PidfileNamesHolder'
    BY DEF TypeOK, FileInv, PidfileNamesHolder
  <2>2. CreatedAsNow'
    BY DEF TypeOK, FileInv, CreatedAsNow
  <2>3. StrayExplained'
    BY DEF TypeOK, FileInv, StrayExplained, PidFiles
  <2> QED
    BY <2>1, <2>2, <2>3 DEF FileInv
<1>18. ASSUME NEW i \in Starts, Parent(i) PROVE FileInv'
  BY <1>18 DEF Parent, ParentReads, ParentWaits, FileInv, PidfileNamesHolder, CreatedAsNow, StrayExplained, HoldsFile
<1>19. CASE DeleteStale
  <2>1. \A i \in Starts : ~HoldsFile(i)
    BY <1>19 DEF DeleteStale, FileInv, PidfileNamesHolder, HoldsFile, Over
  <2> QED
    BY <1>19, <2>1 DEF DeleteStale, FileInv, PidfileNamesHolder, CreatedAsNow, StrayExplained, HoldsFile
<1>20. CASE UNCHANGED vars
  BY <1>20 DEF vars, FileInv, PidfileNamesHolder, CreatedAsNow, StrayExplained, HoldsFile
<1> QED
  BY <1>1, <1>2, <1>3, <1>4, <1>5, <1>6, <1>7, <1>8, <1>9, <1>10, <1>11, <1>12,
     <1>13, <1>14, <1>15, <1>16, <1>17, <1>18, <1>19, <1>20 DEF Next, Work

-----------------------------------------------------------------------------
\* A process that moves on and keeps its privileges; where it ends does not
\* matter.
LEMMA PrivKept ==
  ASSUME TypeOK, PrivInv, NEW i \in Starts, NEW step, Goto(i, step), UNCHANGED privs,
         \/ step \in Over \cup {"refused", "close", "unlink"}
         \/ pc[i] \in {"off", "bind", "fork", "signals"}
            /\ step \in {"bind", "fork", "signals", "chroot"}
         \/ pc[i] \in {"create", "write", "detach", "arm", "serve"}
            /\ step \in {"write", "detach", "arm", "serve"}
  PROVE  PrivInv'
<1> USE DEF Goto, Over
<1>1. RootUntilLast'
  BY DEF TypeOK, PrivInv, RootUntilLast
<1>2. GoneOneByOne'
  BY DEF TypeOK, PrivInv, GoneOneByOne, Without
<1> QED
  BY <1>1, <1>2 DEF PrivInv

LEMMA StepPriv ==
  ASSUME TypeOK, PrivInv, [Next]_vars
  PROVE  PrivInv'
<1> USE DEF Proceed, End, EndAt, Over
<1>1. ASSUME NEW i \in Starts, Start(i) PROVE PrivInv'
  BY <1>1, PrivKept DEF Start
<1>2. ASSUME NEW i \in Starts, init_sockin(i) PROVE PrivInv'
  BY <1>2, PrivKept, Order DEF init_sockin
<1>3. ASSUME NEW i \in Starts, daemonize_start(i) PROVE PrivInv'
  BY <1>3, PrivKept, Order DEF daemonize_start
<1>4. ASSUME NEW i \in Starts, HandleSignals(i) PROVE PrivInv'
  BY <1>4, PrivKept, Order DEF HandleSignals
<1>5. ASSUME NEW i \in Starts, GiveUp(i) PROVE PrivInv'
  <2>1. CASE End(i, "error") /\ UNCHANGED privs
    BY <2>1, PrivKept
  <2>2. CASE /\ Proceed(i)
             /\ privs' = [privs EXCEPT ![i] = @ \ ({GivesUp[pc[i]]} \cap Dropped)]
    <3> USE <1>5, <2>2, GivenUp, Order DEF GiveUp, Goto
    <3>1. RootUntilLast'
      BY DEF TypeOK, PrivInv, RootUntilLast
    <3>2. GoneOneByOne'
      BY DEF TypeOK, PrivInv, GoneOneByOne, Without
    <3> QED
      BY <3>1, <3>2 DEF PrivInv
  <2> QED
    BY <1>5, <2>1, <2>2 DEF GiveUp
<1>6. ASSUME NEW i \in Starts, pidfile_create(i) PROVE PrivInv'
  BY <1>6, PrivKept, Order DEF pidfile_create
<1>7. ASSUME NEW i \in Starts, pidfile_write(i) PROVE PrivInv'
  BY <1>7, PrivKept, Order DEF pidfile_write
<1>8. ASSUME NEW i \in Starts, pidfile_read(i) PROVE PrivInv'
  BY <1>8, PrivKept DEF pidfile_read
<1>9. ASSUME NEW i \in Starts, daemonize_finish(i) PROVE PrivInv'
  BY <1>9, PrivKept, Order DEF daemonize_finish
<1>10. ASSUME NEW i \in Starts, SetRunning(i) PROVE PrivInv'
  BY <1>10, PrivKept, Order DEF SetRunning
<1>11. ASSUME NEW i \in Starts, LeaveLoop(i) PROVE PrivInv'
  BY <1>11, PrivKept, Order DEF LeaveLoop
<1>12. ASSUME NEW i \in Starts, CloseSockin(i) PROVE PrivInv'
  BY <1>12, PrivKept, Order DEF CloseSockin
<1>13. ASSUME NEW i \in Starts, pidfile_remove(i) PROVE PrivInv'
  BY <1>13, PrivKept DEF pidfile_remove
<1>14. ASSUME NEW i \in Starts, Fail(i) PROVE PrivInv'
  BY <1>14, PrivKept DEF Fail
<1>15. ASSUME NEW i \in Starts, Terminate(i) PROVE PrivInv'
  BY <1>15, PrivKept DEF Terminate, PrivInv, RootUntilLast, GoneOneByOne, Without
<1>16. ASSUME NEW i \in Starts, Kill(i) PROVE PrivInv'
  BY <1>16, PrivKept DEF Kill
<1>17. ASSUME NEW i \in Starts, BecomeZombie(i) PROVE PrivInv'
  BY <1>17, PrivKept DEF BecomeZombie
<1>18. CASE UNCHANGED <<pc, privs>>
  BY <1>18 DEF PrivInv, RootUntilLast, GoneOneByOne, Without
<1> QED
  BY <1>1, <1>2, <1>3, <1>4, <1>5, <1>6, <1>7, <1>8, <1>9, <1>10, <1>11, <1>12,
     <1>13, <1>14, <1>15, <1>16, <1>17, <1>18
  DEF Next, Work, Parent, ParentReads, ParentWaits, DeleteStale, vars

-----------------------------------------------------------------------------
\* What a parent knows.  As long as it reads, a child that is not ready holds
\* the lifeline; afterwards the child is ready or over.
Unready == {"signals", "chroot", "gid", "uid", "create", "write", "detach", "refused"}
Ready   == {"arm", "serve", "close", "unlink"} \cup Over

HoldsLifeline(i) == parent[i] = "reading" /\ pc[i] \in Unready => "lifeline" \in fds[i]
IsChild(i)       == parent[i] # "none" => pc[i] \in Unready \cup Ready
IsReady(i)       == parent[i] \in {"waiting", "exited"} => pc[i] \in Ready
ToldLast(i)      == told[i] # "nothing" => parent[i] = "exited"
ToldWhy(i)       == told[i] = "failure" => pc[i] = "dead" /\ ended[i].how = "error"

ParentKnows(i) == HoldsLifeline(i) /\ IsChild(i) /\ IsReady(i) /\ ToldLast(i) /\ ToldWhy(i)
ParentInv == \A i \in Starts : ParentKnows(i)

\* A child that moves on without its parent.
LEMMA ParentAsBefore ==
  ASSUME TypeOK, ParentInv, NEW i \in Starts, NEW step,
         Goto(i, step), pc[i] # "dead", UNCHANGED <<parent, told>>,
         \A j \in Starts \ {i} : fds'[j] = fds[j] /\ ended'[j] = ended[j],
         \/ step \in Ready
         \/ pc[i] \in {"off", "bind", "fork"}
         \/ pc[i] \in Unready /\ step \in Unready /\ fds'[i] = fds[i]
  PROVE  ParentInv'
<1> SUFFICES ASSUME NEW j \in Starts PROVE ParentKnows(j)'
  BY DEF ParentInv
<1> USE DEF Goto, ParentKnows, HoldsLifeline, IsChild, IsReady, ToldLast, ToldWhy
<1>1. CASE j # i
  BY <1>1 DEF ParentInv, TypeOK
<1>2. CASE j = i
  BY <1>2 DEF ParentInv, TypeOK, Unready, Ready, Over
<1> QED
  BY <1>1, <1>2

LEMMA ParentAfterEnd ==
  ASSUME TypeOK, ParentInv, NEW i \in Starts, NEW how, NEW at, EndAt(i, how, at),
         pc[i] # "dead",
         UNCHANGED <<parent, told>>
  PROVE  ParentInv'
<1>1. \A j \in Starts \ {i} : fds'[j] = fds[j] /\ ended'[j] = ended[j]
  BY DEF EndAt, TypeOK
<1> QED
  BY <1>1, ParentAsBefore DEF EndAt, Ready, Over

LEMMA StepParent ==
  ASSUME TypeOK, ParentInv, [Next]_vars
  PROVE  ParentInv'
<1> USE DEF Proceed, End
<1>1. ASSUME NEW i \in Starts, Start(i) PROVE ParentInv'
  BY <1>1, ParentAsBefore DEF Start
<1>2. ASSUME NEW i \in Starts, init_sockin(i) PROVE ParentInv'
  <2>1. CASE End(i, "error")
    BY <1>2, <2>1, ParentAfterEnd DEF init_sockin
  <2>2. CASE fds' = [fds EXCEPT ![i] = {"sockin"}] /\ Proceed(i) /\ UNCHANGED ended
    BY <1>2, <2>2, ParentAsBefore DEF init_sockin, TypeOK
  <2> QED
    BY <1>2, <2>1, <2>2 DEF init_sockin
<1>3. ASSUME NEW i \in Starts, daemonize_start(i) PROVE ParentInv'
  <2> SUFFICES ASSUME NEW j \in Starts PROVE ParentKnows(j)'
    BY DEF ParentInv
  <2> USE <1>3, Order
      DEF daemonize_start, Goto, ParentKnows, HoldsLifeline, IsChild, IsReady, ToldLast, ToldWhy
  <2>1. CASE j # i
    BY <2>1 DEF ParentInv, TypeOK
  <2>2. CASE j = i
    BY <2>2 DEF ParentInv, TypeOK, Unready, Ready, Over
  <2> QED
    BY <2>1, <2>2
<1>4. ASSUME NEW i \in Starts, HandleSignals(i) PROVE ParentInv'
  BY <1>4, ParentAsBefore, Order DEF HandleSignals, Unready
<1>5. ASSUME NEW i \in Starts, GiveUp(i) PROVE ParentInv'
  <2>1. CASE End(i, "error")
    BY <1>5, <2>1, ParentAfterEnd, GivenUp DEF GiveUp
  <2>2. CASE Proceed(i) /\ UNCHANGED <<fds, ended>>
    BY <1>5, <2>2, ParentAsBefore, GivenUp, Order DEF GiveUp, Unready
  <2> QED
    BY <1>5, <2>1, <2>2 DEF GiveUp
<1>6. ASSUME NEW i \in Starts, pidfile_create(i) PROVE ParentInv'
  BY <1>6, ParentAsBefore, Order DEF pidfile_create, Unready
<1>7. ASSUME NEW i \in Starts, pidfile_write(i) PROVE ParentInv'
  <2>1. CASE End(i, "error")
    BY <1>7, <2>1, ParentAfterEnd DEF pidfile_write
  <2>2. CASE Proceed(i) /\ UNCHANGED <<fds, ended>>
    BY <1>7, <2>2, ParentAsBefore, Order DEF pidfile_write, Unready
  <2>3. CASE EndAt(i, "error", "cleanup")
    BY <1>7, <2>3, ParentAfterEnd DEF pidfile_write
  <2> QED
    BY <1>7, <2>1, <2>2, <2>3 DEF pidfile_write
<1>8. ASSUME NEW i \in Starts, pidfile_read(i) PROVE ParentInv'
  BY <1>8, ParentAfterEnd DEF pidfile_read
<1>9. ASSUME NEW i \in Starts, daemonize_finish(i) PROVE ParentInv'
  BY <1>9, ParentAsBefore, Order DEF daemonize_finish, CutLifeline, TypeOK, Ready
<1>10. ASSUME NEW i \in Starts, SetRunning(i) PROVE ParentInv'
  BY <1>10, ParentAsBefore, Order DEF SetRunning, Ready
<1>11. ASSUME NEW i \in Starts, LeaveLoop(i) PROVE ParentInv'
  BY <1>11, ParentAsBefore, Order DEF LeaveLoop, Ready
<1>12. ASSUME NEW i \in Starts, CloseSockin(i) PROVE ParentInv'
  BY <1>12, ParentAsBefore, Order DEF CloseSockin, TypeOK, Ready
<1>13. ASSUME NEW i \in Starts, pidfile_remove(i) PROVE ParentInv'
  BY <1>13, ParentAfterEnd DEF pidfile_remove
<1>14. ASSUME NEW i \in Starts, Fail(i) PROVE ParentInv'
  <2>1. pc[i] # "dead"
    BY <1>14, GivenUp DEF Fail, MayFail
  <2> QED
    BY <1>14, <2>1, ParentAfterEnd DEF Fail
<1>15. ASSUME NEW i \in Starts, Terminate(i) PROVE ParentInv'
  <2>1. CASE HandlerSet(i)
    BY <1>15, <2>1
    DEF Terminate, ParentInv, ParentKnows, HoldsLifeline, IsChild, IsReady, ToldLast, ToldWhy
  <2>2. CASE ~HandlerSet(i)
    BY <1>15, <2>2, ParentAfterEnd DEF Terminate, HandlerSet
  <2> QED
    BY <2>1, <2>2
<1>16. ASSUME NEW i \in Starts, Kill(i) PROVE ParentInv'
  <2>1. pc[i] # "dead"
    BY <1>16, StepNames DEF Kill, Alive
  <2> QED
    BY <1>16, <2>1, ParentAfterEnd DEF Kill
<1>17. ASSUME NEW i \in Starts, BecomeZombie(i) PROVE ParentInv'
  BY <1>17, ParentAsBefore DEF BecomeZombie, Ready, Over
<1>18. ASSUME NEW i \in Starts, Parent(i) PROVE ParentInv'
  <2> SUFFICES ASSUME NEW j \in Starts PROVE ParentKnows(j)'
    BY DEF ParentInv
  <2> USE DEF ParentKnows, HoldsLifeline, IsChild, IsReady, ToldLast, ToldWhy
  <2>1. CASE j # i
    BY <1>18, <2>1 DEF Parent, ParentReads, ParentWaits, ParentInv, TypeOK
  <2>2. CASE j = i /\ ParentReads(i)
    BY <2>2 DEF ParentReads, EndOfLifeline, ParentInv, TypeOK
  <2>3. CASE j = i /\ ParentWaits(i)
    BY <2>3 DEF ParentWaits, WEXITSTATUS, ParentInv, TypeOK
  <2> QED
    BY <1>18, <2>1, <2>2, <2>3 DEF Parent
<1>19. CASE UNCHANGED <<pc, fds, ended, parent, told>>
  BY <1>19
  DEF ParentInv, ParentKnows, HoldsLifeline, IsChild, IsReady, ToldLast, ToldWhy
<1> QED
  BY <1>1, <1>2, <1>3, <1>4, <1>5, <1>6, <1>7, <1>8, <1>9, <1>10, <1>11, <1>12,
     <1>13, <1>14, <1>15, <1>16, <1>17, <1>18, <1>19
  DEF Next, Work, DeleteStale, vars

-----------------------------------------------------------------------------
IInv == TypeOK /\ FileInv /\ PrivInv /\ ParentInv

LEMMA InitInv == Init => IInv
  BY InitType
  DEF Init, IInv, FileInv, PidfileNamesHolder, CreatedAsNow, StrayExplained, HoldsFile,
      PrivInv, RootUntilLast, GoneOneByOne, Without, Privileges,
      ParentInv, ParentKnows, HoldsLifeline, IsChild, IsReady, ToldLast, ToldWhy, Unready

LEMMA Invariance == Spec => []IInv
<1>1. IInv /\ [Next]_vars => IInv'
  BY StepType, StepFile, StepPriv, StepParent DEF IInv, FileInv
<1> QED
  BY InitInv, <1>1, PTL DEF Spec

\* Every variable keeps its type: a parent exits with one of two statuses.
THEOREM StartupTypeCorrect == Spec => []TypeOK
  BY Invariance, PTL DEF IInv

\* From pidfile_create to pidfile_remove the pid file is the one this process
\* created, with its number in it: of any number of starts, one holds it.
THEOREM OneHolder == Spec => []PidfileNamesHolder
  BY Invariance, PTL DEF IInv, FileInv

\* The clean exit removes the pid file with the privileges, and in the root
\* directory, it was created with.
THEOREM HolderCanRemove == Spec => []PidfileRemovable
<1>1. IInv => PidfileRemovable
  BY DEF IInv, FileInv, PidfileNamesHolder, CreatedAsNow, HoldsFile, PidfileRemovable
<1> QED
  BY Invariance, <1>1, PTL

\* A pid file without its process was left by a kill, or by one of the calls
\* that die while the file is there: setsid(), those of the loop,
\* xclose(sockin), unlink().
THEOREM StaleFilesExplained == Spec => []StaleFileExplained
<1>1. IInv => StaleFileExplained
  BY DEF IInv, FileInv, StrayExplained, HoldsFile, StaleFileExplained, Over
<1> QED
  BY Invariance, <1>1, PTL

\* chroot() and setgid() come before root is given up, and nobody is served
\* with a privilege that was to be given up.
THEOREM PrivilegesGivenUp == Spec => []PrivilegesInOrder
<1>1. IInv => PrivilegesInOrder
  BY GivenUp
  DEF IInv, TypeOK, Privileges, PrivInv, RootUntilLast, GoneOneByOne, Without, PrivilegesInOrder
<1> QED
  BY Invariance, <1>1, PTL

\* A parent reports failure only of a child that failed, and success only of
\* one that is ready to serve, or has ended.
THEOREM ParentsAreInformed == Spec => []ParentIsInformed
<1>1. IInv => ParentIsInformed
  BY DEF IInv, ParentInv, ParentKnows, IsReady, ToldLast, ToldWhy, Ready, ParentIsInformed
<1> QED
  BY Invariance, <1>1, PTL

=============================================================================
