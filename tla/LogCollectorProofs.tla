------------------------- MODULE LogCollectorProofs -------------------------
(***************************************************************************)
(* Proofs about LogCollector, for any servers, jobs, runs and passes.      *)
(***************************************************************************)
EXTENDS LogCollector, TLAPS

\* What a step makes of a pass: a pass that names its server, and a run if it is on one.
GoodPass(q) == /\ q \in PassState
               /\ q.run # None <=> OnRun(q.pc)
               /\ q.server # None <=> q.pc # "idle"

LEMMA PassTypes == TypeOK => \A p \in Passes : GoodPass(pass[p])
BY DEF TypeOK, GoodPass

LEMMA UpdatedPasses ==
  ASSUME TypeOK, NEW p \in Passes, NEW q, GoodPass(q), pass' = [pass EXCEPT ![p] = q]
  PROVE  /\ pass' \in [Passes -> PassState]
         /\ \A x \in Passes : /\ pass'[x].run # None <=> OnRun(pass'[x].pc)
                              /\ pass'[x].server # None <=> pass'[x].pc # "idle"
BY DEF TypeOK, GoodPass

LEMMA IdlePassType == GoodPass(IdlePass)
BY CollectorAssumption DEF GoodPass, IdlePass, NewPass, PassState, OnRun

\* The fields of the new value of a pass, for each way a step changes it.
LEMMA OnJobFields ==
  ASSUME NEW q \in PassState, NEW j
  PROVE  LET n == OnJob(q, j) IN
         /\ n.pc = q.pc /\ n.server = q.server /\ n.jobs = q.jobs \ {j}
         /\ n.logs = InboxOf(j, logFile) /\ n.errors = InboxOf(j, errFile)
         /\ n.run = q.run /\ n.end = q.end /\ n.error = q.error /\ n.success = q.success
BY DEF OnJob, PassState

LEMMA OnLogFields ==
  ASSUME NEW q \in PassState, NEW r \in Runs
  PROVE  LET n == OnLog(q, r) IN
         /\ n.pc = IF r \in q.errors THEN "cat_error" ELSE "save"
         /\ n.server = q.server /\ n.jobs = q.jobs /\ n.logs = q.logs \ {r}
         /\ n.errors = q.errors /\ n.run = r /\ n.end = EndMark(r) /\ n.error = 0
         /\ n.success = q.success
BY DEF OnLog, PassState

LEMMA LogDoneFields ==
  ASSUME NEW q \in PassState
  PROVE  LET n == LogDone(q) IN
         /\ n.pc = "logs" /\ n.server = q.server /\ n.jobs = q.jobs /\ n.logs = q.logs
         /\ n.errors = q.errors /\ n.run = None /\ n.end = FALSE /\ n.error = 0
         /\ n.success = FALSE
BY DEF LogDone, PassState

LEMMA ListedFields ==
  ASSUME NEW q \in PassState, NEW js
  PROVE  LET n == [q EXCEPT !.pc = "logs", !.jobs = js] IN
         /\ n.pc = "logs" /\ n.server = q.server /\ n.jobs = js /\ n.logs = q.logs
         /\ n.errors = q.errors /\ n.run = q.run /\ n.end = q.end /\ n.error = q.error
         /\ n.success = q.success
BY DEF PassState

LEMMA ErrorReadFields ==
  ASSUME NEW q \in PassState, NEW e
  PROVE  LET n == [q EXCEPT !.pc = "save", !.error = e] IN
         /\ n.pc = "save" /\ n.server = q.server /\ n.jobs = q.jobs /\ n.logs = q.logs
         /\ n.errors = q.errors /\ n.run = q.run /\ n.end = q.end /\ n.error = e
         /\ n.success = q.success
BY DEF PassState

LEMMA SavedFields ==
  ASSUME NEW q \in PassState, NEW ok
  PROVE  LET n == [q EXCEPT !.pc = "clear", !.success = ok] IN
         /\ n.pc = "clear" /\ n.server = q.server /\ n.jobs = q.jobs /\ n.logs = q.logs
         /\ n.errors = q.errors /\ n.run = q.run /\ n.end = q.end /\ n.error = q.error
         /\ n.success = ok
BY DEF PassState

LEMMA SteppedFields ==
  ASSUME NEW q \in PassState, NEW pc
  PROVE  LET n == [q EXCEPT !.pc = pc] IN
         /\ n.pc = pc /\ n.server = q.server /\ n.jobs = q.jobs /\ n.logs = q.logs
         /\ n.errors = q.errors /\ n.run = q.run /\ n.end = q.end /\ n.error = q.error
         /\ n.success = q.success
BY DEF PassState

\* What a listing leaves.
LEMMA Lists ==
  ASSUME TypeOK, NEW p \in Passes, ListJobs(p)
  PROVE  /\ pass[p].pc = "list"
         /\ \E js \in SUBSET JobsOn(pass[p].server) :
              pass' = [pass EXCEPT ![p] = [pass[p] EXCEPT !.pc = "logs", !.jobs = js]]
         /\ UNCHANGED <<remoteVars, logFile, errFile, log, scheduled, serversInProgress, faults>>
BY DEF ListJobs, ListDirs

LEMMA LogDoneType ==
  ASSUME NEW q, GoodPass(q), q.pc # "idle"
  PROVE  GoodPass(LogDone(q))
<1>1. q \in PassState /\ 0 \in 0..MaxStderr
  BY CollectorAssumption DEF GoodPass
<1>2. LogDone(q) \in PassState
  BY <1>1 DEF LogDone, PassState
<1> QED
  BY <1>1, <1>2, LogDoneFields DEF GoodPass, OnRun

LEMMA OnLogType ==
  ASSUME NEW q, GoodPass(q), q.pc = "logs", NEW r \in q.logs
  PROVE  GoodPass(OnLog(q, r))
<1> DEFINE pc == IF r \in q.errors THEN "cat_error" ELSE "save"
           rest == q.logs \ {r}
<1>1. q \in PassState /\ r \in Runs /\ EndMark(r) \in BOOLEAN
  BY DEF GoodPass, PassState, EndMark
<1>2. pc \in {"cat_error", "save"} /\ rest \in SUBSET Runs
  BY <1>1 DEF PassState
<1>3. 0 \in 0..MaxStderr
  BY CollectorAssumption
<1>4. OnLog(q, r) = [q EXCEPT !.pc = pc, !.run = r, !.logs = rest, !.end = EndMark(r),
                              !.error = 0]
  BY <1>1 DEF OnLog, PassState
<1> HIDE DEF pc, rest
<1>5. OnLog(q, r) \in PassState
  BY <1>1, <1>2, <1>3, <1>4 DEF PassState
<1> QED
  BY <1>1, <1>5, OnLogFields, CollectorAssumption DEF GoodPass, OnRun

LEMMA TypeStep == TypeOK /\ [Next]_vars => TypeOK'
<1> USE CollectorAssumption
<1> SUFFICES ASSUME TypeOK, [Next]_vars PROVE TypeOK'
  OBVIOUS
<1> USE DEF TypeOK
<1>1. ASSUME NEW r \in Runs, RunStarts(r) PROVE TypeOK'
  BY <1>1 DEF RunStarts, Places
<1>2. ASSUME NEW r \in Runs, RunOpensErrorFile(r) PROVE TypeOK'
  BY <1>2 DEF RunOpensErrorFile, Places
<1>3. ASSUME NEW r \in Runs, RunWritesOutput(r) PROVE TypeOK'
  BY <1>3 DEF RunWritesOutput
<1>4. ASSUME NEW r \in Runs, RunWritesError(r) PROVE TypeOK'
  BY <1>4 DEF RunWritesError
<1>5. ASSUME NEW r \in Runs, RunEnds(r) PROVE TypeOK'
  BY <1>5 DEF RunEnds
<1>6. ASSUME NEW r \in Runs, DeleteLog(r) PROVE TypeOK'
  BY <1>6 DEF DeleteLog, remoteVars, LogRow
<1>7. ASSUME NEW s \in Servers, Unschedule(s) PROVE TypeOK'
  BY <1>7 DEF Unschedule, remoteVars
<1>22. ASSUME NEW t \in SUBSET Servers, Schedule(t) PROVE TypeOK'
  BY <1>22 DEF Schedule, remoteVars
<1>8. ASSUME NEW s \in Servers, CronTick(s) PROVE TypeOK'
  BY <1>8 DEF CronTick, OnRun, remoteVars, PassState, IdlePass, NewPass
<1> USE DEF OnRun
<1>9. ASSUME NEW p \in Passes, Connect(p) PROVE TypeOK'
  <2>1. pass[p] \in PassState
    BY DEF TypeOK
  <2> QED
    BY <1>9, <2>1 DEF Connect, remoteVars, PassState
<1>10. ASSUME NEW p \in Passes, ListJobs(p) PROVE TypeOK'
  <2>1. pass[p] \in PassState
    BY DEF TypeOK
  <2>2. PICK js \in SUBSET JobsOn(pass[p].server) :
          pass' = [pass EXCEPT ![p] = [pass[p] EXCEPT !.pc = "logs", !.jobs = js]]
    BY <1>10, Lists
  <2>3. js \in SUBSET Jobs
    BY DEF JobsOn
  <2> QED
    BY <1>10, <2>1, <2>2, <2>3, Lists DEF remoteVars, PassState
<1>11. ASSUME NEW p \in Passes, ListLogs(p) PROVE TypeOK'
  <2>1. GoodPass(pass[p]) /\ pass[p].pc = "logs"
    BY <1>11, PassTypes DEF ListLogs
  <2>2. PICK j \in pass[p].jobs : pass' = [pass EXCEPT ![p] = OnJob(pass[p], j)]
    BY <1>11 DEF ListLogs
  <2>3. InboxOf(j, logFile) \in SUBSET Runs /\ InboxOf(j, errFile) \in SUBSET Runs
    BY DEF InboxOf
  <2>4. GoodPass(OnJob(pass[p], j))
    BY <2>1, <2>3 DEF OnJob, GoodPass, PassState, OnRun
  <2> QED
    BY <1>11, <2>2, <2>4, UpdatedPasses DEF ListLogs, remoteVars
<1>12. ASSUME NEW p \in Passes, CatLog(p) PROVE TypeOK'
  <2>1. GoodPass(pass[p]) /\ pass[p].pc = "logs"
    BY <1>12, PassTypes DEF CatLog
  <2>2. PICK r \in pass[p].logs : pass' = [pass EXCEPT ![p] = OnLog(pass[p], r)]
    BY <1>12 DEF CatLog
  <2>3. GoodPass(OnLog(pass[p], r))
    BY <2>1, OnLogType
  <2> QED
    BY <1>12, <2>2, <2>3, UpdatedPasses DEF CatLog, remoteVars
<1>13. ASSUME NEW p \in Passes, CatError(p) PROVE TypeOK'
  <2>1. pass[p] \in PassState
    BY DEF TypeOK
  <2> QED
    BY <1>13, <2>1 DEF CatError, remoteVars, PassState
<1>14. ASSUME NEW p \in Passes, Save(p) PROVE TypeOK'
  <2>1. GoodPass(pass[p]) /\ pass[p].pc = "save" /\ pass[p].run \in Runs
    BY <1>14, PassTypes DEF Save, GoodPass, PassState, OnRun
  <2>2. GoodPass([pass[p] EXCEPT !.pc = "clear", !.success = FALSE])
    BY <2>1 DEF GoodPass, PassState, OnRun
  <2>3. PICK q : GoodPass(q) /\ pass' = [pass EXCEPT ![p] = q]
    <3>1. CASE pass[p].end
      BY <1>14, <2>2, <3>1 DEF Save, AfterSave, UpsertResult
    <3>2. CASE ~pass[p].end
      BY <1>14, <2>1, <3>2, LogDoneType DEF Save, AfterSave
    <3> QED
      BY <3>1, <3>2
  <2>4. log' \in [Runs -> LogRow]
    <3>1. log[pass[p].run] \in LogRow /\ pass[p].error \in 0..MaxStderr
      BY <2>1 DEF GoodPass, PassState
    <3>2. Status(pass[p].end, pass[p].error) \in 0..3
      BY DEF Status
    <3>3. [log[pass[p].run] EXCEPT !.status = Status(pass[p].end, pass[p].error),
                                   !.error = pass[p].error] \in LogRow
      BY <3>1, <3>2 DEF LogRow
    <3> QED
      BY <1>14, <2>1, <3>3 DEF Save
  <2> QED
    BY <1>14, <2>3, <2>4, UpdatedPasses DEF Save, remoteVars
<1>15. ASSUME NEW p \in Passes, SaveFails(p) PROVE TypeOK'
  <2>1. GoodPass(pass[p]) /\ pass[p].pc = "save" /\ pass[p].run \in Runs
    BY <1>15, PassTypes DEF SaveFails, GoodPass, PassState, OnRun
  <2>2. GoodPass([pass[p] EXCEPT !.pc = "clear", !.success = FALSE])
    BY <2>1 DEF GoodPass, PassState, OnRun
  <2>3. PICK q : GoodPass(q) /\ pass' = [pass EXCEPT ![p] = q]
    <3>1. CASE pass[p].end
      BY <1>15, <2>2, <3>1 DEF SaveFails, AfterSave, UpsertResult
    <3>2. CASE ~pass[p].end
      BY <1>15, <2>1, <3>2, LogDoneType DEF SaveFails, AfterSave
    <3> QED
      BY <3>1, <3>2
  <2>4. faults' \in 0..MaxFaults
    BY <1>15 DEF SaveFails
  <2>5. UNCHANGED <<phase, lastOut, stderr, logFile, errFile, log, scheduled,
                    serversInProgress>>
    BY <1>15 DEF SaveFails, remoteVars
  <2> QED
    BY <2>3, <2>4, <2>5, UpdatedPasses
<1>16. ASSUME NEW p \in Passes, ClearLog(p) PROVE TypeOK'
  <2>1. GoodPass(pass[p]) /\ pass[p].pc = "clear"
    BY <1>16, PassTypes DEF ClearLog
  <2>2. GoodPass([pass[p] EXCEPT !.pc = "clear_error"])
    BY <2>1 DEF GoodPass, PassState, OnRun
  <2>3. PICK q : GoodPass(q) /\ pass' = [pass EXCEPT ![p] = q]
    BY <1>16, <2>1, <2>2, LogDoneType DEF ClearLog
  <2> QED
    BY <1>16, <2>3, UpdatedPasses DEF ClearLog, ClearedTo, Places, remoteVars
<1>17. ASSUME NEW p \in Passes, ClearError(p) PROVE TypeOK'
  <2>1. GoodPass(LogDone(pass[p]))
    BY <1>17, PassTypes, LogDoneType DEF ClearError
  <2> QED
    BY <1>17, <2>1, UpdatedPasses DEF ClearError, ClearedTo, Places, remoteVars
<1>18. ASSUME NEW p \in Passes, Finish(p) \/ CommandFails(p) PROVE TypeOK'
  BY <1>18, IdlePassType, UpdatedPasses DEF Finish, CommandFails, EndPass, remoteVars
<1>19. CASE Crash
  BY <1>19 DEF Crash, IdlePass, NewPass, remoteVars, PassState
<1>20. CASE UNCHANGED vars
  BY <1>20 DEF vars
<1>21. QED
  BY <1>1, <1>2, <1>3, <1>4, <1>5, <1>6, <1>7, <1>8, <1>9, <1>10, <1>11, <1>12, <1>13,
     <1>14, <1>15, <1>16, <1>17, <1>18, <1>19, <1>20, <1>22 DEF Next, PassStep

\* Every variable keeps its type.
THEOREM TypeCorrect == Spec => []TypeOK
<1>1. Init => TypeOK
  BY CollectorAssumption DEF Init, TypeOK, OnRun, Places, LogRow, NoLogRow, PassState, IdlePass, NewPass
<1> QED
  BY <1>1, TypeStep, PTL DEF Spec
-----------------------------------------------------------------------------
(* Passes are apart. *)

\* A step inside a pass leaves its server, and the other passes, alone.
LEMMA InnerStep ==
  ASSUME TypeOK, NEW p \in Passes,
         \/ Connect(p) \/ ListJobs(p) \/ ListLogs(p) \/ CatLog(p) \/ CatError(p)
         \/ Save(p) \/ SaveFails(p) \/ ClearLog(p) \/ ClearError(p)
  PROVE  /\ pass[p].pc # "idle" /\ pass'[p].pc # "idle"
         /\ pass'[p].server = pass[p].server
         /\ \A x \in Passes \ {p} : pass'[x] = pass[x]
         /\ UNCHANGED serversInProgress
<1>0. pass[p] \in PassState
  BY DEF TypeOK
<1>1. CASE Connect(p) \/ ListJobs(p)
  <2>1. CASE Connect(p)
    BY <1>0, <2>1, SteppedFields DEF Connect, TypeOK
  <2>2. CASE ListJobs(p)
    <3>1. PICK js : pass' = [pass EXCEPT ![p] = [pass[p] EXCEPT !.pc = "logs", !.jobs = js]]
      BY <2>2, Lists
    <3>2. pass[p].pc = "list" /\ UNCHANGED serversInProgress
      BY <2>2, Lists
    <3> QED
      BY <1>0, <3>1, <3>2, ListedFields DEF TypeOK
  <2> QED
    BY <1>1, <2>1, <2>2
<1>2. CASE ListLogs(p)
  <2>1. PICK j \in pass[p].jobs : pass' = [pass EXCEPT ![p] = OnJob(@, j)]
    BY <1>2 DEF ListLogs
  <2>2. OnJob(pass[p], j).pc = pass[p].pc /\ OnJob(pass[p], j).server = pass[p].server
    BY <1>0, OnJobFields
  <2> QED
    BY <1>2, <2>1, <2>2 DEF ListLogs, TypeOK
<1>3. CASE CatLog(p)
  <2>1. PICK r \in pass[p].logs : pass' = [pass EXCEPT ![p] = OnLog(@, r)]
    BY <1>3 DEF CatLog
  <2>2. r \in Runs
    BY <1>0 DEF PassState
  <2>3. OnLog(pass[p], r).pc # "idle" /\ OnLog(pass[p], r).server = pass[p].server
    BY <1>0, <2>2, OnLogFields
  <2> QED
    BY <1>3, <2>1, <2>3 DEF CatLog, TypeOK
<1>4. CASE CatError(p)
  BY <1>0, <1>4 DEF CatError, TypeOK, PassState
<1>5. CASE Save(p) \/ SaveFails(p)
  <2>1. AfterSave(p, TRUE) \/ AfterSave(p, FALSE)
    BY <1>5 DEF Save, SaveFails
  <2>2. pass[p].pc = "save" /\ UNCHANGED serversInProgress
    BY <1>5 DEF Save, SaveFails
  <2>3. CASE pass[p].end
    <3>1. PICK ok : pass' = [pass EXCEPT ![p] = [pass[p] EXCEPT !.pc = "clear", !.success = ok]]
      BY <2>1, <2>3 DEF AfterSave
    <3> QED
      BY <1>0, <2>2, <3>1, SavedFields DEF TypeOK
  <2>4. CASE ~pass[p].end
    BY <1>0, <2>1, <2>2, <2>4, LogDoneFields DEF AfterSave, TypeOK
  <2> QED
    BY <2>3, <2>4
<1>6. CASE ClearLog(p)
  <2>1. CASE pass[p].run \in pass[p].errors
    <3>1. pass' = [pass EXCEPT ![p] = [pass[p] EXCEPT !.pc = "clear_error"]]
      BY <1>6, <2>1 DEF ClearLog
    <3> QED
      BY <1>0, <1>6, <3>1 DEF ClearLog, TypeOK, PassState
  <2>2. CASE pass[p].run \notin pass[p].errors
    BY <1>0, <1>6, <2>2, LogDoneFields DEF ClearLog, TypeOK
  <2> QED
    BY <2>1, <2>2
<1>7. CASE ClearError(p)
  BY <1>0, <1>7, LogDoneFields DEF ClearError, TypeOK
<1> QED
  BY <1>1, <1>2, <1>3, <1>4, <1>5, <1>6, <1>7

\* serversInProgress stays the set of the servers of the live passes, one pass each.
LEMMA InProgressStep == TypeOK /\ InProgressExact /\ [Next]_vars => InProgressExact'
<1> SUFFICES ASSUME TypeOK, InProgressExact, [Next]_vars PROVE InProgressExact'
  OBVIOUS
<1>1. CASE UNCHANGED <<pass, serversInProgress>>
  BY <1>1 DEF InProgressExact, Active
<1>2. ASSUME NEW s \in Servers, CronTick(s) PROVE InProgressExact'
  <2>1. PICK p \in Passes : /\ pass[p].pc = "idle"
                            /\ pass' = [pass EXCEPT ![p] = NewPass("connect", s)]
    BY <1>2 DEF CronTick
  <2>2. pass'[p].pc = "connect" /\ pass'[p].server = s
    BY <2>1 DEF NewPass, TypeOK
  <2>3. \A x \in Passes \ {p} : pass'[x] = pass[x]
    BY <2>1 DEF TypeOK
  <2>4. s \notin serversInProgress /\ serversInProgress' = serversInProgress \union {s}
    BY <1>2 DEF CronTick
  <2> QED
    BY <2>1, <2>2, <2>3, <2>4 DEF InProgressExact, Active
<1>3. ASSUME NEW p \in Passes,
             \/ Connect(p) \/ ListJobs(p) \/ ListLogs(p) \/ CatLog(p) \/ CatError(p)
             \/ Save(p) \/ SaveFails(p) \/ ClearLog(p) \/ ClearError(p)
      PROVE  InProgressExact'
  BY <1>3, InnerStep DEF InProgressExact, Active
<1>4. ASSUME NEW p \in Passes, Finish(p) \/ CommandFails(p) PROVE InProgressExact'
  <2>1. /\ pass[p].pc # "idle"
        /\ serversInProgress' = serversInProgress \ {pass[p].server}
        /\ pass' = [pass EXCEPT ![p] = IdlePass]
    BY <1>4 DEF Finish, CommandFails, EndPass, Awaiting
  <2>2. pass'[p].pc = "idle" /\ \A x \in Passes \ {p} : pass'[x] = pass[x]
    BY <2>1 DEF TypeOK, IdlePass, NewPass
  <2> QED
    BY <2>1, <2>2 DEF InProgressExact, Active
<1>5. CASE Crash
  BY <1>5 DEF Crash, IdlePass, NewPass, InProgressExact, Active
<1>6. ASSUME NEW r \in Runs, \/ RunStarts(r) \/ RunOpensErrorFile(r) \/ RunWritesOutput(r)
                             \/ RunWritesError(r) \/ RunEnds(r) \/ DeleteLog(r)
      PROVE  UNCHANGED <<pass, serversInProgress>>
  BY <1>6 DEF RunStarts, RunOpensErrorFile, RunWritesOutput, RunWritesError, RunEnds, DeleteLog
<1>7. ASSUME NEW s \in Servers, Unschedule(s) PROVE UNCHANGED <<pass, serversInProgress>>
  BY <1>7 DEF Unschedule
<1>8. ASSUME NEW t \in SUBSET Servers, Schedule(t) PROVE UNCHANGED <<pass, serversInProgress>>
  BY <1>8 DEF Schedule
<1> QED
  BY <1>1, <1>2, <1>3, <1>4, <1>5, <1>6, <1>7, <1>8 DEF Next, PassStep, vars

\* No failure and no restart leaks an entry of serversInProgress or doubles a pass.
THEOREM PassesApart == Spec => []InProgressExact
<1>1. Init => InProgressExact
  BY DEF Init, InProgressExact, Active, IdlePass, NewPass
<1> QED
  BY <1>1, InProgressStep, TypeCorrect, PTL DEF Spec

-----------------------------------------------------------------------------
(* What the passes hold is true. *)

\* A step of pass p that touches only the row and the files of its run keeps the invariant
\* when that row stays sound and p itself holds the truth: the other passes are apart.
LEMMA PassKeepsInv ==
  ASSUME TypeOK, CollectorInv, TypeOK', InProgressExact',
         NEW p \in Active,
         \A x \in Passes \ {p} : pass'[x] = pass[x],
         UNCHANGED remoteVars,
         faults' = 0 => faults = 0,
         \A r \in Runs \ {pass[p].run} :
            logFile'[r] = logFile[r] /\ errFile'[r] = errFile[r] /\ log'[r] = log[r],
         \A r \in Runs : r = pass[p].run => RowSound(r)',
         pass'[p].pc # "idle" => Held(p)',
         \A r \in Runs : r = pass'[p].run => Read(p, r)'
  PROVE  CollectorInv'
<1>1. ASSUME NEW r \in Runs PROVE RowSound(r)'
  <2>1. CASE r = pass[p].run
    BY <2>1
  <2>2. CASE r # pass[p].run
    BY <2>2 DEF CollectorInv, RowSound, remoteVars, EndMark, Closed, Moved
  <2> QED
    BY <2>1, <2>2
<1>2. ASSUME NEW x \in Active', x # p
      PROVE  /\ x \in Active /\ pass'[x] = pass[x]
             /\ \A r \in Reading(x) : r # pass[p].run
             /\ Reading(x) \subseteq Runs
  <2>1. x \in Passes /\ x \in Active /\ pass'[x] = pass[x]
    BY <1>2 DEF Active
  <2>2. pass[x].server # pass[p].server
    BY <1>2, <2>1 DEF CollectorInv, InProgressExact
  <2>3. Held(x) /\ Held(p)
    BY <2>1 DEF CollectorInv
  <2>4. Reading(x) \subseteq Runs
    BY <2>1 DEF TypeOK, PassState, Reading
  <2>5. pass[p].run # None => pass[p].run \in Reading(p)
    BY DEF Reading
  <2> QED
    BY <2>1, <2>2, <2>3, <2>4, <2>5, CollectorAssumption DEF Held
<1>3. ASSUME NEW x \in Active', x # p
      PROVE  Held(x)' /\ (pass[x].run # None => Read(x, pass[x].run))'
  <2>1. Held(x) /\ (pass[x].run # None => Read(x, pass[x].run))
    BY <1>2, <1>3 DEF CollectorInv
  <2>2. Reading(x)' = Reading(x)
    BY <1>2, <1>3 DEF Reading
  <2>3. \A r \in Reading(x) : /\ r \in Runs /\ logFile'[r] = logFile[r]
                              /\ errFile'[r] = errFile[r] /\ log'[r] = log[r]
    BY <1>2, <1>3
  <2>4. Held(x)'
    BY <1>2, <1>3, <2>1, <2>2, <2>3 DEF Held, HostOf, Reading
  <2>5. ASSUME NEW r \in Reading(x), r = pass[x].run, Read(x, r) PROVE Read(x, r)'
    BY <1>2, <1>3, <2>3, <2>5 DEF Read, EndMark, remoteVars, Closed, Moved
  <2> QED
    BY <1>2, <1>3, <2>1, <2>4, <2>5 DEF Reading
<1>4. \A x \in Active' : Held(x)'
  BY <1>3 DEF Active
<1>5. (\A x \in Active : pass[x].run # None => Read(x, pass[x].run))'
  <2>1. pass'[p].run # None => pass'[p].run \in Runs
    BY DEF TypeOK, PassState, Active
  <2> QED
    BY <1>3, <2>1 DEF Active
<1> QED
  BY <1>1, <1>4, <1>5 DEF CollectorInv


\* The scripts and the users: a step that leaves the passes alone.
LEMMA OutsideStep ==
  ASSUME TypeOK, CollectorInv, NEW r \in Runs,
         \/ RunStarts(r) \/ RunOpensErrorFile(r) \/ RunWritesOutput(r)
         \/ RunWritesError(r) \/ RunEnds(r) \/ DeleteLog(r)
  PROVE  /\ \A x \in Runs : RowSound(x)'
         /\ \A p \in Active : Held(p)' /\ \A x \in Runs : x = pass[p].run => Read(p, x)'
<1> USE DEF TypeOK, RowSound, EndMark, Closed, Moved, Held, Read, Reading, HostOf
<1>0. /\ \A x \in Runs : RowSound(x)
      /\ \A p \in Active : p \in Passes /\ Held(p) /\ pass[p] \in PassState
      /\ \A p \in Active : \A x \in Runs : x = pass[p].run => Read(p, x)
  BY CollectorAssumption DEF CollectorInv, Active
<1>1. CASE RunStarts(r)
  BY <1>0, <1>1 DEF RunStarts
<1>2. CASE RunOpensErrorFile(r)
  BY <1>0, <1>2 DEF RunOpensErrorFile
<1>3. CASE RunWritesOutput(r)
  BY <1>0, <1>3 DEF RunWritesOutput
<1>4. CASE RunWritesError(r)
  <2>1. /\ phase[r] = "running"
        /\ stderr'[r] = stderr[r] + 1 /\ \A x \in Runs \ {r} : stderr'[x] = stderr[x]
        /\ UNCHANGED <<phase, lastOut, logFile, errFile, log, pass, faults>>
    BY <1>4 DEF RunWritesError
  <2>2. stderr[r] \in Nat /\ log[r].error \in Nat /\ \A p \in Active : pass[p].error \in Nat
    BY <1>0 DEF LogRow, PassState
  <2>3. \A x \in Runs : RowSound(x)'
    BY <1>0, <2>1, <2>2
  <2>4. \A p \in Active : Held(p)'
    BY <1>0, <2>1
  <2>5. ASSUME NEW p \in Active, NEW x \in Runs, x = pass[p].run PROVE Read(p, x)'
    <3>1. Read(p, x) /\ RowSound(x)
      BY <1>0, <2>5
    <3> QED
      BY <2>1, <2>2, <3>1
  <2> QED
    BY <2>3, <2>4, <2>5
<1>5. CASE RunEnds(r)
  BY <1>0, <1>5 DEF RunEnds
<1>6. CASE DeleteLog(r)
  BY <1>0, <1>6 DEF DeleteLog, remoteVars
<1> QED
  BY <1>1, <1>2, <1>3, <1>4, <1>5, <1>6


\* A pass on its way: every step of it keeps the invariant.
LEMMA InsideStep ==
  ASSUME TypeOK, CollectorInv, TypeOK', InProgressExact', NEW p \in Passes,
         \/ Connect(p) \/ ListJobs(p) \/ ListLogs(p) \/ CatLog(p) \/ CatError(p)
         \/ Save(p) \/ SaveFails(p) \/ ClearLog(p) \/ ClearError(p)
         \/ Finish(p) \/ CommandFails(p)
  PROVE  CollectorInv'
<1>0. /\ pass[p] \in PassState
      /\ pass[p].run # None <=> OnRun(pass[p].pc)
      /\ \A x \in Runs : RowSound(x) /\ log[x] \in LogRow /\ stderr[x] \in 0..MaxStderr
  BY DEF TypeOK, CollectorInv
<1>a. ASSUME p \in Active
      PROVE  Held(p) /\ \A x \in Runs : x = pass[p].run => Read(p, x)
  BY <1>a, CollectorAssumption DEF CollectorInv
<1>1. CASE Connect(p) \/ ListJobs(p)
  <2>1. p \in Active /\ pass[p].run = None /\ pass[p].logs = {}
    BY <1>0, <1>1, <1>a, Lists DEF Active, Connect, OnRun, Held
  <2>2. /\ pass'[p].run = None /\ pass'[p].logs = {}
        /\ pass'[p].jobs \subseteq pass[p].jobs \union JobsOn(pass[p].server)
        /\ pass'[p].server = pass[p].server
        /\ \A x \in Passes \ {p} : pass'[x] = pass[x]
    <3>1. CASE Connect(p)
      BY <1>0, <2>1, <3>1, SteppedFields DEF Connect, TypeOK
    <3>2. CASE ListJobs(p)
      <4>1. PICK js \in SUBSET JobsOn(pass[p].server) :
              pass' = [pass EXCEPT ![p] = [pass[p] EXCEPT !.pc = "logs", !.jobs = js]]
        BY <3>2, Lists
      <4> QED
        BY <1>0, <2>1, <4>1, ListedFields DEF TypeOK
    <3> QED
      BY <1>1, <3>1, <3>2
  <2>3. UNCHANGED <<remoteVars, logFile, errFile, log, faults>>
    BY <1>1, Lists DEF Connect
  <2>4. Held(p)'
    BY <1>a, <2>1, <2>2 DEF Held, Reading, JobsOn
  <2> QED
    BY <1>0, <2>1, <2>2, <2>3, <2>4, PassKeepsInv, CollectorAssumption
<1>2. CASE ListLogs(p)
  <2>1. p \in Active /\ pass[p].run = None /\ pass[p].pc = "logs" /\ pass[p].logs = {}
    BY <1>0, <1>2 DEF Active, ListLogs, OnRun
  <2>2. PICK j \in pass[p].jobs : pass' = [pass EXCEPT ![p] = OnJob(pass[p], j)]
    BY <1>2 DEF ListLogs
  <2>3. /\ pass'[p].run = None /\ pass'[p].logs = InboxOf(j, logFile)
        /\ pass'[p].errors = InboxOf(j, errFile) /\ pass'[p].jobs \subseteq pass[p].jobs
        /\ pass'[p].server = pass[p].server /\ pass'[p].pc = "logs"
        /\ \A x \in Passes \ {p} : pass'[x] = pass[x]
    BY <1>0, <2>1, <2>2, OnJobFields DEF TypeOK
  <2>4. UNCHANGED <<remoteVars, phase, logFile, errFile, log, faults>>
    BY <1>2 DEF ListLogs, remoteVars
  <2>5. ServerOf[j] = pass[p].server
    BY <1>a, <2>1, <2>2 DEF Held
  <2>6. \A x \in InboxOf(j, logFile) :
          /\ x \in Runs /\ HostOf(x) = pass[p].server /\ logFile[x] = "inbox"
          /\ x \in InboxOf(j, errFile) => errFile[x] # "absent"
          /\ x \notin InboxOf(j, errFile) => log[x].error = 0
    <3>1. ASSUME NEW x \in Runs, JobOf[x] = j, logFile[x] = "inbox", errFile[x] # "inbox"
          PROVE  log[x].error = 0
      BY <1>0, <3>1 DEF RowSound, Moved, TypeOK, Places, LogRow
    <3> QED
      BY <2>5, <3>1 DEF InboxOf, HostOf
  <2>7. Held(p)'
    BY <1>a, <2>1, <2>3, <2>4, <2>6, CollectorAssumption DEF Held, Reading, HostOf
  <2> QED
    BY <1>0, <2>1, <2>3, <2>4, <2>7, PassKeepsInv, CollectorAssumption
<1>3. CASE CatLog(p)
  <2>1. p \in Active /\ pass[p].run = None /\ pass[p].pc = "logs"
    BY <1>0, <1>3 DEF Active, CatLog, OnRun
  <2>2. PICK r \in pass[p].logs : pass' = [pass EXCEPT ![p] = OnLog(pass[p], r)]
    BY <1>3 DEF CatLog
  <2>3. r \in Runs
    BY <1>0 DEF PassState
  <2>4. /\ pass'[p].pc = IF r \in pass[p].errors THEN "cat_error" ELSE "save"
        /\ pass'[p].run = r /\ pass'[p].logs = pass[p].logs \ {r}
        /\ pass'[p].errors = pass[p].errors /\ pass'[p].jobs = pass[p].jobs
        /\ pass'[p].server = pass[p].server
        /\ pass'[p].end = EndMark(r) /\ pass'[p].error = 0
        /\ \A x \in Passes \ {p} : pass'[x] = pass[x]
    BY <1>0, <2>2, <2>3, OnLogFields DEF TypeOK
  <2>5. UNCHANGED <<remoteVars, phase, lastOut, stderr, logFile, errFile, log, faults>>
    BY <1>3 DEF CatLog, remoteVars
  <2>6. Held(p)'
    BY <1>a, <2>1, <2>2, <2>3, <2>4, <2>5, CollectorAssumption DEF Held, Reading, HostOf
  <2>7. Read(p, r)'
    <3>1. Held(p) /\ r \in Reading(p) /\ RowSound(r) /\ logFile[r] = "inbox"
      BY <1>0, <1>a, <2>1, <2>2, <2>3, CollectorAssumption DEF Held, Reading
    <3>2. EndMark(r)' = EndMark(r) /\ Closed(r)' = Closed(r)
      BY <2>5 DEF EndMark, Closed
    <3>3. r \notin pass[p].errors => log[r].error = 0
      BY <3>1 DEF Held
    <3>4. Closed(r) => EndMark(r)
      BY <3>1 DEF RowSound
    <3>5. stderr[r] \in Nat
      BY <1>0, <2>3, CollectorAssumption
    <3> QED
      BY <2>4, <2>5, <3>1, <3>2, <3>3, <3>4, <3>5 DEF Read
  <2> QED
    BY <1>0, <2>1, <2>3, <2>4, <2>5, <2>6, <2>7, PassKeepsInv, CollectorAssumption
<1>b. ASSUME OnRun(pass[p].pc)
      PROVE  \E r \in Runs :
               /\ r = pass[p].run /\ r # None /\ p \in Active
               /\ Held(p) /\ Read(p, r) /\ RowSound(r)
               /\ r \in Reading(p) /\ r \notin pass[p].logs /\ Reading(p) \subseteq Runs
               /\ log[r] \in LogRow /\ stderr[r] \in 0..MaxStderr
               /\ pass[p].end \in BOOLEAN /\ pass[p].error \in 0..MaxStderr
  <2>1. p \in Active /\ pass[p].run \in Runs /\ pass[p].run # None
    BY <1>0, <1>b DEF Active, OnRun, PassState
  <2>2. /\ pass[p].run \in Reading(p) /\ Reading(p) \subseteq Runs
        /\ pass[p].end \in BOOLEAN /\ pass[p].error \in 0..MaxStderr
    BY <1>0, <2>1 DEF Reading, PassState
  <2> QED
    BY <1>0, <1>a, <2>1, <2>2 DEF Held
<1>4. CASE CatError(p)
  <2>1. OnRun(pass[p].pc) /\ pass[p].pc = "cat_error"
    BY <1>4 DEF CatError, OnRun
  <2>0. PICK r \in Runs :
          /\ r = pass[p].run /\ r # None /\ p \in Active
          /\ Held(p) /\ Read(p, r) /\ RowSound(r)
          /\ r \in Reading(p) /\ r \notin pass[p].logs /\ Reading(p) \subseteq Runs
          /\ log[r] \in LogRow /\ stderr[r] \in 0..MaxStderr
          /\ pass[p].end \in BOOLEAN /\ pass[p].error \in 0..MaxStderr
    BY <1>b, <2>1
  <2>2. pass' = [pass EXCEPT ![p] = [pass[p] EXCEPT !.pc = "save", !.error = stderr[r]]]
    BY <1>4, <2>0 DEF CatError
  <2>3. /\ pass'[p].pc = "save" /\ pass'[p].run = r /\ pass'[p].logs = pass[p].logs
        /\ pass'[p].errors = pass[p].errors /\ pass'[p].jobs = pass[p].jobs
        /\ pass'[p].server = pass[p].server
        /\ pass'[p].end = pass[p].end /\ pass'[p].error = stderr[r]
        /\ \A x \in Passes \ {p} : pass'[x] = pass[x]
    BY <1>0, <2>0, <2>2, ErrorReadFields DEF TypeOK
  <2>4. UNCHANGED <<remoteVars, phase, lastOut, stderr, logFile, errFile, log, faults>>
    BY <1>4 DEF CatError, remoteVars
  <2>5. Held(p)'
    BY <2>0, <2>1, <2>3, <2>4 DEF Held, Reading, HostOf
  <2>6. Read(p, r)'
    <3>1. log[r].error <= stderr[r] /\ stderr[r] <= stderr[r]
      BY <2>0, <2>1 DEF RowSound
    <3>2. pass'[p].end = pass[p].end /\ EndMark(r)' = EndMark(r) /\ Closed(r)' = Closed(r)
      BY <2>3, <2>4 DEF EndMark, Closed
    <3> QED
      BY <2>0, <2>1, <2>3, <2>4, <3>1, <3>2 DEF Read
  <2>7. RowSound(r)'
    BY <2>0, <2>4 DEF RowSound, EndMark, Closed, Moved
  <2> QED
    BY <2>0, <2>1, <2>3, <2>4, <2>5, <2>6, <2>7, <1>0, PassKeepsInv
<1>5. CASE Save(p) \/ SaveFails(p)
  <2>1. OnRun(pass[p].pc) /\ pass[p].pc = "save"
    BY <1>5 DEF Save, SaveFails, OnRun
  <2>0. PICK r \in Runs :
          /\ r = pass[p].run /\ r # None /\ p \in Active
          /\ Held(p) /\ Read(p, r) /\ RowSound(r)
          /\ r \in Reading(p) /\ r \notin pass[p].logs /\ Reading(p) \subseteq Runs
          /\ log[r] \in LogRow /\ stderr[r] \in 0..MaxStderr
          /\ pass[p].end \in BOOLEAN /\ pass[p].error \in 0..MaxStderr
    BY <1>b, <2>1
  <2>2. /\ pass'[p].pc = IF pass[p].end THEN "clear" ELSE "logs"
        /\ pass'[p].run = IF pass[p].end THEN r ELSE None
        /\ pass'[p].logs = pass[p].logs
        /\ pass'[p].errors = pass[p].errors /\ pass'[p].jobs = pass[p].jobs
        /\ pass'[p].server = pass[p].server
        /\ pass'[p].end = pass[p].end /\ pass'[p].success = FALSE
        /\ \A x \in Passes \ {p} : pass'[x] = pass[x]
    <3>1. AfterSave(p, TRUE) \/ AfterSave(p, FALSE)
      BY <1>5 DEF Save, SaveFails
    <3>2. CASE pass[p].end
      <4>1. PICK ok \in {FALSE} :
              pass' = [pass EXCEPT ![p] = [pass[p] EXCEPT !.pc = "clear", !.success = ok]]
        BY <3>1, <3>2 DEF AfterSave, UpsertResult
      <4>2. pass'[p] = [pass[p] EXCEPT !.pc = "clear", !.success = ok]
        BY <4>1 DEF TypeOK
      <4>3. \A x \in Passes \ {p} : pass'[x] = pass[x]
        BY <4>1 DEF TypeOK
      <4>4. /\ pass'[p].pc = "clear" /\ pass'[p].run = r /\ pass'[p].logs = pass[p].logs
            /\ pass'[p].errors = pass[p].errors /\ pass'[p].jobs = pass[p].jobs
            /\ pass'[p].server = pass[p].server
            /\ pass'[p].end = pass[p].end /\ pass'[p].success = ok
        BY <1>0, <2>0, <4>2, SavedFields
      <4>5. pass'[p].success = FALSE
        BY <4>1, <4>4, Zenon
      <4> QED
        BY <3>2, <4>3, <4>4, <4>5, Zenon
    <3>3. CASE ~pass[p].end
      <4>1. pass' = [pass EXCEPT ![p] = LogDone(pass[p])]
        BY <3>1, <3>3 DEF AfterSave
      <4> QED
        BY <1>0, <2>0, <2>1, <3>3, <4>1, LogDoneFields DEF TypeOK
    <3> QED
      BY <3>2, <3>3
  <2>3. /\ UNCHANGED <<remoteVars, phase, lastOut, stderr, logFile, errFile>>
        /\ faults' = 0 => faults = 0 /\ ~SaveFails(p)
    <3>1. faults \in 0..MaxFaults /\ MaxFaults \in Nat
      BY CollectorAssumption DEF TypeOK
    <3>2. ASSUME SaveFails(p) PROVE faults' # 0
      <4>1. MaxFaults > 0 /\ faults' = IF faults < MaxFaults THEN faults + 1 ELSE faults
        BY <3>2 DEF SaveFails
      <4> QED
        BY <3>1, <4>1
    <3>4. Save(p) => faults' = faults
      BY DEF Save
    <3>3. UNCHANGED <<remoteVars, phase, lastOut, stderr, logFile, errFile>>
      BY <1>5 DEF Save, SaveFails, remoteVars
    <3> QED
      BY <1>5, <3>1, <3>2, <3>3, <3>4
  <2>4. /\ \A x \in Runs \ {r} : log'[x] = log[x]
        /\ \/ SaveFails(p) /\ log'[r] = log[r]
           \/ /\ log'[r].status = Status(pass[p].end, pass[p].error)
              /\ log'[r].error = pass[p].error
    <3>1. CASE SaveFails(p)
      BY <3>1 DEF SaveFails
    <3>2. CASE Save(p)
      <4>1. log' = [log EXCEPT ![r] = [@ EXCEPT !.status = Status(pass[p].end, pass[p].error),
                                                !.error = pass[p].error]]
        BY <2>0, <3>2 DEF Save
      <4>2. log \in [Runs -> LogRow]
        BY DEF TypeOK
      <4>3. PICK st : st = Status(pass[p].end, pass[p].error)
        OBVIOUS
      <4> QED
        BY <2>0, <4>1, <4>2, <4>3 DEF LogRow
    <3> QED
      BY <1>5, <3>1, <3>2
  <2>5. RowSound(r)'
    BY <2>0, <2>1, <2>3, <2>4 DEF RowSound, Read, Status, EndMark, Closed, Moved, LogRow
  <2>6. Held(p)'
    <3>1. Reading(p)' \subseteq Reading(p)
      BY <2>0, <2>2 DEF Reading
    <3>2. ASSUME NEW x \in Reading(p), x \notin pass[p].errors PROVE log'[x].error = 0
      BY <2>0, <2>1, <2>4, <3>2 DEF Held, Read
    <3> QED
      BY <2>0, <2>1, <2>2, <2>3, <3>1, <3>2, CollectorAssumption DEF Held, HostOf, Reading
  <2>7. ASSUME pass[p].end PROVE Read(p, r)'
    <3>1. pass'[p].pc = "clear" /\ pass'[p].end /\ pass'[p].success = FALSE
      BY <2>2, <2>7
    <3>2. EndMark(r)' /\ logFile'[r] = "inbox"
      BY <2>0, <2>1, <2>3, <2>7 DEF Read, EndMark
    <3>3. faults' = 0 => Closed(r)'
      BY <2>0, <2>3, <2>4, <2>7 DEF Status, Closed
    <3> QED
      BY <3>1, <3>2, <3>3 DEF Read
  <2> QED
    BY <2>0, <2>1, <2>2, <2>3, <2>4, <2>5, <2>6, <2>7, CollectorAssumption, <1>0, PassKeepsInv
<1>6. CASE ClearLog(p)
  <2>1. OnRun(pass[p].pc) /\ pass[p].pc = "clear"
    BY <1>6 DEF ClearLog, OnRun
  <2>0. PICK r \in Runs :
          /\ r = pass[p].run /\ r # None /\ p \in Active
          /\ Held(p) /\ Read(p, r) /\ RowSound(r)
          /\ r \in Reading(p) /\ r \notin pass[p].logs /\ Reading(p) \subseteq Runs
          /\ log[r] \in LogRow /\ stderr[r] \in 0..MaxStderr
          /\ pass[p].end \in BOOLEAN /\ pass[p].error \in 0..MaxStderr
    BY <1>b, <2>1
  <2>2. /\ pass'[p].pc = IF r \in pass[p].errors THEN "clear_error" ELSE "logs"
        /\ pass'[p].run = IF r \in pass[p].errors THEN r ELSE None
        /\ pass'[p].logs = pass[p].logs
        /\ pass'[p].errors = pass[p].errors /\ pass'[p].jobs = pass[p].jobs
        /\ pass'[p].server = pass[p].server
        /\ r \in pass[p].errors => /\ pass'[p].end = pass[p].end
                                   /\ pass'[p].success = pass[p].success
        /\ \A x \in Passes \ {p} : pass'[x] = pass[x]
    <3>1. CASE r \in pass[p].errors
      <4>1. pass' = [pass EXCEPT ![p] = [pass[p] EXCEPT !.pc = "clear_error"]]
        BY <1>6, <2>0, <3>1 DEF ClearLog
      <4> QED
        BY <1>0, <2>0, <3>1, <4>1, SteppedFields DEF TypeOK
    <3>2. CASE r \notin pass[p].errors
      <4>1. pass' = [pass EXCEPT ![p] = LogDone(pass[p])]
        BY <1>6, <2>0, <3>2 DEF ClearLog
      <4> QED
        BY <1>0, <2>0, <3>2, <4>1, LogDoneFields DEF TypeOK
    <3> QED
      BY <3>1, <3>2
  <2>3. /\ UNCHANGED <<remoteVars, phase, lastOut, stderr, errFile, log, faults>>
        /\ \A x \in Runs \ {r} : logFile'[x] = logFile[x]
        /\ logFile'[r] = ClearedTo(pass[p].success)
    BY <1>6, <2>0, <2>1 DEF ClearLog, remoteVars, TypeOK
  <2>4. Moved(logFile'[r]) /\ (logFile'[r] = "deleted" => pass[p].success)
    BY <2>3 DEF ClearedTo, Moved
  <2>5. RowSound(r)'
    BY <2>0, <2>1, <2>3, <2>4 DEF RowSound, Read, EndMark, Closed, Moved
  <2>6. Held(p)'
    BY <2>0, <2>1, <2>2, <2>3, CollectorAssumption DEF Held, Reading, HostOf
  <2>7. r \in pass[p].errors => Read(p, r)'
    BY <2>0, <2>1, <2>2, <2>3, <2>4 DEF Read, EndMark, Closed, Moved
  <2> QED
    BY <2>0, <2>1, <2>2, <2>3, <2>5, <2>6, <2>7, CollectorAssumption, <1>0, PassKeepsInv
<1>7. CASE ClearError(p)
  <2>1. OnRun(pass[p].pc) /\ pass[p].pc = "clear_error"
    BY <1>7 DEF ClearError, OnRun
  <2>0. PICK r \in Runs :
          /\ r = pass[p].run /\ r # None /\ p \in Active
          /\ Held(p) /\ Read(p, r) /\ RowSound(r)
          /\ r \in Reading(p) /\ r \notin pass[p].logs /\ Reading(p) \subseteq Runs
          /\ log[r] \in LogRow /\ stderr[r] \in 0..MaxStderr
          /\ pass[p].end \in BOOLEAN /\ pass[p].error \in 0..MaxStderr
    BY <1>b, <2>1
  <2>2. /\ pass'[p].pc = "logs" /\ pass'[p].run = None /\ pass'[p].logs = pass[p].logs
        /\ pass'[p].errors = pass[p].errors /\ pass'[p].jobs = pass[p].jobs
        /\ pass'[p].server = pass[p].server
        /\ \A x \in Passes \ {p} : pass'[x] = pass[x]
    BY <1>0, <1>7, LogDoneFields DEF ClearError, TypeOK
  <2>3. /\ UNCHANGED <<remoteVars, phase, lastOut, stderr, logFile, log, faults>>
        /\ \A x \in Runs \ {r} : errFile'[x] = errFile[x]
        /\ errFile'[r] = ClearedTo(pass[p].success)
    BY <1>7, <2>0, <2>1 DEF ClearError, remoteVars, TypeOK
  <2>4. Moved(errFile'[r]) /\ (errFile'[r] = "deleted" => pass[p].success)
    BY <2>3 DEF ClearedTo, Moved
  <2>5. RowSound(r)'
    BY <2>0, <2>1, <2>3, <2>4 DEF RowSound, Read, EndMark, Closed, Moved
  <2>6. Held(p)'
    BY <2>0, <2>1, <2>2, <2>3, CollectorAssumption DEF Held, Reading, HostOf
  <2> QED
    BY <2>0, <2>1, <2>2, <2>3, <2>5, <2>6, CollectorAssumption, <1>0, PassKeepsInv
<1>8. CASE Finish(p) \/ CommandFails(p)
  <2>1. /\ p \in Active /\ pass' = [pass EXCEPT ![p] = IdlePass]
        /\ UNCHANGED <<remoteVars, phase, lastOut, stderr, logFile, errFile, log>>
        /\ faults' = 0 => faults = 0
    BY <1>8 DEF Finish, CommandFails, EndPass, Awaiting, Active, remoteVars, TypeOK
  <2>2. pass'[p].pc = "idle" /\ pass'[p].run = None /\ \A x \in Passes \ {p} : pass'[x] = pass[x]
    BY <2>1 DEF IdlePass, NewPass, TypeOK
  <2>3. \A x \in Runs : x = pass[p].run => RowSound(x)'
    BY <1>0, <2>1 DEF RowSound, EndMark, Closed, Moved
  <2> QED
    BY <2>1, <2>2, <2>3, CollectorAssumption, PassKeepsInv
<1> QED
  BY <1>1, <1>2, <1>3, <1>4, <1>5, <1>6, <1>7, <1>8


LEMMA CollectorStep == TypeOK /\ CollectorInv /\ [Next]_vars => CollectorInv'
<1> SUFFICES ASSUME TypeOK, CollectorInv, [Next]_vars PROVE CollectorInv'
  OBVIOUS
<1>0. TypeOK' /\ InProgressExact'
  BY TypeStep, InProgressStep DEF CollectorInv
<1>1. ASSUME NEW r \in Runs, \/ RunStarts(r) \/ RunOpensErrorFile(r) \/ RunWritesOutput(r)
                             \/ RunWritesError(r) \/ RunEnds(r) \/ DeleteLog(r)
      PROVE  CollectorInv'
  <2>1. UNCHANGED pass
    BY <1>1 DEF RunStarts, RunOpensErrorFile, RunWritesOutput, RunWritesError, RunEnds, DeleteLog
  <2>2. \A p \in Active : pass[p].run # None => pass[p].run \in Runs
    BY DEF TypeOK, PassState, Active
  <2> QED
    BY <1>0, <1>1, <2>1, <2>2, OutsideStep DEF CollectorInv, Active
<1>2. CASE UNCHANGED <<phase, lastOut, stderr, logFile, errFile, log, pass, faults>>
  BY <1>0, <1>2 DEF CollectorInv, Active, RowSound, Held, Read, Reading, EndMark, Closed,
     Moved, HostOf
<1>3. ASSUME NEW s \in Servers, CronTick(s) PROVE CollectorInv'
  <2>1. PICK p \in Passes : pass[p].pc = "idle" /\ pass' = [pass EXCEPT ![p] = NewPass("connect", s)]
    BY <1>3 DEF CronTick
  <2>2. /\ pass'[p].jobs = {} /\ pass'[p].logs = {} /\ pass'[p].run = None
        /\ \A x \in Passes \ {p} : pass'[x] = pass[x]
    BY <2>1 DEF NewPass, TypeOK
  <2>3. UNCHANGED <<phase, lastOut, stderr, logFile, errFile, log, faults>>
    BY <1>3 DEF CronTick, remoteVars
  <2>4. \A r \in Runs : RowSound(r)'
    BY <2>3 DEF CollectorInv, RowSound, EndMark, Closed, Moved
  <2>5. Held(p)'
    BY <2>2 DEF Held, Reading
  <2>6. ASSUME NEW x \in Active', x # p
        PROVE  Held(x)' /\ (pass[x].run # None => Read(x, pass[x].run))'
    <3>1. x \in Active /\ pass'[x] = pass[x]
      BY <2>2, <2>6 DEF Active
    <3> QED
      BY <2>3, <3>1 DEF CollectorInv, Held, Read, Reading, EndMark, Closed, Moved, HostOf
  <2> QED
    BY <1>0, <2>2, <2>4, <2>5, <2>6 DEF CollectorInv
<1>4. CASE Crash
  <2>1. Active' = {} /\ UNCHANGED <<phase, lastOut, stderr, logFile, errFile, log>>
    BY <1>4 DEF Crash, IdlePass, NewPass, Active, remoteVars
  <2>2. faults' # 0
    BY <1>4 DEF Crash, TypeOK
  <2> QED
    BY <1>0, <2>1, <2>2 DEF CollectorInv, RowSound, EndMark, Closed, Moved
<1>5. ASSUME NEW s \in Servers, Unschedule(s)
      PROVE  UNCHANGED <<phase, lastOut, stderr, logFile, errFile, log, pass, faults>>
  BY <1>5 DEF Unschedule, remoteVars
<1>6. ASSUME NEW t \in SUBSET Servers, Schedule(t)
      PROVE  UNCHANGED <<phase, lastOut, stderr, logFile, errFile, log, pass, faults>>
  BY <1>6 DEF Schedule, remoteVars
<1> QED
  BY <1>0, <1>1, <1>2, <1>3, <1>4, <1>5, <1>6, InsideStep DEF Next, PassStep, vars

LEMMA InvInit == Init => TypeOK /\ CollectorInv
<1>1. Init => TypeOK
  BY CollectorAssumption DEF Init, TypeOK, OnRun, Places, LogRow, NoLogRow, PassState, IdlePass, NewPass
<1>2. Init => CollectorInv
  BY CollectorAssumption DEF Init, CollectorInv, InProgressExact, Active, IdlePass, NewPass,
     NoLogRow, RowSound, Moved, Closed
<1> QED
  BY <1>1, <1>2

\* The invariant the safety properties follow from.
THEOREM CollectorCorrect == Spec => []CollectorInv
BY InvInit, CollectorStep, TypeCorrect, PTL DEF Spec

\* Whatever fails, the output of a run that has ended is on its server or in its row.
THEOREM NothingIsLost == Spec => []NothingLost
<1>1. TypeOK /\ CollectorInv => NothingLost
  BY DEF CollectorInv, RowSound, NothingLost, TypeOK, Places
<1> QED
  BY <1>1, TypeCorrect, CollectorCorrect, PTL

\* The files of a run are taken away only once the run has ended and, failures apart, only
\* once its row is closed; the error file always after the log file.
THEOREM MovedAreClosed == Spec => []MovedRunsClosed
<1>1. CollectorInv => MovedRunsClosed
  BY DEF CollectorInv, RowSound, MovedRunsClosed
<1> QED
  BY <1>1, CollectorCorrect, PTL

-----------------------------------------------------------------------------
(* The collector implements the ledger. *)

\* What a save makes of a row: it stays in progress, or it is closed with all there is.
LEMMA SaveEffect ==
  ASSUME TypeOK, CollectorInv, NEW p \in Passes, Save(p)
  PROVE  \E r \in Runs :
           /\ \A x \in Runs \ {r} : log'[x] = log[x]
           /\ log'[r].isDel = log[r].isDel
           /\ log[r].error <= log'[r].error /\ log'[r].error <= stderr[r]
           /\ \/ log'[r].status = 1 /\ log[r].status <= 1
              \/ /\ EndMark(r) /\ log'[r].status = 2
                 /\ log'[r].error = 0 /\ log[r].error = 0 /\ log[r].status <= 2
                 /\ stderr[r] = 0 \/ (pass[p].run = r /\ r \notin pass[p].errors)
              \/ EndMark(r) /\ log'[r].status = 3 /\ log'[r].error = stderr[r] /\ stderr[r] > 0
<1>1. p \in Active /\ pass[p] \in PassState /\ pass[p].run # None /\ pass[p].pc = "save"
  BY DEF Save, TypeOK, OnRun, Active
<1>2. PICK r \in Runs : r = pass[p].run
  BY <1>1 DEF PassState
<1>3. Held(p) /\ Read(p, r) /\ RowSound(r) /\ r \in Reading(p)
  BY <1>1, <1>2 DEF CollectorInv, Reading
<1>4. log[r] \in LogRow /\ stderr[r] \in Nat /\ pass[p].error \in Nat /\ pass[p].end \in BOOLEAN
  BY <1>1, <1>2, CollectorAssumption DEF TypeOK, PassState
<1>5. /\ \A x \in Runs \ {r} : log'[x] = log[x]
      /\ log'[r].status = Status(pass[p].end, pass[p].error)
      /\ log'[r].error = pass[p].error
      /\ log'[r].isDel = log[r].isDel
  <2>1. PICK st : /\ st = Status(pass[p].end, pass[p].error)
                  /\ log' = [log EXCEPT ![r] = [@ EXCEPT !.status = st, !.error = pass[p].error]]
    BY <1>2 DEF Save
  <2>2. log \in [Runs -> LogRow]
    BY DEF TypeOK
  <2> QED
    BY <1>4, <2>1, <2>2 DEF LogRow
<1>6. CASE ~pass[p].end
  <2>1. log[r].status <= 1
    BY <1>1, <1>3, <1>4, <1>6 DEF Read, Closed, LogRow
  <2> QED
    BY <1>1, <1>3, <1>5, <1>6, <2>1 DEF Read, Status
<1>7. CASE pass[p].end /\ r \notin pass[p].errors
  <2>1. log[r].error = 0 /\ pass[p].error = 0 /\ EndMark(r)
    BY <1>1, <1>3, <1>7 DEF Held, Read
  <2>2. log[r].status <= 2
    BY <1>3, <1>4, <2>1 DEF RowSound, LogRow
  <2> QED
    BY <1>2, <1>4, <1>5, <1>7, <2>1, <2>2 DEF Status
<1>8. CASE pass[p].end /\ r \in pass[p].errors
  <2>1. pass[p].error = stderr[r] /\ EndMark(r) /\ log[r].error <= stderr[r]
    BY <1>1, <1>3, <1>8 DEF Read, RowSound
  <2>2. CASE stderr[r] > 0
    BY <1>4, <1>5, <1>8, <2>1, <2>2 DEF Status
  <2>3. CASE stderr[r] = 0
    <3>1. log[r].error = 0 /\ log[r].status <= 2
      BY <1>3, <1>4, <2>1, <2>3 DEF RowSound, LogRow
    <3> QED
      BY <1>4, <1>5, <1>8, <2>1, <2>3, <3>1 DEF Status
  <2> QED
    BY <1>4, <2>2, <2>3
<1> QED
  BY <1>4, <1>6, <1>7, <1>8

\* Only a save and a user touch a row.
LEMMA RowsUntouched ==
  ASSUME [Next]_vars, ~(\E p \in Passes : Save(p)), ~(\E r \in Runs : DeleteLog(r))
  PROVE  UNCHANGED log
BY DEF Next, PassStep, vars, remoteVars, RunStarts, RunOpensErrorFile, RunWritesOutput,
   RunWritesError, RunEnds, Schedule, Unschedule, CronTick, Connect, ListJobs, ListDirs,
   ListLogs, CatLog, CatError, SaveFails, ClearLog, ClearError, Finish, CommandFails, Crash

\* A row never goes back to an earlier status or a shorter error text, nor reappears.
THEOREM RowsAdvance == Spec => RowsOnlyAdvance
<1>1. ASSUME TypeOK, CollectorInv, [Next]_vars, NEW r \in Runs
      PROVE  /\ log'[r].status >= log[r].status /\ log'[r].error >= log[r].error
             /\ log[r].isDel => log'[r].isDel
  <2>1. log \in [Runs -> LogRow] /\ log[r].status \in Nat /\ log[r].error \in Nat
    BY <1>1 DEF TypeOK, LogRow
  <2>2. CASE UNCHANGED log
    BY <2>1, <2>2
  <2>3. CASE \E x \in Runs : DeleteLog(x)
    BY <2>1, <2>3 DEF DeleteLog, LogRow
  <2>4. ASSUME NEW p \in Passes, Save(p)
        PROVE  /\ log'[r].status >= log[r].status /\ log'[r].error >= log[r].error
               /\ log[r].isDel => log'[r].isDel
    <3>1. log[r].status \in 0..3
      BY <1>1 DEF TypeOK, LogRow
    <3>2. \A x \in Runs : log[x].status \in 0..3 /\ log[x].error \in Nat
      BY <1>1, CollectorAssumption DEF TypeOK, LogRow
    <3> QED
      BY <1>1, <2>1, <2>4, <3>2, SaveEffect
  <2> QED
    BY <1>1, <2>2, <2>3, <2>4, RowsUntouched
<1>2. TypeOK /\ CollectorInv /\ [Next]_vars =>
        [\A r \in Runs : /\ log'[r].status >= log[r].status
                         /\ log'[r].error >= log[r].error
                         /\ log[r].isDel => log'[r].isDel]_vars
  BY <1>1
<1> QED
  BY <1>2, TypeCorrect, CollectorCorrect, PTL DEF Spec, RowsOnlyAdvance

\* A row is closed only of an ended run, and says what it has printed on its error output,
\* unless the pass that closes it has listed no error file (SshClient.upsertLogs).
THEOREM StatusIsSound == Spec => StatusSound
<1> DEFINE Closes(r) == log'[r].status # log[r].status /\ log'[r].status \in {2, 3}
           Sound(r) ==
             /\ EndMark(r)
             /\ \/ log'[r].error = stderr[r] /\ (log'[r].status = 3 <=> stderr[r] > 0)
                \/ log'[r].status = 2 /\ \E p \in Passes : pass[p].run = r /\ r \notin pass[p].errors
<1>1. ASSUME TypeOK, CollectorInv, [Next]_vars, NEW r \in Runs, Closes(r) PROVE Sound(r)
  <2>1. CASE UNCHANGED log
    BY <1>1, <2>1
  <2>2. CASE \E x \in Runs : DeleteLog(x)
    BY <1>1, <2>2 DEF DeleteLog, TypeOK, LogRow
  <2>3. ASSUME NEW p \in Passes, Save(p) PROVE Sound(r)
    <3>1. /\ EndMark(r)
          /\ \/ /\ log'[r].status = 2 /\ log'[r].error = 0
                /\ stderr[r] = 0 \/ (pass[p].run = r /\ r \notin pass[p].errors)
             \/ log'[r].status = 3 /\ log'[r].error = stderr[r] /\ stderr[r] > 0
      BY <1>1, <2>3, SaveEffect
    <3> QED
      BY <3>1
  <2> QED
    BY <1>1, <2>1, <2>2, <2>3, RowsUntouched
<1>2. TypeOK /\ CollectorInv /\ [Next]_vars =>
        [\A r \in Runs : log'[r].status # log[r].status /\ log'[r].status \in {2, 3} =>
           /\ EndMark(r)
           /\ \/ log'[r].error = stderr[r] /\ (log'[r].status = 3 <=> stderr[r] > 0)
              \/ log'[r].status = 2 /\ \E p \in Passes : pass[p].run = r /\ r \notin pass[p].errors]_vars
  BY <1>1
<1> QED
  BY <1>2, TypeCorrect, CollectorCorrect, PTL DEF Spec, StatusSound

\* The collector implements the ledger: every step is a step of LogLedger or a stutter.
THEOREM ImplementsLedger == Spec => LedgerRefinement
<1> DEFINE Ended == {r \in Runs : phase[r] = "ended"}
           Row == [r \in Runs |-> [status |-> log[r].status, error |-> log[r].error]]
<1>1. Init => Ledger!LedgerInit
  BY DEF Init, NoLogRow, Ledger!LedgerInit
<1>2. TypeOK /\ CollectorInv /\ [Next]_vars => [Ledger!LedgerNext]_(Ledger!ledgerVars)
  <2> SUFFICES ASSUME TypeOK, CollectorInv, [Next]_vars
               PROVE  [Ledger!LedgerNext]_(Ledger!ledgerVars)
    OBVIOUS
  <2>1. ASSUME UNCHANGED <<phase, stderr, log>> PROVE UNCHANGED Ledger!ledgerVars
    BY <2>1 DEF Ledger!ledgerVars
  <2>2. ASSUME NEW p \in Passes, Save(p) PROVE Ledger!LedgerNext
    <3>1. UNCHANGED <<Ended, stderr>>
      BY <2>2 DEF Save, remoteVars
    <3>2. PICK r \in Runs :
           /\ \A x \in Runs \ {r} : log'[x] = log[x]
           /\ log[r].error <= log'[r].error /\ log'[r].error <= stderr[r]
           /\ \/ log'[r].status = 1 /\ log[r].status <= 1
              \/ /\ EndMark(r) /\ log'[r].status = 2
                 /\ log'[r].error = 0 /\ log[r].error = 0 /\ log[r].status <= 2
              \/ EndMark(r) /\ log'[r].status = 3 /\ log'[r].error = stderr[r] /\ stderr[r] > 0
      BY <2>2, SaveEffect
    <3>3. Row' = [Row EXCEPT ![r] = [status |-> log'[r].status, error |-> log'[r].error]]
      BY <3>2
    <3>4. log[r].error \in Nat /\ log'[r].error \in Nat /\ stderr[r] \in Nat
      <4>1. log \in [Runs -> LogRow] /\ log' \in [Runs -> LogRow] /\ stderr \in [Runs -> 0..MaxStderr]
        BY TypeStep DEF TypeOK
      <4> QED
        BY <4>1, CollectorAssumption DEF LogRow
    <3>5. EndMark(r) => r \in Ended
      BY DEF EndMark
    <3>6. CASE log'[r].status = 1 /\ log[r].status <= 1
      <4>1. log'[r].error \in Row[r].error .. stderr[r] /\ Row[r].status <= 1
        BY <3>2, <3>4, <3>6
      <4>2. Row' = [Row EXCEPT ![r] = [status |-> 1, error |-> log'[r].error]]
        BY <3>3, <3>6
      <4>3. Ledger!Observes(r)
        BY <3>1, <4>1, <4>2 DEF Ledger!Observes
      <4> QED
        BY <4>3 DEF Ledger!LedgerNext
    <3>7. CASE /\ EndMark(r) /\ log'[r].status = 2
               /\ log'[r].error = 0 /\ log[r].error = 0 /\ log[r].status <= 2
      BY <3>1, <3>2, <3>3, <3>5, <3>7 DEF Ledger!LedgerNext, Ledger!Succeeds
    <3>8. CASE EndMark(r) /\ log'[r].status = 3 /\ log'[r].error = stderr[r] /\ stderr[r] > 0
      BY <3>1, <3>2, <3>3, <3>5, <3>8 DEF Ledger!LedgerNext, Ledger!Fails
    <3> QED
      BY <3>2, <3>6, <3>7, <3>8
  <2>3. ASSUME NEW r \in Runs, RunWritesError(r) PROVE Ledger!LedgerNext
    <3>1. r \notin Ended /\ UNCHANGED <<Ended, Row>> /\ stderr[r] < MaxStderr
      BY <2>3 DEF RunWritesError
    <3>2. stderr' = [stderr EXCEPT ![r] = @ + 1]
      BY <2>3 DEF RunWritesError
    <3> QED
      BY <3>1, <3>2 DEF Ledger!LedgerNext, Ledger!Prints
  <2>4. ASSUME NEW r \in Runs, RunEnds(r) PROVE Ledger!LedgerNext
    <3>1. r \notin Ended /\ Ended' = Ended \union {r} /\ UNCHANGED <<stderr, Row>>
      BY <2>4 DEF RunEnds, TypeOK
    <3> QED
      BY <3>1 DEF Ledger!LedgerNext, Ledger!Finishes
  <2>5. ASSUME NEW r \in Runs, RunStarts(r) \/ RunOpensErrorFile(r)
        PROVE  UNCHANGED <<Ended, stderr, Row>>
    BY <2>5 DEF RunStarts, RunOpensErrorFile, TypeOK
  <2>6. ASSUME NEW r \in Runs, DeleteLog(r) PROVE UNCHANGED <<Ended, stderr, Row>>
    <3>1. UNCHANGED <<Ended, stderr>>
      BY <2>6 DEF DeleteLog, remoteVars
    <3>2. \A x \in Runs : log'[x].status = log[x].status /\ log'[x].error = log[x].error
      BY <2>6 DEF DeleteLog, TypeOK, LogRow
    <3> QED
      BY <3>1, <3>2
  <2>7. ASSUME NEW r \in Runs, RunWritesOutput(r) PROVE UNCHANGED <<phase, stderr, log>>
    BY <2>7 DEF RunWritesOutput
  <2>8. ASSUME NEW s \in Servers, Unschedule(s) \/ CronTick(s)
        PROVE  UNCHANGED <<phase, stderr, log>>
    BY <2>8 DEF Unschedule, CronTick, remoteVars
  <2>11. ASSUME NEW t \in SUBSET Servers, Schedule(t) PROVE UNCHANGED <<phase, stderr, log>>
    BY <2>11 DEF Schedule, remoteVars
  <2>9. ASSUME NEW p \in Passes,
               \/ Connect(p) \/ ListJobs(p) \/ ListLogs(p) \/ CatLog(p) \/ CatError(p)
               \/ SaveFails(p) \/ ClearLog(p) \/ ClearError(p) \/ Finish(p) \/ CommandFails(p)
        PROVE  UNCHANGED <<phase, stderr, log>>
    BY <2>9 DEF Connect, ListJobs, ListDirs, ListLogs, CatLog, CatError, SaveFails, ClearLog, ClearError,
       Finish, CommandFails, remoteVars
  <2>10. CASE Crash \/ UNCHANGED vars
    BY <2>10 DEF Crash, vars, remoteVars, Ledger!ledgerVars
  <2> QED
    BY <2>1, <2>2, <2>3, <2>4, <2>5, <2>6, <2>7, <2>8, <2>9, <2>10, <2>11
       DEF Next, PassStep, Ledger!ledgerVars
<1> QED
  BY <1>1, <1>2, TypeCorrect, CollectorCorrect, PTL DEF Spec, LedgerRefinement, Ledger!LedgerSpec

=============================================================================
