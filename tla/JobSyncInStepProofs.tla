------------------------- MODULE JobSyncInStepProofs --------------------------
(***************************************************************************)
(* The proof that a server nobody disturbed is in step with the table of   *)
(* jobs (InStep), for any servers, jobs, bodies, organizations, requests   *)
(* and any number of faults.                                               *)
(***************************************************************************)
EXTENDS JobSyncProofs, FiniteSetTheorems

-----------------------------------------------------------------------------
(* The invariant. *)

On(view, j, s) == view[j] # None /\ view[j].ssh = s

\* Two views of the table say the same of a server.
Agree(v, w, s) == \A j \in Jobs : v[j] = w[j] \/ (~On(v, j, s) /\ ~On(w, j, s))

\* The table a request leaves when it commits.
After(o) == IF op[o].row = None THEN jobs ELSE [jobs EXCEPT ![op[o].job] = op[o].row]

\* A request that is being served knows where the others, and their commands, work, ...
Served(o) == op[o].pc \notin {"idle", "left"}
Apart == \A o, x \in Ops : o # x /\ Served(o) => op[x].touch \subseteq op[o].missed
\* ... and what is going on besides.
Warned(o) == Served(o) =>
  /\ \A s \in Servers : delete[s] # "no" => s \in op[o].missed
  /\ boot = "read" => Servers \subseteq op[o].missed

\* It works at the server it writes on, and at those of its row, before and after.
Touches(o) ==
  /\ op[o].pc \in {"idle", "write"} => op[o].touch = {}
  /\ op[o].pc = "left" => op[o].touch = {op[o].srv}
  /\ PastWrite(o) => op[o].srv \in op[o].touch
  /\ op[o].row # None => /\ op[o].row.ssh \in op[o].touch
                         /\ jobs[op[o].job] # None => jobs[op[o].job].ssh \in op[o].touch

\* The snapshot of a request is out of date only for servers it has been told of.
Informed(o) == op[o].pc = "write" =>
  \A s \in Servers \ op[o].missed :
    Agree(op[o].view, jobs, s) /\ (s \in op[o].gone <=> s \in sshDeleted)

Match(s, list) == \A e \in list : script[s][e.job] = e.body

Clean(o) == PastWrite(o) /\ op[o].touch \intersect op[o].missed = {}

\* What it installs is what the table will say.
Installs(o) ==
  /\ op[o].srv \notin sshDeleted
  /\ op[o].list = Entries(After(o), op[o].srv)
  /\ op[o].active <=> ActiveOf(After(o), op[o].srv) # {}
  /\ op[o].pc \in {"stage", "apply", "schedule", "commit"} => Match(op[o].srv, op[o].list)
  /\ op[o].pc = "apply" => file[op[o].srv] = op[o].list
  /\ op[o].pc \in {"schedule", "commit"} => crontab[op[o].srv] = op[o].list
  /\ op[o].pc = "commit" => (op[o].srv \in scheduled <=> op[o].active)

\* That is so of a request nobody overlapped with.
Exact(o) == Clean(o) => Installs(o)

\* Where commands go on whose request has stopped, nothing is promised.
Marked(o) == op[o].pc = "left" => op[o].srv \in disturbed

\* Nobody who works at the server has left a trace on it.
Untouched(s) == s \notin disturbed /\ \A o \in Ops : Traces(op[o].pc) => s \notin op[o].touch

\* What the schedule says of a server, before, while and after it is set up.
Collected(s) ==
  /\ boot = "pending" /\ s \in scheduled => ActiveOf(jobs, s) # {}
  /\ boot = "read" => (s \in scheduled \union bootList <=> ActiveOf(jobs, s) # {})
  /\ boot = "done" => (s \in scheduled <=> ActiveOf(jobs, s) # {})

\* Requests that have only begun to give it a crontab find it empty.
Initial(s) == \A o \in Ops : op[o].srv = s =>
  /\ op[o].pc \in {"init_file", "init_apply"} => crontab[s] = {}
  /\ op[o].pc = "init_apply" => file[s] = {}

\* The server is in step.
Right(s) ==
  /\ crontab[s] = Entries(jobs, s) /\ Match(s, crontab[s])
  /\ Collected(s)
  /\ s \in sshDeleted \/ delete[s] # "no" => JobsOf(jobs, s) = {}
  /\ Initial(s)

Stepped(s) == Untouched(s) => Right(s)

NoCrontab == \A s \in Servers \ hasCrontab : crontab[s] = {}

-----------------------------------------------------------------------------
(* Views and counts. *)

LEMMA AgreeSame ==
  ASSUME NEW v, NEW w, NEW s, Agree(v, w, s)
  PROVE  /\ JobsOf(v, s) = JobsOf(w, s) /\ ActiveOf(v, s) = ActiveOf(w, s)
         /\ Entries(v, s) = Entries(w, s)
<1>1. \A j \in Jobs : /\ Live(v, j, s) <=> Live(w, j, s)
                      /\ Live(v, j, s) => v[j] = w[j]
  BY DEF Agree, On, Live
<1>2. JobsOf(v, s) = JobsOf(w, s)
  BY <1>1 DEF JobsOf
<1>3. \A j \in JobsOf(v, s) : v[j] = w[j]
  BY <1>1 DEF JobsOf
<1>4. ActiveOf(v, s) = ActiveOf(w, s)
  BY <1>2, <1>3 DEF ActiveOf
<1>5. \A j \in ActiveOf(v, s) : v[j] = w[j]
  BY <1>3 DEF ActiveOf
<1> QED
  BY <1>2, <1>4, <1>5 DEF Entries

LEMMA AgreeTrans ==
  ASSUME NEW u, NEW v, NEW w, NEW s, Agree(u, v, s), Agree(v, w, s) PROVE Agree(u, w, s)
BY DEF Agree, On

\* One row set in both.
LEMMA AgreeSet ==
  ASSUME NEW v \in View, NEW w \in View, NEW j \in Jobs, NEW row, NEW s, Agree(v, w, s)
  PROVE  Agree([v EXCEPT ![j] = row], [w EXCEPT ![j] = row], s)
<1>1. \A i \in Jobs : [v EXCEPT ![j] = row][i] = (IF i = j THEN row ELSE v[i])
  BY DEF View
<1>2. \A i \in Jobs : [w EXCEPT ![j] = row][i] = (IF i = j THEN row ELSE w[i])
  BY DEF View
<1> QED
  BY <1>1, <1>2 DEF Agree, On

\* The query multiplies the counts of its two joins (SshService.__filter), but they are zero
\* together with the sets: neither a deletion nor the schedule is misled.
THEOREM CountsTell ==
  ASSUME NEW view, NEW s
  PROVE  /\ CntJobsActive(view, s) > 0 <=> ActiveOf(view, s) # {}
         /\ CntJobs(view, s) = 0 <=> JobsOf(view, s) = {}
<1>1. PICK n, a : n = Cardinality(JobsOf(view, s)) /\ a = Cardinality(ActiveOf(view, s))
  OBVIOUS
<1>2. IsFiniteSet(JobsOf(view, s)) /\ JobsOf(view, s) \subseteq Jobs
  BY FS_Subset, JobSyncAssumption DEF JobsOf
<1>3. IsFiniteSet(ActiveOf(view, s)) /\ ActiveOf(view, s) \subseteq JobsOf(view, s)
  BY <1>2, FS_Subset DEF ActiveOf
<1>4. /\ n \in Nat /\ a \in Nat
      /\ n = 0 <=> JobsOf(view, s) = {}
      /\ a = 0 <=> ActiveOf(view, s) = {}
  BY <1>1, <1>2, <1>3, FS_CardinalityType, FS_EmptySet
<1>5. a # 0 => n # 0
  BY <1>3, <1>4
<1>6. n * a > 0 <=> a # 0
  <2>1. CASE a = 0
    BY <1>4, <2>1
  <2>2. CASE a # 0
    <3>1. n \geq 1 /\ a \geq 1
      BY <1>4, <1>5, <2>2
    <3>2. n * a > 0
      BY <1>4, <3>1
    <3> QED
      BY <2>2, <3>2
  <2> QED
    BY <2>1, <2>2
<1>7. CntJobsActive(view, s) = n * a /\ CntJobs(view, s) = IF a = 0 THEN n ELSE n * a
  BY <1>1 DEF CntJobsActive, CntJobs
<1> QED
  BY <1>4, <1>6, <1>7

\* An entry of a list is the only one of its job.
LEMMA EntriesOnce ==
  ASSUME NEW view, NEW s, NEW e \in Entries(view, s), NEW f \in Entries(view, s), e.job = f.job
  PROVE  e = f
BY DEF Entries

-----------------------------------------------------------------------------
(* What the steps do to the requests, history included. *)

\* A request keeps what it knows, and may be told more.
Knows(x) ==
  /\ op'[x].job = op[x].job /\ op'[x].view = op[x].view /\ op'[x].gone = op[x].gone
  /\ op'[x].row = op[x].row /\ op'[x].srv = op[x].srv /\ op'[x].list = op[x].list
  /\ op'[x].active = op[x].active /\ op'[x].touch = op[x].touch
  /\ op[x].missed \subseteq op'[x].missed
Stays(x) == op'[x].pc = op[x].pc /\ Knows(x)
Goes(x) == PastWrite(x) /\ op'[x].pc \notin {"idle", "write", "left"} /\ Knows(x)
\* It ends, but for commands that go on.
Ends(x) == /\ op'[x].pc \in {"idle", "left"} /\ op'[x].row = None
           /\ op'[x].pc = "idle" => op'[x].touch = {} /\ op'[x].srv = None
           /\ op'[x].pc = "left" => /\ PastWrite(x) \/ op[x].pc = "left"
                                    /\ op'[x].srv = op[x].srv /\ op'[x].touch = {op[x].srv}
                                    /\ Sent(x) # {}
Usual(x) == Ends(x) \/ Stays(x) \/ Goes(x)

\* A request starts to work at server s.
SetsOff(o, j, row, view, s, touch, missed) ==
  /\ op'[o].pc = "read" /\ op'[o].job = j /\ op'[o].row = row /\ op'[o].srv = s
  /\ op'[o].list = Entries(view, s) /\ op'[o].active = (CntJobsActive(view, s) > 0)
  /\ op'[o].touch = touch /\ op'[o].missed = missed
  /\ \A x \in Ops \ {o} : /\ Stays(x)
                          /\ Served(x) => touch \subseteq op'[x].missed

LEMMA IdleTouch == IdleOp.touch = {} /\ IdleOp.missed = {}
BY DEF IdleOp

LEMMA StoppedMore ==
  ASSUME TypeOK, NEW o \in Ops, NEW cs \in SUBSET Sent(o), op'[o] = Stopped(o, cs)
  PROVE  Ends(o) /\ (cs = {} => op'[o].pc = "idle")
<1>1. CASE cs = {}
  BY <1>1, IdleFields, IdleTouch DEF Stopped, Ends
<1>2. CASE cs # {}
  <2>1. Sent(o) # {}
    BY <1>2
  <2>2. PastWrite(o) \/ op[o].pc = "left"
    <3>1. op[o].pc \in {"idle", "write"} => op[o].left = {}
      BY DEF TypeOK, WellFormed
    <3> QED
      BY <2>1, <3>1 DEF Sent, PastWrite
  <2>3. PICK srv, touch : srv = op[o].srv /\ touch = {srv}
    OBVIOUS
  <2>4. op'[o] = [IdleOp EXCEPT !.pc = "left", !.srv = srv, !.left = cs, !.touch = touch]
    BY <1>2, <2>3 DEF Stopped
  <2>5. /\ op'[o].pc = "left" /\ op'[o].row = None /\ op'[o].srv = srv
        /\ op'[o].touch = touch
    BY <2>4 DEF IdleOp
  <2> QED
    BY <1>2, <2>1, <2>2, <2>3, <2>5 DEF Ends
<1> QED
  BY <1>1, <1>2

LEMMA EndsIdle == ASSUME NEW o \in Ops, op'[o] = IdleOp PROVE Ends(o)
BY IdleFields, IdleTouch DEF Ends

LEMMA Unchanged == ASSUME NEW x \in Ops, op'[x] = op[x] PROVE Stays(x)
BY DEF Stays, Knows

LEMMA GotoMore ==
  ASSUME TypeOK, NEW o \in Ops, PastWrite(o),
         NEW pc \in {"read", "init_file", "init_apply", "dirs", "scripts", "stage", "apply",
                     "schedule", "commit"},
         Goto(o, pc)
  PROVE  /\ op'[o].pc = pc /\ Goes(o) /\ \A x \in Ops \ {o} : op'[x] = op[x]
<1>1. op[o] \in OpState /\ op \in [Ops -> OpState]
  BY DEF TypeOK
<1>2. PICK n : n = [op[o] EXCEPT !.pc = pc]
  OBVIOUS
<1>3. /\ n.pc = pc /\ n.job = op[o].job /\ n.view = op[o].view /\ n.gone = op[o].gone
      /\ n.row = op[o].row /\ n.srv = op[o].srv /\ n.list = op[o].list
      /\ n.active = op[o].active /\ n.touch = op[o].touch /\ n.missed = op[o].missed
  BY <1>1, <1>2 DEF OpState
<1>4. op' = [op EXCEPT ![o] = n]
  BY <1>2 DEF Goto
<1>5. op'[o] = n /\ \A x \in Ops \ {o} : op'[x] = op[x]
  BY <1>1, <1>4
<1> QED
  BY <1>3, <1>5 DEF Goes, Knows

LEMMA ToldMore ==
  ASSUME TypeOK, NEW o \in Ops, NEW t \in SUBSET Servers, op'[o] = Told(o, t)
  PROVE  Stays(o) /\ (Served(o) => t \subseteq op'[o].missed)
<1>1. op[o] \in OpState /\ (Served(o) <=> op[o].job # None)
  BY DEF TypeOK, WellFormed, Served
<1>2. CASE op[o].job = None
  BY <1>1, <1>2, Unchanged DEF Told
<1>3. CASE op[o].job # None
  <2>1. PICK n : n = [op[o] EXCEPT !.missed = @ \union t]
    OBVIOUS
  <2>2. /\ n.pc = op[o].pc /\ n.job = op[o].job /\ n.view = op[o].view
        /\ n.gone = op[o].gone /\ n.row = op[o].row /\ n.srv = op[o].srv
        /\ n.list = op[o].list /\ n.active = op[o].active /\ n.touch = op[o].touch
        /\ n.missed = op[o].missed \union t
    BY <1>1, <2>1 DEF OpState
  <2>3. op'[o] = n
    BY <1>3, <2>1 DEF Told
  <2> QED
    BY <2>2, <2>3 DEF Stays, Knows
<1> QED
  BY <1>2, <1>3

LEMMA SetOff ==
  ASSUME TypeOK, NEW o \in Ops, NEW j, NEW row, NEW view, NEW s, NEW holds,
         NEW touch \in SUBSET Servers, NEW missed,
         StartSync(o, j, row, view, s, holds, touch, missed)
  PROVE  SetsOff(o, j, row, view, s, touch, missed)
<1>1. PICK list, active : list = Entries(view, s) /\ active = (CntJobsActive(view, s) > 0)
  OBVIOUS
<1>2. PICK n : n = [IdleOp EXCEPT !.pc = "read", !.job = j, !.row = row, !.srv = s,
                                  !.list = list, !.active = active, !.holds = holds,
                                  !.touch = touch, !.missed = missed]
  OBVIOUS
<1>3. /\ n.pc = "read" /\ n.job = j /\ n.row = row /\ n.srv = s /\ n.list = list
      /\ n.active = active /\ n.touch = touch /\ n.missed = missed
  BY <1>2 DEF IdleOp
<1>4. op' = [x \in Ops |-> IF x = o THEN n ELSE Told(x, touch)]
  BY <1>1, <1>2 DEF StartSync
<1>5. op'[o] = n /\ \A x \in Ops \ {o} : op'[x] = Told(x, touch)
  BY <1>4
<1>6. \A x \in Ops \ {o} : Stays(x) /\ (Served(x) => touch \subseteq op'[x].missed)
  BY <1>5, ToldMore
<1> QED
  BY <1>1, <1>3, <1>5, <1>6 DEF SetsOff

\* A request that begins.
LEMMA BeginMore ==
  ASSUME TypeOK, NEW o \in Ops, NEW j \in Jobs, Begin(o, j)
  PROVE  /\ op'[o].pc = "write" /\ op'[o].job = j /\ op'[o].view = jobs
         /\ op'[o].gone = sshDeleted /\ op'[o].row = None /\ op'[o].srv = None
         /\ op'[o].touch = {} /\ op'[o].missed = Busy
         /\ op[o].pc = "idle" /\ \A x \in Ops \ {o} : op'[x] = op[x]
<1>1. PICK n : n = [IdleOp EXCEPT !.pc = "write", !.job = j, !.view = jobs,
                                  !.gone = sshDeleted, !.missed = Busy]
  OBVIOUS
<1>2. /\ n.pc = "write" /\ n.job = j /\ n.view = jobs /\ n.gone = sshDeleted
      /\ n.row = None /\ n.srv = None /\ n.touch = {} /\ n.missed = Busy
  BY <1>1 DEF IdleOp
<1>3. op' = [op EXCEPT ![o] = n] /\ op[o].pc = "idle"
  BY <1>1 DEF Begin
<1>4. op'[o] = n /\ \A x \in Ops \ {o} : op'[x] = op[x]
  BY <1>3 DEF TypeOK
<1> QED
  BY <1>2, <1>3, <1>4

\* A request that creates a job sees it beside the rows of the table.
LEMMA CreateMore ==
  ASSUME TypeOK, NEW o \in Ops, Create(o)
  PROVE  /\ op[o].pc = "idle"
         /\ \/ op' = op
            \/ \E j \in fresh, s \in Servers, row \in Row :
                 /\ row.ssh = s /\ s \notin sshDeleted
                 /\ SetsOff(o, j, row, [jobs EXCEPT ![j] = row], s, {s}, Busy)
<1>1. PICK j, s, b, row :
        /\ j \in fresh /\ s \in Servers /\ b \in Bodies
        /\ row = [ssh |-> s, body |-> b, isActive |-> 1, isDel |-> 0]
        /\ \/ /\ s \notin sshDeleted
              /\ StartSync(o, j, row, [jobs EXCEPT ![j] = row], s, {s}, {s}, Busy)
           \/ op' = op
  BY DEF Create
<1>2. row \in Row /\ row.ssh = s /\ {s} \in SUBSET Servers
  BY <1>1 DEF Row
<1>3. CASE /\ s \notin sshDeleted
           /\ StartSync(o, j, row, [jobs EXCEPT ![j] = row], s, {s}, {s}, Busy)
  <2>1. PICK view, busy, t : view = [jobs EXCEPT ![j] = row] /\ busy = Busy /\ t = {s}
    OBVIOUS
  <2>2. t \in SUBSET Servers /\ StartSync(o, j, row, view, s, t, t, busy)
    BY <1>2, <1>3, <2>1
  <2>3. SetsOff(o, j, row, view, s, t, busy)
    BY <2>2, SetOff
  <2> QED
    BY <1>1, <1>2, <1>3, <2>1, <2>3 DEF Create
<1> QED
  BY <1>1, <1>3 DEF Create

\* A request that writes sees its row beside those of its snapshot, or its snapshot as it
\* is, and works at the servers of the row, before and after.
Writes(o, row, view, s, touch) ==
  /\ row \in Row \union {None} /\ s \in Servers /\ touch \in SUBSET Servers
  /\ s \notin op[o].gone
  /\ row = None => view = op[o].view
  /\ row # None => view = [op[o].view EXCEPT ![op[o].job] = row] /\ row.ssh \in touch
  /\ s \in touch /\ jobs[op[o].job].ssh \in touch
  /\ SetsOff(o, op[o].job, row, view, s, touch, op[o].missed)

Gives(o) == op'[o] = IdleOp /\ \A x \in Ops \ {o} : op'[x] = op[x]
Halts(o) == Ends(o) /\ \A x \in Ops \ {o} : op'[x] = op[x]

LEMMA PatchMore ==
  ASSUME TypeOK, NEW o \in Ops, Patch(o)
  PROVE  Gives(o) \/ \E row, view, s, touch : Writes(o, row, view, s, touch)
<1>1. PICK j, old : j = op[o].job /\ old = op[o].view
  OBVIOUS
<1>2. /\ j \in Jobs /\ old \in View /\ jobs[j] \in Row /\ old[j] \in Row
  BY <1>1, Writing DEF Patch
<1>3. PICK d, new, row, view, s, holds :
        /\ d \in Requests /\ new = Patched(jobs[j], d)
        /\ row = IF new = jobs[j] THEN None ELSE new
        /\ view = IF new = jobs[j] THEN old ELSE [old EXCEPT ![j] = new]
        /\ s = view[j].ssh
        /\ \/ /\ s \notin op[o].gone
              /\ StartSync(o, j, row, view, s, holds, {old[j].ssh, jobs[j].ssh, s}, op[o].missed)
           \/ op' = [op EXCEPT ![o] = IdleOp]
  <2> DEFINE new(d) == Patched(jobs[op[o].job], d)
             row(d) == IF new(d) = jobs[op[o].job] THEN None ELSE new(d)
             view(d) == IF new(d) = jobs[op[o].job] THEN op[o].view
                        ELSE [op[o].view EXCEPT ![op[o].job] = new(d)]
             s(d) == view(d)[op[o].job].ssh
             holds(d) == IF s(d) # jobs[op[o].job].ssh THEN {s(d)} ELSE {}
  <2>1. PICK d \in Requests :
          \/ /\ s(d) \notin op[o].gone
             /\ StartSync(o, op[o].job, row(d), view(d), s(d), holds(d),
                          {op[o].view[op[o].job].ssh, jobs[op[o].job].ssh, s(d)}, op[o].missed)
          \/ op' = [op EXCEPT ![o] = IdleOp]
    BY Zenon DEF Patch
  <2>2. PICK n, r, v, t, h : n = new(d) /\ r = row(d) /\ v = view(d) /\ t = s(d) /\ h = holds(d)
    OBVIOUS
  <2>3. /\ n = Patched(jobs[j], d)
        /\ r = IF n = jobs[j] THEN None ELSE n
        /\ v = IF n = jobs[j] THEN old ELSE [old EXCEPT ![j] = n]
        /\ t = v[j].ssh
    BY <1>1, <2>2
  <2> HIDE DEF new, row, view, s, holds
  <2>4. \/ /\ t \notin op[o].gone
           /\ StartSync(o, j, r, v, t, h, {old[j].ssh, jobs[j].ssh, t}, op[o].missed)
        \/ op' = [op EXCEPT ![o] = IdleOp]
    BY <1>1, <2>1, <2>2
  <2> QED
    BY <2>3, <2>4
<1>4. new \in Row
  BY <1>2, <1>3, PatchedType
<1>5. /\ row \in Row \union {None} /\ s \in Servers
      /\ row = None => view = old
      /\ row # None => view = [old EXCEPT ![j] = row] /\ row.ssh = s
  BY <1>2, <1>3, <1>4, JobSyncAssumption DEF View, Row
<1>6. CASE op' = [op EXCEPT ![o] = IdleOp]
  BY <1>6 DEF Gives, TypeOK
<1>7. CASE /\ s \notin op[o].gone
           /\ StartSync(o, j, row, view, s, holds, {old[j].ssh, jobs[j].ssh, s}, op[o].missed)
  <2>1. PICK t, m : t = {old[j].ssh, jobs[j].ssh, s} /\ m = op[o].missed
    OBVIOUS
  <2>2. t \in SUBSET Servers /\ s \in t /\ jobs[j].ssh \in t
    BY <1>2, <1>5, <2>1 DEF Row
  <2>3. StartSync(o, j, row, view, s, holds, t, m)
    BY <1>7, <2>1
  <2>4. SetsOff(o, j, row, view, s, t, m)
    BY <2>2, <2>3, SetOff
  <2>5. Writes(o, row, view, s, t)
    BY <1>1, <1>5, <1>7, <2>1, <2>2, <2>4 DEF Writes
  <2> QED
    BY <2>5
<1> QED
  BY <1>3, <1>6, <1>7

LEMMA DeleteMore ==
  ASSUME TypeOK, NEW o \in Ops, Delete(o)
  PROVE  Gives(o) \/ \E row, view, s, touch : Writes(o, row, view, s, touch)
<1>1. PICK j, old : j = op[o].job /\ old = op[o].view
  OBVIOUS
<1>2. /\ j \in Jobs /\ old \in View /\ jobs[j] \in Row /\ old[j] \in Row
  BY <1>1, Writing DEF Delete
<1>3. PICK new, row, view, s :
        /\ new = [jobs[j] EXCEPT !.isDel = 1]
        /\ row = IF jobs[j].isDel = 0 THEN new ELSE None
        /\ view = IF jobs[j].isDel = 0 THEN [old EXCEPT ![j] = new] ELSE old
        /\ s = old[j].ssh
        /\ \/ /\ s \notin op[o].gone
              /\ StartSync(o, j, row, view, s, {}, {s, jobs[j].ssh}, op[o].missed)
           \/ op' = [op EXCEPT ![o] = IdleOp]
  BY <1>1 DEF Delete
<1>4. new \in Row /\ new.ssh = jobs[j].ssh
  BY <1>2, <1>3 DEF Row
<1>5. /\ row \in Row \union {None} /\ s \in Servers
      /\ row = None => view = old
      /\ row # None => view = [old EXCEPT ![j] = row] /\ row.ssh = jobs[j].ssh
  BY <1>2, <1>3, <1>4, JobSyncAssumption DEF Row
<1>6. CASE op' = [op EXCEPT ![o] = IdleOp]
  BY <1>6 DEF Gives, TypeOK
<1>7. CASE /\ s \notin op[o].gone
           /\ StartSync(o, j, row, view, s, {}, {s, jobs[j].ssh}, op[o].missed)
  <2>1. PICK t, m, h : t = {s, jobs[j].ssh} /\ m = op[o].missed /\ h = {}
    OBVIOUS
  <2>2. t \in SUBSET Servers /\ s \in t /\ jobs[j].ssh \in t
    BY <1>2, <1>5, <2>1 DEF Row
  <2>3. StartSync(o, j, row, view, s, h, t, m)
    BY <1>7, <2>1
  <2>4. SetsOff(o, j, row, view, s, t, m)
    BY <2>2, <2>3, SetOff
  <2>5. Writes(o, row, view, s, t)
    BY <1>1, <1>5, <1>7, <2>1, <2>2, <2>4 DEF Writes
  <2> QED
    BY <2>5
<1> QED
  BY <1>3, <1>6, <1>7

-----------------------------------------------------------------------------
(* Who changes what. *)

LEMMA SyncMore ==
  ASSUME TypeOK, NEW o \in Ops, Sync(o)
  PROVE  /\ PastWrite(o)
         /\ \/ Commit(o) /\ Gives(o)
            \/ Goes(o) /\ \A x \in Ops \ {o} : op'[x] = op[x]
<1> USE DEF PastWrite
<1>0. ASSUME NEW pc \in {"read", "init_file", "init_apply", "dirs", "scripts", "stage",
                         "apply", "schedule", "commit"},
             PastWrite(o), Goto(o, pc)
      PROVE  Goes(o) /\ \A x \in Ops \ {o} : op'[x] = op[x]
  BY <1>0, GotoMore
<1>1. CASE ReadCron(o)
  <2>1. PICK pc \in {"dirs", "init_file"} : Goto(o, pc)
    BY <1>1 DEF ReadCron
  <2> QED
    BY <1>0, <1>1, <2>1 DEF ReadCron
<1>2. CASE InitCronFile(o)
  BY <1>0, <1>2 DEF InitCronFile
<1>3. CASE ApplyInitFile(o) \/ ApplyCron(o)
  BY <1>0, <1>3 DEF ApplyInitFile, ApplyCron, ApplyCronFile
<1>4. CASE CreateLogDirs(o)
  BY <1>0, <1>4 DEF CreateLogDirs
<1>5. CASE SetJobScripts(o)
  BY <1>0, <1>5 DEF SetJobScripts
<1>6. CASE SetCronFile(o)
  BY <1>0, <1>6 DEF SetCronFile
<1>7. CASE Reschedule(o)
  BY <1>0, <1>7 DEF Reschedule
<1>8. CASE Commit(o)
  BY <1>8 DEF Commit, Gives, TypeOK
<1> QED
  BY <1>1, <1>2, <1>3, <1>4, <1>5, <1>6, <1>7, <1>8 DEF Sync

LEMMA AbortMore == ASSUME TypeOK, NEW o \in Ops, Abort(o) PROVE Halts(o)
<1>1. PICK cs \in SUBSET Sent(o) : op' = [op EXCEPT ![o] = Stopped(o, cs)]
  BY DEF Abort
<1> QED
  BY <1>1, StoppedMore DEF Halts, TypeOK

LEMMA LandMore ==
  ASSUME TypeOK, NEW o \in Ops, Land(o)
  PROVE  /\ Halts(o) /\ op[o].pc = "left"
         /\ disturbed' = disturbed /\ UNCHANGED <<dbVars, delete, memVars>>
<1>1. PICK c \in op[o].left : op' = [op EXCEPT ![o] = Stopped(o, op[o].left \ {c})]
  BY DEF Land
<1>2. op[o].pc = "left" /\ op[o].left = Sent(o)
  BY <1>1 DEF TypeOK, WellFormed, Sent
<1>3. op[o].left \ {c} \in SUBSET Sent(o)
  BY <1>2
<1>4. Halts(o)
  BY <1>1, <1>3, StoppedMore DEF Halts, TypeOK
<1> QED
  BY <1>2, <1>4 DEF Land

LEMMA CrashMore == ASSUME TypeOK, Crash PROVE \A x \in Ops : Ends(x)
<1>1. PICK cs : op' = [o \in Ops |-> Stopped(o, Sent(o) \intersect cs)]
  BY DEF Crash
<1> QED
  BY <1>1, StoppedMore

\* Most steps leave every request as it was, let it go on or end it.
LEMMA UsualKinds ==
  ASSUME TypeOK, [Next]_vars
  PROVE  \/ \A x \in Ops : Usual(x)
         \/ \E o \in Ops, j \in Jobs : Begin(o, j)
         \/ \E o \in Ops : Create(o)
         \/ \E o \in Ops : /\ op[o].pc = "write" /\ Write(o)
                           /\ \E row, view, s, touch : Writes(o, row, view, s, touch)
<1>0. ASSUME op' = op PROVE \A x \in Ops : Usual(x)
  BY <1>0, Unchanged DEF Usual
<1>1. ASSUME NEW o \in Ops, Gives(o) \/ Halts(o) PROVE \A x \in Ops : Usual(x)
  BY <1>1, Unchanged, EndsIdle DEF Gives, Halts, Usual
<1>2. ASSUME NEW t \in SUBSET Servers, op' = [x \in Ops |-> Told(x, t)]
      PROVE  \A x \in Ops : Usual(x)
  BY <1>2, ToldMore DEF Usual
<1>3. ASSUME NEW o \in Ops, Write(o)
      PROVE  \/ \A x \in Ops : Usual(x)
             \/ op[o].pc = "write" /\ \E row, view, s, touch : Writes(o, row, view, s, touch)
  <2>1. op[o].pc = "write"
    BY <1>3 DEF Write, Patch, Delete
  <2> QED
    BY <1>1, <1>3, <2>1, PatchMore, DeleteMore DEF Write
<1>4. ASSUME NEW o \in Ops, Sync(o) PROVE \A x \in Ops : Usual(x)
  <2>1. CASE Gives(o)
    BY <1>1, <2>1
  <2>2. CASE Goes(o) /\ \A x \in Ops \ {o} : op'[x] = op[x]
    BY <2>2, Unchanged DEF Usual
  <2> QED
    BY <1>4, <2>1, <2>2, SyncMore
<1>5. ASSUME NEW o \in Ops, Abort(o) \/ Land(o) PROVE \A x \in Ops : Usual(x)
  BY <1>1, <1>5, AbortMore, LandMore
<1>6. ASSUME NEW s \in Servers, CheckDelete(s) PROVE \A x \in Ops : Usual(x)
  <2>1. {s} \in SUBSET Servers /\ op' = [x \in Ops |-> Told(x, {s})]
    BY <1>6 DEF CheckDelete
  <2> QED
    BY <1>2, <2>1
<1>7. ASSUME NEW s \in Servers, WriteDelete(s) \/ EndDelete(s) \/ FailDelete(s)
      PROVE  \A x \in Ops : Usual(x)
  BY <1>0, <1>7 DEF WriteDelete, EndDelete, FailDelete, dbVars
<1>8. CASE BootRead
  BY <1>2, <1>8 DEF BootRead
<1>9. CASE BootSchedule \/ BootFails
  BY <1>0, <1>9 DEF BootSchedule, BootFails
<1>10. CASE Crash
  BY <1>10, CrashMore DEF Usual
<1>11. CASE UNCHANGED vars
  BY <1>0, <1>11 DEF vars
<1> QED
  BY <1>3, <1>4, <1>5, <1>6, <1>7, <1>8, <1>9, <1>10, <1>11 DEF Next, Step

\* Rows change at a commit, ...
LEMMA TableKinds ==
  ASSUME TypeOK, [Next]_vars
  PROVE  jobs' = jobs \/ \E x \in Ops : Commit(x)
BY StepKinds DEF TameStep, Begin, Create, Write, Patch, Delete, dbVars

\* ... at the servers of the request alone.
LEMMA CommitAt ==
  ASSUME TypeOK, NEW x \in Ops, Touches(x), Commit(x), NEW s, s \notin op[x].touch
  PROVE  Agree(jobs, jobs', s)
<1>1. PICK j, row : j = op[x].job /\ row = op[x].row
  OBVIOUS
<1>2. jobs \in View
  BY DEF TypeOK, View
<1>3. CASE row = None
  BY <1>1, <1>3 DEF Commit, Agree
<1>4. CASE row # None
  <2>1. row.ssh # s /\ (jobs[j] # None => jobs[j].ssh # s)
    BY <1>1, <1>4 DEF Touches
  <2>2. \A i \in Jobs : jobs'[i] = IF i = j THEN row ELSE jobs[i]
    BY <1>1, <1>2, <1>4 DEF Commit, View
  <2> QED
    BY <2>1, <2>2 DEF Agree, On
<1> QED
  BY <1>3, <1>4

\* The row of a server is deleted by the request that has checked it.
LEMMA GoneKinds ==
  ASSUME TypeOK, [Next]_vars, NEW s \in Servers
  PROVE  (s \in sshDeleted' <=> s \in sshDeleted) \/ delete[s] # "no"
BY DEF Next, Step, Write, Sync, Begin, Create, Patch, Delete, ReadCron, InitCronFile, ApplyInitFile,
       CreateLogDirs, SetJobScripts, SetCronFile, ApplyCron, ApplyCronFile, Reschedule, Commit,
       Abort, Land, CheckDelete, WriteDelete, EndDelete, FailDelete, BootRead, BootSchedule,
       BootFails, Crash, vars, dbVars

\* Deletions and the start-up tell the requests.
LEMMA WarnKinds ==
  ASSUME TypeOK, [Next]_vars
  PROVE  /\ \A s \in Servers : delete'[s] # "no" => delete[s] # "no" \/ CheckDelete(s)
         /\ boot' = "read" => boot = "read" \/ BootRead
<1> USE DEF TypeOK
<1>1. ASSUME NEW o \in Ops, Create(o) \/ Write(o) \/ Sync(o) \/ Abort(o) \/ Land(o)
      PROVE  delete' = delete /\ boot' = boot
  BY <1>1 DEF Write, Sync, Create, Patch, Delete, ReadCron, InitCronFile, ApplyInitFile,
       CreateLogDirs, SetJobScripts, SetCronFile, ApplyCron, ApplyCronFile, Reschedule, Commit,
       Abort, Land, memVars
<1>2. ASSUME NEW o \in Ops, NEW j \in Jobs, Begin(o, j) PROVE delete' = delete /\ boot' = boot
  BY <1>2 DEF Begin, memVars
<1>3. ASSUME NEW s \in Servers, CheckDelete(s)
      PROVE  boot' = boot /\ \A t \in Servers : t # s => delete'[t] = delete[t]
  BY <1>3 DEF CheckDelete, memVars
<1>4. ASSUME NEW s \in Servers, WriteDelete(s) \/ EndDelete(s) \/ FailDelete(s)
      PROVE  boot' = boot /\ \A t \in Servers : delete[t] = "no" => delete'[t] = "no"
  BY <1>4 DEF WriteDelete, EndDelete, FailDelete, memVars
<1>5. CASE BootRead
  BY <1>5 DEF BootRead
<1>6. CASE BootSchedule \/ BootFails
  BY <1>6 DEF BootSchedule, BootFails
<1>7. CASE Crash
  BY <1>7 DEF Crash
<1>8. CASE UNCHANGED vars
  BY <1>8 DEF vars, memVars
<1> QED
  BY <1>1, <1>2, <1>3, <1>4, <1>5, <1>6, <1>7, <1>8 DEF Next, Step

-----------------------------------------------------------------------------
(* What the requests know of each other. *)

Hist == Apart /\ \A o \in Ops : Touches(o) /\ Warned(o) /\ Informed(o)

LEMMA UsualLives ==
  ASSUME NEW x \in Ops, Usual(x), Served(x)'
  PROVE  /\ Knows(x) /\ Served(x)
         /\ PastWrite(x)' <=> PastWrite(x)
         /\ op'[x].pc = "write" => op[x].pc = "write"
BY DEF Usual, Ends, Stays, Goes, PastWrite, Served

LEMMA UsualTouch ==
  ASSUME NEW x \in Ops, Touches(x), Usual(x) PROVE op'[x].touch \subseteq op[x].touch
BY DEF Touches, Usual, Ends, Stays, Goes, Knows

LEMMA StaysUsual == ASSUME NEW x \in Ops, Stays(x) PROVE Usual(x)
BY DEF Usual

\* What all requests in flight work at.
LEMMA BusyTouches ==
  /\ \A x \in Ops : op[x].pc # "idle" => op[x].touch \subseteq Busy
  /\ \A s \in Servers : delete[s] # "no" => s \in Busy
  /\ boot = "read" => Servers \subseteq Busy
BY DEF Busy, InFlight

LEMMA ApartStep == TypeOK /\ Hist /\ [Next]_vars => Apart'
<1> SUFFICES ASSUME TypeOK, Hist, [Next]_vars, NEW o \in Ops, NEW x \in Ops, o # x,
                    Served(o)'
             PROVE  op'[x].touch \subseteq op'[o].missed
  BY DEF Apart
<1>1. /\ Served(o) => op[x].touch \subseteq op[o].missed
      /\ op[x].pc = "idle" => op[x].touch = {}
  BY DEF Hist, Apart, Touches
<1>2. ASSUME Usual(o), Usual(x) PROVE op'[x].touch \subseteq op'[o].missed
  BY <1>1, <1>2, UsualLives, UsualTouch DEF Knows, Hist
<1>3. CASE \A y \in Ops : Usual(y)
  BY <1>2, <1>3
<1>4. ASSUME NEW y \in Ops, NEW j \in Jobs, Begin(y, j)
      PROVE  op'[x].touch \subseteq op'[o].missed
  <2>1. /\ op'[y].touch = {} /\ op'[y].missed = Busy
        /\ \A z \in Ops \ {y} : op'[z] = op[z]
    BY <1>4, BeginMore
  <2>2. CASE y = o
    BY <1>1, <2>1, <2>2, BusyTouches
  <2>3. CASE y # o
    BY <1>1, <2>1, <2>3 DEF Served
  <2> QED
    BY <2>2, <2>3
<1>5. ASSUME NEW y \in Ops, NEW j, NEW row, NEW view, NEW s, NEW t, NEW m,
             SetsOff(y, j, row, view, s, t, m), op[x].touch \subseteq m \/ y # o
      PROVE  op'[x].touch \subseteq op'[o].missed
  <2>1. /\ op'[y].touch = t /\ op'[y].missed = m
        /\ \A z \in Ops \ {y} : Stays(z) /\ (Served(z) => t \subseteq op'[z].missed)
    BY <1>5 DEF SetsOff
  <2>2. CASE y = o
    BY <1>5, <2>1, <2>2 DEF Stays, Knows
  <2>3. CASE y = x
    BY <2>1, <2>3 DEF Stays, Served
  <2>4. CASE y # o /\ y # x
    BY <1>2, <2>1, <2>4, StaysUsual
  <2> QED
    BY <2>2, <2>3, <2>4
<1>6. ASSUME NEW y \in Ops, Create(y) PROVE op'[x].touch \subseteq op'[o].missed
  <2>1. CASE op' = op
    BY <1>1, <2>1 DEF Served
  <2>2. CASE \E j, row, view, s, t : SetsOff(y, j, row, view, s, t, Busy)
    <3>1. PICK j, row, view, s, t, m : m = Busy /\ SetsOff(y, j, row, view, s, t, m)
      BY <2>2
    <3>2. op[x].touch \subseteq m
      BY <1>1, <3>1, BusyTouches
    <3> QED
      BY <1>5, <3>1, <3>2
  <2> QED
    BY <1>6, <2>1, <2>2, CreateMore
<1>7. ASSUME NEW y \in Ops, op[y].pc = "write",
             \E row, view, s, touch : Writes(y, row, view, s, touch)
      PROVE  op'[x].touch \subseteq op'[o].missed
  <2>1. PICK row, view, s, t, j, m :
          m = op[y].missed /\ j = op[y].job /\ SetsOff(y, j, row, view, s, t, m)
    BY <1>7 DEF Writes
  <2>2. op[x].touch \subseteq m \/ y # o
    BY <1>1, <1>7, <2>1 DEF Served
  <2> QED
    BY <1>5, <2>1, <2>2
<1> QED
  BY <1>3, <1>4, <1>6, <1>7, UsualKinds

LEMMA WarnedStep == TypeOK /\ Hist /\ [Next]_vars => \A o \in Ops : Warned(o)'
<1> SUFFICES ASSUME TypeOK, Hist, [Next]_vars, NEW o \in Ops, Served(o)'
             PROVE  /\ \A s \in Servers : delete'[s] # "no" => s \in op'[o].missed
                    /\ boot' = "read" => Servers \subseteq op'[o].missed
  BY DEF Warned
<1> DEFINE Goal == /\ \A s \in Servers : delete'[s] # "no" => s \in op'[o].missed
                   /\ boot' = "read" => Servers \subseteq op'[o].missed
<1>1. Served(o) =>
        /\ \A s \in Servers : delete[s] # "no" => s \in op[o].missed
        /\ boot = "read" => Servers \subseteq op[o].missed
  BY DEF Hist, Warned
<1>2. ASSUME \A s \in Servers : delete[s] # "no" => s \in op'[o].missed,
             boot = "read" => Servers \subseteq op'[o].missed
      PROVE  Goal
  <2>1. ASSUME NEW s \in Servers, CheckDelete(s) PROVE s \in op'[o].missed
    <3>1. PICK t : t = {s}
      OBVIOUS
    <3>2. t \in SUBSET Servers /\ op'[o] = Told(o, t)
      BY <2>1, <3>1 DEF CheckDelete
    <3>3. Served(o)
      BY <3>2, ToldMore DEF Stays, Served
    <3> QED
      BY <3>1, <3>2, <3>3, ToldMore
  <2>2. BootRead => Servers \subseteq op'[o].missed
    <3> SUFFICES ASSUME BootRead PROVE Servers \subseteq op'[o].missed
      OBVIOUS
    <3>1. op'[o] = Told(o, Servers)
      BY DEF BootRead
    <3>2. Served(o)
      BY <3>1, ToldMore DEF Stays, Served
    <3> QED
      BY <3>1, <3>2, ToldMore
  <2> QED
    BY <1>2, <2>1, <2>2, WarnKinds
<1>3. ASSUME Usual(o) PROVE Goal
  <2>1. Knows(o) /\ Served(o)
    BY <1>3, UsualLives
  <2> QED
    BY <1>1, <1>2, <2>1 DEF Knows
<1>4. ASSUME op'[o].missed = Busy PROVE Goal
  BY <1>2, <1>4, BusyTouches
<1>5. ASSUME op'[o].missed = op[o].missed, Served(o) PROVE Goal
  BY <1>1, <1>2, <1>5
<1> HIDE DEF Goal
<1>6. ASSUME NEW y \in Ops, NEW j \in Jobs, Begin(y, j) PROVE Goal
  <2>1. op'[y].missed = Busy /\ \A z \in Ops \ {y} : op'[z] = op[z]
    BY <1>6, BeginMore
  <2> QED
    BY <1>3, <1>4, <2>1, Unchanged, StaysUsual
<1>7. ASSUME NEW y \in Ops, Create(y) PROVE Goal
  <2>1. CASE op' = op
    BY <1>3, <2>1, Unchanged, StaysUsual
  <2>2. CASE op' # op
    <3>1. op'[y].missed = Busy /\ \A z \in Ops \ {y} : Stays(z)
      BY <1>7, <2>2, CreateMore DEF SetsOff
    <3> QED
      BY <1>3, <1>4, <3>1, StaysUsual
  <2> QED
    BY <2>1, <2>2
<1>8. ASSUME NEW y \in Ops, op[y].pc = "write",
             \E row, view, s, touch : Writes(y, row, view, s, touch)
      PROVE  Goal
  <2>1. op'[y].missed = op[y].missed /\ \A z \in Ops \ {y} : Stays(z)
    BY <1>8 DEF Writes, SetsOff
  <2> QED
    BY <1>3, <1>5, <1>8, <2>1, StaysUsual DEF Served
<1>9. Goal
  BY <1>3, <1>6, <1>7, <1>8, UsualKinds
<1> QED
  BY <1>9 DEF Goal

LEMMA TouchesStep == TypeOK /\ RowsLocked /\ Hist /\ [Next]_vars => \A o \in Ops : Touches(o)'
<1> SUFFICES ASSUME TypeOK, RowsLocked, Hist, [Next]_vars, NEW o \in Ops PROVE Touches(o)'
  OBVIOUS
<1>1. Touches(o) /\ \A x \in Ops : op[x].row # None => PastWrite(x)
  BY DEF Hist, TypeOK, WellFormed
<1>2. CASE Usual(o) /\ ~Served(o)'
  BY <1>1, <1>2, JobSyncAssumption DEF Usual, Ends, Stays, Goes, Knows, Touches, PastWrite, Served
<1>3. CASE Usual(o) /\ Served(o)'
  <2>1. /\ Knows(o) /\ Served(o) /\ (PastWrite(o)' <=> PastWrite(o))
        /\ op'[o].pc = "write" => op[o].pc = "write"
    BY <1>3, UsualLives
  <2>2. PICK j, row : j = op[o].job /\ row = op[o].row
    OBVIOUS
  <2>3. row # None => j \in Jobs /\ (jobs'[j] = jobs[j] \/ (jobs[j] = None /\ FALSE))
    <3> SUFFICES ASSUME row # None PROVE j \in Jobs /\ jobs'[j] = jobs[j]
      OBVIOUS
    <3>1. PastWrite(o) /\ j \in Jobs
      BY <1>1, <2>2, Working
    <3>2. ASSUME NEW x \in Ops, Commit(x) PROVE jobs'[j] = jobs[j]
      <4>1. x # o
        BY <1>3, <3>2, IdleFields DEF Commit, TypeOK, Served
      <4>2. PastWrite(x)
        BY <3>2 DEF Commit, PastWrite
      <4>3. op[x].job # j
        BY <2>2, <3>1, <4>1, <4>2 DEF RowsLocked
      <4> QED
        BY <3>1, <3>2, <4>3 DEF Commit, TypeOK
    <3> QED
      BY <3>1, <3>2, TableKinds
  <2>4. op'[o].job = j /\ op'[o].row = row /\ op'[o].touch = op[o].touch /\ op'[o].srv = op[o].srv
    BY <2>1, <2>2 DEF Knows
  <2> QED
    BY <1>1, <1>3, <2>1, <2>2, <2>3, <2>4 DEF Touches, Served
<1>4. ASSUME NEW y \in Ops, NEW j \in Jobs, Begin(y, j) PROVE Touches(o)'
  <2>1. /\ op'[y].pc = "write" /\ op'[y].touch = {} /\ op'[y].row = None
        /\ \A z \in Ops \ {y} : op'[z] = op[z]
    BY <1>4, BeginMore
  <2>2. CASE y = o
    BY <2>1, <2>2 DEF Touches, PastWrite
  <2> QED
    BY <1>2, <1>3, <2>1, <2>2, Unchanged, StaysUsual
<1>5. ASSUME NEW y \in Ops, Create(y) PROVE Touches(o)'
  <2>1. CASE op' = op
    BY <1>2, <1>3, <2>1, Unchanged, StaysUsual
  <2>2. CASE op' # op
    <3>1. PICK j, s, row :
            /\ j \in fresh /\ row.ssh = s
            /\ op'[y].pc = "read" /\ op'[y].job = j /\ op'[y].row = row /\ op'[y].srv = s
            /\ op'[y].touch = {s} /\ \A z \in Ops \ {y} : Stays(z)
      <4>1. PICK j \in fresh, s \in Servers, row \in Row :
              row.ssh = s /\ SetsOff(y, j, row, [jobs EXCEPT ![j] = row], s, {s}, Busy)
        BY <1>5, <2>2, CreateMore
      <4> QED
        BY <4>1 DEF SetsOff
    <3>2. jobs'[j] = None
      BY <1>5, <3>1 DEF Create, RowsLocked
    <3>3. CASE y = o
      BY <3>1, <3>2, <3>3 DEF Touches, PastWrite
    <3> QED
      BY <1>2, <1>3, <3>1, <3>3, StaysUsual
  <2> QED
    BY <2>1, <2>2
<1>6. ASSUME NEW y \in Ops, Write(y), \E row, view, s, touch : Writes(y, row, view, s, touch)
      PROVE  Touches(o)'
  <2>1. PICK row, s, t :
          /\ row # None => row.ssh \in t
          /\ s \in t /\ jobs[op[y].job].ssh \in t
          /\ op'[y].pc = "read" /\ op'[y].job = op[y].job /\ op'[y].row = row /\ op'[y].srv = s
          /\ op'[y].touch = t /\ \A z \in Ops \ {y} : Stays(z)
    BY <1>6 DEF Writes, SetsOff
  <2>2. jobs' = jobs
    BY <1>6 DEF Write, Patch, Delete, dbVars
  <2>3. CASE y = o
    BY <2>1, <2>2, <2>3 DEF Touches, PastWrite
  <2> QED
    BY <1>2, <1>3, <2>1, <2>3, StaysUsual
<1> QED
  BY <1>2, <1>3, <1>4, <1>5, <1>6, UsualKinds

LEMMA InformedStep == TypeOK /\ Hist /\ [Next]_vars => \A o \in Ops : Informed(o)'
<1> SUFFICES ASSUME TypeOK, Hist, [Next]_vars, NEW o \in Ops, op'[o].pc = "write",
                    NEW s \in Servers, s \notin op'[o].missed, Served(o)'
             PROVE  Agree(op'[o].view, jobs', s) /\ (s \in op'[o].gone <=> s \in sshDeleted')
  BY DEF Informed, Served
<1>1. CASE Usual(o)
  <2>1. Knows(o) /\ op[o].pc = "write" /\ s \notin op[o].missed
    BY <1>1, UsualLives DEF Knows
  <2>2. Agree(op[o].view, jobs, s) /\ (s \in op[o].gone <=> s \in sshDeleted)
    BY <2>1 DEF Hist, Informed
  <2>3. Agree(jobs, jobs', s)
    <3>1. CASE jobs' = jobs
      BY <3>1 DEF Agree
    <3>2. ASSUME NEW x \in Ops, Commit(x) PROVE Agree(jobs, jobs', s)
      <4>1. x # o
        BY <2>1, <3>2 DEF Commit
      <4>2. s \notin op[x].touch
        BY <2>1, <4>1 DEF Hist, Apart, Served
      <4>3. Touches(x)
        BY DEF Hist
      <4> QED
        BY <3>2, <4>2, <4>3, CommitAt
    <3> QED
      BY <3>1, <3>2, TableKinds
  <2>4. s \in sshDeleted' <=> s \in sshDeleted
    <3>1. delete[s] = "no"
      BY <2>1 DEF Hist, Warned, Served
    <3> QED
      BY <3>1, GoneKinds
  <2>5. Agree(op[o].view, jobs', s)
    BY <2>2, <2>3, AgreeTrans
  <2> QED
    BY <2>1, <2>2, <2>4, <2>5 DEF Knows
<1>2. ASSUME NEW y \in Ops, NEW j \in Jobs, Begin(y, j)
      PROVE  Agree(op'[o].view, jobs', s) /\ (s \in op'[o].gone <=> s \in sshDeleted')
  <2>1. /\ op'[y].view = jobs /\ op'[y].gone = sshDeleted
        /\ \A z \in Ops \ {y} : op'[z] = op[z]
    BY <1>2, BeginMore
  <2>2. jobs' = jobs /\ sshDeleted' = sshDeleted
    BY <1>2 DEF Begin, dbVars
  <2>3. CASE y = o
    BY <2>1, <2>2, <2>3 DEF Agree
  <2> QED
    BY <1>1, <2>1, <2>3, Unchanged, StaysUsual
<1>3. ASSUME NEW y \in Ops,
             \/ op' = op
             \/ \E j, row, view, t, touch, m : SetsOff(y, j, row, view, t, touch, m)
      PROVE  Usual(o)
  <2>1. CASE op' = op
    BY <2>1, Unchanged, StaysUsual
  <2>2. ASSUME NEW j, NEW row, NEW view, NEW t, NEW touch, NEW m,
               SetsOff(y, j, row, view, t, touch, m)
        PROVE  Usual(o)
    <3>1. op'[y].pc = "read" /\ \A z \in Ops \ {y} : Stays(z)
      BY <2>2 DEF SetsOff
    <3> QED
      BY <3>1, StaysUsual
  <2> QED
    BY <1>3, <2>1, <2>2
<1>4. ASSUME NEW y \in Ops, Create(y) PROVE Usual(o)
  BY <1>3, <1>4, CreateMore
<1>5. ASSUME NEW y \in Ops, \E row, view, t, touch : Writes(y, row, view, t, touch)
      PROVE  Usual(o)
  BY <1>3, <1>5 DEF Writes
<1> QED
  BY <1>1, <1>2, <1>4, <1>5, UsualKinds

-----------------------------------------------------------------------------
(* A server where nobody acts stays as it is. *)

\* A request past its write that does not act stays where it is.
LEMMA OthersStay ==
  ASSUME TypeOK, [Next]_vars, NEW o \in Ops, PastWrite(o), ~Sync(o), ~Abort(o), ~Crash
  PROVE  Stays(o)
<1>0. op[o].pc \notin {"idle", "write", "left"}
  BY DEF PastWrite
<1>1. CASE op' = op
  BY <1>1, Unchanged
<1>2. ASSUME NEW x \in Ops, Create(x) \/ Write(x) \/ Sync(x) \/ Abort(x) \/ Land(x)
      PROVE  Stays(o)
  <2>1. CASE Create(x)
    <3>1. op' = op \/ (op[x].pc = "idle" /\ \A z \in Ops \ {x} : Stays(z))
      BY <2>1, CreateMore DEF SetsOff
    <3> QED
      BY <1>0, <1>1, <3>1
  <2>2. CASE Write(x)
    <3>1. op[x].pc = "write"
      BY <2>2 DEF Write, Patch, Delete
    <3>2. \A z \in Ops \ {x} : op'[z] = op[z] \/ Stays(z)
      BY <2>2, PatchMore, DeleteMore DEF Write, Gives, Writes, SetsOff
    <3> QED
      BY <1>0, <3>1, <3>2, Unchanged
  <2>3. CASE Sync(x) \/ Abort(x) \/ Land(x)
    <3>1. x # o
      BY <1>0, <2>3, LandMore
    <3>2. \A z \in Ops \ {x} : op'[z] = op[z]
      BY <2>3, SyncMore, AbortMore, LandMore DEF Gives, Halts
    <3> QED
      BY <3>1, <3>2, Unchanged
  <2> QED
    BY <1>2, <2>1, <2>2, <2>3
<1>3. ASSUME NEW x \in Ops, NEW j \in Jobs, Begin(x, j) PROVE Stays(o)
  BY <1>0, <1>3, BeginMore, Unchanged
<1>4. ASSUME NEW t \in SUBSET Servers, op' = [x \in Ops |-> Told(x, t)] PROVE Stays(o)
  BY <1>4, ToldMore
<1>5. ASSUME NEW s \in Servers, CheckDelete(s) \/ WriteDelete(s) \/ EndDelete(s) \/ FailDelete(s)
      PROVE  Stays(o)
  <2>1. CASE CheckDelete(s)
    <3>1. {s} \in SUBSET Servers /\ op' = [x \in Ops |-> Told(x, {s})]
      BY <2>1 DEF CheckDelete
    <3> QED
      BY <1>4, <3>1
  <2> QED
    BY <1>1, <1>5, <2>1 DEF WriteDelete, EndDelete, FailDelete
<1>6. CASE BootRead \/ BootSchedule \/ BootFails
  BY <1>1, <1>4, <1>6 DEF BootRead, BootSchedule, BootFails
<1>7. CASE UNCHANGED vars
  BY <1>1, <1>7 DEF vars
<1> QED
  BY <1>2, <1>3, <1>5, <1>6, <1>7 DEF Next, Step

\* Commands are left by these steps.
LEMMA LeftKinds ==
  ASSUME TypeOK, [Next]_vars, NEW o \in Ops, op'[o].pc = "left"
  PROVE  Stays(o) \/ Land(o) \/ Abort(o) \/ Crash
<1> SUFFICES ASSUME ~Stays(o), ~Land(o), ~Abort(o), ~Crash PROVE FALSE
  OBVIOUS
<1>1. ~Sync(o)
  <2> SUFFICES ASSUME Sync(o) PROVE FALSE
    OBVIOUS
  <2>1. CASE op'[o] = IdleOp
    BY <2>1, IdleFields
  <2> QED
    BY <2>1, SyncMore DEF Gives, Goes
<1>2. ~PastWrite(o)
  BY <1>1, OthersStay
<1>3. ASSUME NEW x \in Ops, \A z \in Ops \ {x} : Stays(z) \/ op'[z] = op[z] PROVE x = o
  BY <1>3, Unchanged
<1>4. ASSUME NEW x \in Ops, Create(x) \/ Write(x) \/ Sync(x) \/ Abort(x) \/ Land(x) PROVE FALSE
  <2>1. CASE Create(x)
    <3>1. op' = op \/ (op'[x].pc = "read" /\ \A z \in Ops \ {x} : Stays(z))
      BY <2>1, CreateMore DEF SetsOff
    <3> QED
      BY <1>3, <3>1, Unchanged
  <2>2. CASE Write(x)
    <3>1. PICK n : op'[x] = n /\ n.pc \in {"idle", "read"} /\ \A z \in Ops \ {x} : Stays(z)
      BY <2>2, PatchMore, DeleteMore, IdleFields, Unchanged DEF Write, Gives, Writes, SetsOff
    <3> QED
      BY <1>3, <3>1
  <2>3. CASE Sync(x) \/ Abort(x) \/ Land(x)
    <3>1. x # o
      BY <1>1, <2>3
    <3> QED
      BY <1>3, <2>3, <3>1, SyncMore, AbortMore, LandMore DEF Gives, Halts
  <2> QED
    BY <1>4, <2>1, <2>2, <2>3
<1>5. ASSUME NEW x \in Ops, NEW j \in Jobs, Begin(x, j) PROVE FALSE
  BY <1>3, <1>5, BeginMore
<1>6. ASSUME NEW t \in SUBSET Servers, op' = [x \in Ops |-> Told(x, t)] PROVE FALSE
  BY <1>6, ToldMore
<1>7. ASSUME NEW s \in Servers, CheckDelete(s) PROVE FALSE
  <2>1. {s} \in SUBSET Servers /\ op' = [x \in Ops |-> Told(x, {s})]
    BY <1>7 DEF CheckDelete
  <2> QED
    BY <1>6, <2>1
<1>8. op' = op => FALSE
  BY Unchanged
<1> QED
  BY <1>4, <1>5, <1>6, <1>7, <1>8
     DEF Next, Step, WriteDelete, EndDelete, FailDelete, BootRead, BootSchedule, BootFails, vars

\* Nobody who works at the server acts.
AtRest(s) == \A x \in Ops : s \in op[x].touch => ~Sync(x) /\ ~Abort(x) /\ ~Land(x)

LEMMA Elsewhere ==
  ASSUME TypeOK, Hist, NEW s, AtRest(s), NEW x \in Ops, Sync(x) \/ Abort(x) \/ Land(x)
  PROVE  s \notin op[x].touch /\ (PastWrite(x) \/ op[x].pc = "left" => op[x].srv # s)
BY DEF AtRest, Hist, Touches

LEMMA HostStill ==
  ASSUME TypeOK, Hist, [Next]_vars, NEW s \in Servers, AtRest(s)
  PROVE  crontab'[s] = crontab[s] /\ file'[s] = file[s] /\ script'[s] = script[s]
<1> USE DEF TypeOK
<1>1. CASE UNCHANGED hostVars
  BY <1>1 DEF hostVars
<1>2. ASSUME NEW x \in Ops,
             \/ InitCronFile(x) \/ ApplyInitFile(x) \/ CreateLogDirs(x)
             \/ SetJobScripts(x) \/ SetCronFile(x) \/ ApplyCron(x)
      PROVE  crontab'[s] = crontab[s] /\ file'[s] = file[s] /\ script'[s] = script[s]
  <2>1. op[x].srv # s
    BY <1>2, Elsewhere, SyncMore DEF Sync
  <2> QED
    BY <1>2, <2>1 DEF InitCronFile, ApplyInitFile, CreateLogDirs, SetJobScripts, SetCronFile,
         ApplyCron, ApplyCronFile, ScriptsSet
<1>3. ASSUME NEW x \in Ops, Land(x)
      PROVE  crontab'[s] = crontab[s] /\ file'[s] = file[s] /\ script'[s] = script[s]
  <2>1. op[x].srv # s
    BY <1>3, Elsewhere, LandMore
  <2> QED
    BY <1>3, <2>1 DEF Land, ScriptsSet
<1> QED
  BY <1>1, <1>2, <1>3, HostSteps

LEMMA TableStill ==
  ASSUME TypeOK, Hist, [Next]_vars, NEW s \in Servers, AtRest(s)
  PROVE  Agree(jobs, jobs', s)
<1>1. CASE jobs' = jobs
  BY <1>1 DEF Agree
<1>2. ASSUME NEW x \in Ops, Commit(x) PROVE Agree(jobs, jobs', s)
  <2>1. s \notin op[x].touch /\ Touches(x)
    BY <1>2, Elsewhere DEF Sync, Hist
  <2> QED
    BY <1>2, <2>1, CommitAt
<1> QED
  BY <1>1, <1>2, TableKinds

\* The schedule of the server changes only with its deletion and at start-up.
LEMMA ScheduleStill ==
  ASSUME TypeOK, Hist, [Next]_vars, NEW s \in Servers, AtRest(s),
         ~EndDelete(s), ~BootSchedule, ~Crash
  PROVE  s \in scheduled' <=> s \in scheduled
<1> USE DEF memVars
<1>1. ASSUME NEW x \in Ops, Reschedule(x) PROVE s \in scheduled' <=> s \in scheduled
  <2>1. op[x].srv # s
    BY <1>1, Elsewhere, SyncMore DEF Sync
  <2> QED
    BY <1>1, <2>1 DEF Reschedule
<1>2. ASSUME NEW x \in Ops, Create(x) \/ Write(x) \/ Abort(x) \/ Land(x)
      PROVE  scheduled' = scheduled
  BY <1>2 DEF Create, Write, Patch, Delete, Abort, Land
<1>3. ASSUME NEW x \in Ops, Sync(x), ~Reschedule(x) PROVE scheduled' = scheduled
  BY <1>3 DEF Sync, ReadCron, InitCronFile, ApplyInitFile, ApplyCron, ApplyCronFile, CreateLogDirs,
       SetJobScripts, SetCronFile, Commit
<1>4. ASSUME NEW x \in Ops, NEW j \in Jobs, Begin(x, j) PROVE scheduled' = scheduled
  BY <1>4 DEF Begin
<1>5. ASSUME NEW t \in Servers, CheckDelete(t) \/ WriteDelete(t) \/ EndDelete(t) \/ FailDelete(t)
      PROVE  s \in scheduled' <=> s \in scheduled
  BY <1>5 DEF CheckDelete, WriteDelete, EndDelete, FailDelete
<1>6. CASE BootRead \/ BootFails \/ UNCHANGED vars
  BY <1>6 DEF BootRead, BootFails, vars
<1> QED
  BY <1>1, <1>2, <1>3, <1>4, <1>5, <1>6 DEF Next, Step

\* What a request will have made of the table depends on the table alone.
LEMMA AfterStill ==
  ASSUME TypeOK, NEW o \in Ops, Knows(o), NEW s, Agree(jobs, jobs', s), jobs' \in View
  PROVE  Agree(After(o), After(o)', s)
<1>1. PICK j, row : j = op[o].job /\ row = op[o].row
  OBVIOUS
<1>2. op'[o].job = j /\ op'[o].row = row
  BY <1>1 DEF Knows
<1>3. jobs \in View
  BY DEF TypeOK, View
<1>4. CASE row = None
  BY <1>1, <1>2, <1>4 DEF After
<1>5. CASE row # None
  <2>1. j \in Jobs
    BY <1>1, <1>5, Working DEF TypeOK, WellFormed
  <2>2. Agree([jobs EXCEPT ![j] = row], [jobs' EXCEPT ![j] = row], s)
    BY <1>3, <2>1, AgreeSet
  <2>3. After(o) = [jobs EXCEPT ![j] = row] /\ After(o)' = [jobs' EXCEPT ![j] = row]
    BY <1>1, <1>2, <1>5 DEF After
  <2> QED
    BY <2>2, <2>3
<1> QED
  BY <1>4, <1>5


-----------------------------------------------------------------------------
(* A request nobody overlapped with. *)

LEMMA CleanAlone ==
  ASSUME TypeOK, Hist, NEW o \in Ops, Clean(o)
  PROVE  /\ op[o].srv \in Servers /\ op[o].srv \in op[o].touch
         /\ delete[op[o].srv] = "no" /\ boot # "read"
         /\ \A x \in Ops \ {o} : op[o].srv \notin op[x].touch
<1>1. PastWrite(o) /\ Served(o)
  BY DEF Clean, PastWrite, Served
<1>2. op[o].srv \in Servers /\ op[o].srv \in op[o].touch
  BY <1>1, Working DEF Hist, Touches
<1>3. op[o].srv \notin op[o].missed
  BY <1>2 DEF Clean
<1>4. delete[op[o].srv] = "no" /\ boot # "read"
  BY <1>1, <1>2, <1>3 DEF Hist, Warned
<1>5. \A x \in Ops \ {o} : op[o].srv \notin op[x].touch
  BY <1>1, <1>3 DEF Hist, Apart
<1> QED
  BY <1>2, <1>4, <1>5

\* It is still exact when others act, ...
LEMMA ExactStays ==
  ASSUME TypeOK, jobs' \in View, Hist, [Next]_vars, NEW o \in Ops, Clean(o), Installs(o),
         Stays(o), ~Sync(o), ~Abort(o), ~Crash
  PROVE  Installs(o)'
<1>1. PICK s : s = op[o].srv
  OBVIOUS
<1>2. s \in Servers /\ delete[s] = "no" /\ boot # "read"
  BY <1>1, CleanAlone
<1>3. AtRest(s)
  BY <1>1, CleanAlone, LandMore DEF AtRest, Clean, PastWrite
<1>4. ~EndDelete(s) /\ ~BootSchedule
  BY <1>2 DEF EndDelete, BootSchedule
<1>5. crontab'[s] = crontab[s] /\ file'[s] = file[s] /\ script'[s] = script[s]
  BY <1>2, <1>3, HostStill
<1>6. s \in scheduled' <=> s \in scheduled
  BY <1>2, <1>3, <1>4, ScheduleStill
<1>7. s \in sshDeleted' <=> s \in sshDeleted
  BY <1>2, GoneKinds
<1>8. Knows(o) /\ op'[o].pc = op[o].pc
  BY DEF Stays
<1>9. Agree(After(o), After(o)', s)
  BY <1>2, <1>3, <1>8, TableStill, AfterStill
<1>10. Entries(After(o), s) = Entries(After(o)', s) /\ ActiveOf(After(o), s) = ActiveOf(After(o)', s)
  BY <1>9, AgreeSame
<1>11. op'[o].srv = s /\ op'[o].list = op[o].list /\ op'[o].active = op[o].active
  BY <1>1, <1>8 DEF Knows
<1> QED
  BY <1>1, <1>5, <1>6, <1>7, <1>8, <1>10, <1>11 DEF Installs, Match

\* ... and when it goes on.
LEMMA ExactGoes ==
  ASSUME TypeOK, NEW o \in Ops, Installs(o), Sync(o), Goes(o)
  PROVE  Installs(o)'
<1>1. PICK s, list : s = op[o].srv /\ list = op[o].list
  OBVIOUS
<1>2. PastWrite(o) /\ s \in Servers /\ list \in SUBSET Entry
  BY <1>1, Working DEF Goes
<1>3. op'[o].srv = s /\ op'[o].list = list /\ op'[o].active = op[o].active
  BY <1>1 DEF Goes, Knows
<1>4. ~Commit(o)
  BY IdleFields DEF Commit, Goes, TypeOK
<1>5. jobs' = jobs /\ sshDeleted' = sshDeleted
  BY <1>4 DEF Sync, ReadCron, InitCronFile, ApplyInitFile, ApplyCron, ApplyCronFile, CreateLogDirs,
       SetJobScripts, SetCronFile, Reschedule, dbVars
<1>6. After(o)' = After(o)
  BY <1>5 DEF Goes, Knows, After
<1>7. \A e, f \in list : e.job = f.job => e = f
  BY <1>1, EntriesOnce DEF Installs
<1>8. ASSUME NEW pc \in {"read", "init_file", "init_apply", "dirs", "scripts", "stage", "apply",
                         "schedule", "commit"},
             Goto(o, pc)
      PROVE  op'[o].pc = pc
  BY <1>2, <1>8, GotoMore
<1>9. CASE ReadCron(o) \/ InitCronFile(o) \/ ApplyInitFile(o) \/ CreateLogDirs(o)
  <2>1. op'[o].pc \in {"dirs", "init_file", "init_apply", "read", "scripts"}
    BY <1>8, <1>9 DEF ReadCron, InitCronFile, ApplyInitFile, ApplyCronFile, CreateLogDirs
  <2> QED
    BY <1>1, <1>3, <1>5, <1>6, <2>1 DEF Installs
<1>10. CASE SetJobScripts(o)
  <2>1. op'[o].pc = "stage"
    BY <1>8, <1>10 DEF SetJobScripts
  <2>2. \A e \in list : script'[s][e.job] = e.body
    <3> SUFFICES ASSUME NEW e \in list PROVE script'[s][e.job] = e.body
      OBVIOUS
    <3>1. e.job \in Jobs
      BY <1>2 DEF Entry
    <3>2. PICK f : f = CHOOSE g \in list : g.job = e.job
      OBVIOUS
    <3>3. f \in list /\ f.job = e.job
      BY <3>2
    <3>4. f = e
      BY <1>7, <3>3
    <3>5. script'[s][e.job] = f.body
      BY <1>1, <1>2, <1>10, <3>1, <3>2 DEF SetJobScripts, ScriptsSet, TypeOK
    <3> QED
      BY <3>4, <3>5
  <2> QED
    BY <1>1, <1>3, <1>5, <1>6, <2>1, <2>2 DEF Installs, Match
<1>11. CASE SetCronFile(o)
  <2>1. op[o].pc = "stage" /\ op'[o].pc = "apply" /\ script' = script /\ file'[s] = list
    BY <1>1, <1>2, <1>8, <1>11 DEF SetCronFile, TypeOK
  <2> QED
    BY <1>1, <1>3, <1>5, <1>6, <2>1 DEF Installs, Match
<1>12. CASE ApplyCron(o)
  <2>1. /\ op[o].pc = "apply" /\ op'[o].pc = "schedule" /\ script' = script
        /\ crontab'[s] = file[s]
    BY <1>1, <1>2, <1>8, <1>12 DEF ApplyCron, ApplyCronFile, TypeOK
  <2> QED
    BY <1>1, <1>3, <1>5, <1>6, <2>1 DEF Installs, Match
<1>13. CASE Reschedule(o)
  <2>1. /\ op[o].pc = "schedule" /\ op'[o].pc = "commit" /\ script' = script
        /\ crontab' = crontab /\ (s \in scheduled' <=> op[o].active)
    BY <1>1, <1>2, <1>8, <1>13 DEF Reschedule, hostVars
  <2> QED
    BY <1>1, <1>3, <1>5, <1>6, <2>1 DEF Installs, Match
<1> QED
  BY <1>4, <1>9, <1>10, <1>11, <1>12, <1>13 DEF Sync

\* A request that creates a job starts so, ...
LEMMA ExactCreate ==
  ASSUME TypeOK, NEW o \in Ops, Create(o), PastWrite(o)'
  PROVE  Installs(o)'
<1>1. op' # op
  BY CreateMore DEF PastWrite
<1>2. PICK j \in fresh, s \in Servers, row \in Row :
        s \notin sshDeleted /\ SetsOff(o, j, row, [jobs EXCEPT ![j] = row], s, {s}, Busy)
  BY <1>1, CreateMore
<1>3. PICK view, t, m : view = [jobs EXCEPT ![j] = row] /\ t = {s} /\ m = Busy
  OBVIOUS
<1>4. SetsOff(o, j, row, view, s, t, m)
  BY <1>2, <1>3
<1>5. jobs' = jobs /\ sshDeleted' = sshDeleted
  BY DEF Create
<1>6. row # None
  BY JobSyncAssumption
<1>7. After(o)' = view
  BY <1>3, <1>4, <1>5, <1>6 DEF SetsOff, After
<1>8. /\ op'[o].pc = "read" /\ op'[o].srv = s /\ op'[o].list = Entries(view, s)
      /\ op'[o].active = (CntJobsActive(view, s) > 0)
  BY <1>4 DEF SetsOff
<1>9. op'[o].active <=> ActiveOf(view, s) # {}
  BY <1>8, CountsTell
<1> QED
  BY <1>2, <1>5, <1>7, <1>8, <1>9 DEF Installs

\* ... and one whose snapshot was not out of date.
LEMMA ExactWrite ==
  ASSUME TypeOK, Hist, NEW o \in Ops, Write(o), Clean(o)'
  PROVE  Installs(o)'
<1>1. PastWrite(o)'
  BY DEF Clean
<1>2. ~Gives(o)
  BY <1>1, IdleFields DEF Gives, PastWrite
<1>3. op[o].pc = "write"
  BY DEF Write, Patch, Delete
<1>4. PICK row, view, s, t : Writes(o, row, view, s, t)
  BY <1>2, PatchMore, DeleteMore DEF Write
<1>5. PICK j, m, old : j = op[o].job /\ m = op[o].missed /\ old = op[o].view
  OBVIOUS
<1>6. SetsOff(o, j, row, view, s, t, m) /\ s \in Servers /\ s \in t /\ s \notin op[o].gone
  BY <1>4, <1>5 DEF Writes
<1>7. s \notin m
  BY <1>6 DEF SetsOff, Clean
<1>8. Agree(old, jobs, s) /\ s \notin sshDeleted
  BY <1>3, <1>5, <1>6, <1>7 DEF Hist, Informed
<1>9. jobs' = jobs /\ sshDeleted' = sshDeleted
  BY DEF Write, Patch, Delete, dbVars
<1>10. j \in Jobs /\ old \in View /\ jobs \in View
  BY <1>3, <1>5, Writing DEF TypeOK, View
<1>11. op'[o].row = row /\ op'[o].job = j
  BY <1>6 DEF SetsOff
<1>12. Agree(view, After(o)', s)
  <2>1. CASE row = None
    <3>1. view = old /\ After(o)' = jobs
      BY <1>4, <1>5, <1>9, <1>11, <2>1 DEF Writes, After
    <3> QED
      BY <1>8, <3>1
  <2>2. CASE row # None
    <3>1. view = [old EXCEPT ![j] = row] /\ After(o)' = [jobs EXCEPT ![j] = row]
      BY <1>4, <1>5, <1>9, <1>11, <2>2 DEF Writes, After
    <3>2. Agree([old EXCEPT ![j] = row], [jobs EXCEPT ![j] = row], s)
      BY <1>8, <1>10, AgreeSet
    <3> QED
      BY <3>1, <3>2
  <2> QED
    BY <2>1, <2>2
<1>13. /\ op'[o].pc = "read" /\ op'[o].srv = s /\ op'[o].list = Entries(view, s)
       /\ op'[o].active = (CntJobsActive(view, s) > 0)
  BY <1>6 DEF SetsOff
<1>14. op'[o].active <=> ActiveOf(view, s) # {}
  BY <1>13, CountsTell
<1>15. Entries(view, s) = Entries(After(o)', s) /\ ActiveOf(view, s) = ActiveOf(After(o)', s)
  BY <1>12, AgreeSame
<1> QED
  BY <1>8, <1>9, <1>13, <1>14, <1>15 DEF Installs

\* A request that is clean after a step was clean before, unless it starts.
LEMMA CleanBefore ==
  ASSUME NEW o \in Ops, PastWrite(o), Knows(o), Clean(o)' PROVE Clean(o)
BY DEF Clean, Knows

LEMMA ExactStep ==
  TypeOK /\ Hist /\ (\A o \in Ops : Exact(o)) /\ [Next]_vars => \A o \in Ops : Exact(o)'
<1> SUFFICES ASSUME TypeOK, Hist, \A x \in Ops : Exact(x), [Next]_vars,
                    NEW o \in Ops, Clean(o)'
             PROVE  Installs(o)'
  BY DEF Exact
<1>1. PastWrite(o)' /\ Served(o)'
  BY DEF Clean, PastWrite, Served
<1>2. jobs' \in View
  BY TypeStep DEF TypeOK, View
<1>3. CASE PastWrite(o)
  <2>1. ~Ends(o) /\ ~Gives(o) /\ ~Crash
    BY <1>1, CrashMore, EndsIdle DEF Gives, Ends, Served
  <2>2. CASE Sync(o)
    <3>1. Goes(o) /\ Knows(o)
      BY <2>1, <2>2, SyncMore DEF Goes
    <3>2. Installs(o)
      BY <1>3, <3>1, CleanBefore DEF Exact
    <3> QED
      BY <2>2, <3>1, <3>2, ExactGoes
  <2>3. CASE ~Sync(o)
    <3>1. ~Abort(o)
      BY <2>1, AbortMore DEF Halts
    <3>2. Stays(o) /\ Knows(o)
      BY <1>3, <2>1, <2>3, <3>1, OthersStay DEF Stays
    <3>3. Clean(o) /\ Installs(o)
      BY <1>3, <3>2, CleanBefore DEF Exact
    <3> QED
      BY <1>2, <2>1, <2>3, <3>1, <3>2, <3>3, ExactStays
  <2> QED
    BY <2>2, <2>3
<1>4. CASE ~PastWrite(o)
  <2>1. ~Usual(o)
    BY <1>1, <1>4, UsualLives
  <2>2. \A y \in Ops, j \in Jobs : ~Begin(y, j)
    <3> SUFFICES ASSUME NEW y \in Ops, NEW j \in Jobs, Begin(y, j) PROVE FALSE
      OBVIOUS
    <3>1. op'[y].pc = "write" /\ \A z \in Ops \ {y} : op'[z] = op[z]
      BY BeginMore
    <3> QED
      BY <1>1, <2>1, <3>1, Unchanged, StaysUsual DEF PastWrite
  <2>3. ASSUME NEW y \in Ops, Create(y) PROVE Installs(o)'
    <3>1. op' # op
      BY <2>1, Unchanged, StaysUsual
    <3>2. \A z \in Ops \ {y} : Stays(z)
      BY <2>3, <3>1, CreateMore DEF SetsOff
    <3>3. y = o
      BY <2>1, <3>2, StaysUsual
    <3> QED
      BY <1>1, <2>3, <3>3, ExactCreate
  <2>4. ASSUME NEW y \in Ops, Write(y), \E row, view, s, touch : Writes(y, row, view, s, touch)
        PROVE  Installs(o)'
    <3>1. \A z \in Ops \ {y} : Stays(z)
      BY <2>4 DEF Writes, SetsOff
    <3>2. y = o
      BY <2>1, <3>1, StaysUsual
    <3> QED
      BY <2>4, <3>2, ExactWrite
  <2> QED
    BY <2>1, <2>2, <2>3, <2>4, UsualKinds
<1> QED
  BY <1>3, <1>4

-----------------------------------------------------------------------------
(* A server nobody has left a trace on. *)

LEMMA NoCrontabStep == TypeOK /\ NoCrontab /\ [Next]_vars => NoCrontab'
<1> SUFFICES ASSUME TypeOK, NoCrontab, [Next]_vars PROVE NoCrontab'
  OBVIOUS
<1> USE DEF NoCrontab
<1>1. CASE UNCHANGED hostVars
  BY <1>1 DEF hostVars
<1>2. ASSUME NEW o \in Ops, ApplyInitFile(o) \/ ApplyCron(o) PROVE NoCrontab'
  BY <1>2 DEF ApplyInitFile, ApplyCron, ApplyCronFile, TypeOK
<1>3. ASSUME NEW o \in Ops, \/ InitCronFile(o) \/ CreateLogDirs(o) \/ SetJobScripts(o)
                            \/ SetCronFile(o)
      PROVE  NoCrontab'
  BY <1>3 DEF InitCronFile, CreateLogDirs, SetJobScripts, SetCronFile
<1>4. ASSUME NEW o \in Ops, Land(o) PROVE NoCrontab'
  BY <1>4 DEF Land, TypeOK
<1> QED
  BY <1>1, <1>2, <1>3, <1>4, HostSteps

LEMMA TracesOn ==
  ASSUME TypeOK, NEW o \in Ops, Sync(o), ~Commit(o), Traces(op[o].pc)
  PROVE  Traces(op'[o].pc)
<1>1. PastWrite(o)
  BY SyncMore
<1>2. ASSUME NEW pc \in {"read", "init_file", "init_apply", "dirs", "scripts", "stage", "apply",
                         "schedule", "commit"},
             Goto(o, pc)
      PROVE  op'[o].pc = pc
  BY <1>1, <1>2, GotoMore
<1>3. op[o].pc \in {"scripts", "stage", "apply", "schedule", "commit"}
  BY DEF Traces
<1>4. \/ SetJobScripts(o) /\ Goto(o, "stage")
      \/ SetCronFile(o) /\ Goto(o, "apply")
      \/ ApplyCron(o) /\ Goto(o, "schedule")
      \/ Reschedule(o) /\ Goto(o, "commit")
  BY <1>3 DEF Sync, ReadCron, InitCronFile, ApplyInitFile, ApplyCron, ApplyCronFile,
       CreateLogDirs, SetJobScripts, SetCronFile, Reschedule
<1>5. op'[o].pc \in {"stage", "apply", "schedule", "commit"}
  BY <1>2, <1>4
<1> QED
  BY <1>5 DEF Traces

LEMMA DisturbedKinds ==
  ASSUME TypeOK, [Next]_vars
  PROVE  disturbed \subseteq disturbed' \/ \E x \in Ops : Commit(x)
BY DEF TypeOK, Next, Step, Write, Sync, Begin, Create, Patch, Delete, ReadCron, InitCronFile,
       ApplyInitFile, CreateLogDirs, SetJobScripts, SetCronFile, ApplyCron, ApplyCronFile,
       Reschedule, Abort, Land, CheckDelete, WriteDelete, EndDelete, FailDelete, BootRead,
       BootSchedule, BootFails, Crash, vars

\* A commit that leaves its server untouched is that of a request nobody overlapped with.
LEMMA CommitClean ==
  ASSUME TypeOK, NEW o \in Ops, Commit(o), NEW s, s \notin disturbed',
         s \in op[o].touch \/ s \in disturbed
  PROVE  Clean(o) /\ s = op[o].srv
<1>1. PastWrite(o)
  BY DEF Commit, PastWrite
<1> QED
  BY <1>1 DEF Commit, Clean

LEMMA UntouchedBefore ==
  ASSUME TypeOK, Hist, [Next]_vars, NEW s \in Servers, Untouched(s)'
  PROVE  Untouched(s) \/ \E o \in Ops : Commit(o) /\ s \in op[o].touch
<1> SUFFICES ASSUME \A o \in Ops : Commit(o) => s \notin op[o].touch PROVE Untouched(s)
  OBVIOUS
<1>1. s \notin disturbed'
  BY DEF Untouched
<1>2. s \notin disturbed
  <2> SUFFICES ASSUME s \in disturbed PROVE FALSE
    OBVIOUS
  <2>1. PICK x \in Ops : Commit(x)
    BY <1>1, DisturbedKinds
  <2>2. Clean(x) /\ s = op[x].srv
    BY <1>1, <2>1, CommitClean
  <2> QED
    BY <2>1, <2>2, CleanAlone
<1>3. ASSUME NEW o \in Ops, Traces(op[o].pc), s \in op[o].touch PROVE FALSE
  <2>1. PastWrite(o)
    BY <1>3 DEF Traces, PastWrite
  <2>2. CASE Sync(o)
    <3>1. ~Commit(o)
      BY <1>3
    <3>2. Traces(op'[o].pc) /\ op'[o].touch = op[o].touch
      BY <1>3, <2>2, <3>1, TracesOn, SyncMore DEF Goes, Knows
    <3> QED
      BY <1>3, <3>2 DEF Untouched
  <2>3. CASE Abort(o)
    BY <1>1, <1>3, <2>3 DEF Abort
  <2>4. CASE Crash
    <3>1. s \in UNION {op[x].touch : x \in {y \in Ops : Sent(y) # {} \/ Traces(op[y].pc)}}
      BY <1>3
    <3> QED
      BY <1>1, <2>4, <3>1 DEF Crash
  <2>5. CASE ~Sync(o) /\ ~Abort(o) /\ ~Crash
    <3>1. op'[o].pc = op[o].pc /\ op'[o].touch = op[o].touch
      BY <2>1, <2>5, OthersStay DEF Stays, Knows
    <3> QED
      BY <1>3, <3>1 DEF Untouched
  <2> QED
    BY <2>2, <2>3, <2>4, <2>5
<1> QED
  BY <1>2, <1>3 DEF Untouched

\* The request that repairs a server knows of the commands that go on there.
LEMMA MarkedStep ==
  ASSUME TypeOK, Hist, \A o \in Ops : Marked(o), [Next]_vars PROVE \A o \in Ops : Marked(o)'
<1> SUFFICES ASSUME NEW o \in Ops, op'[o].pc = "left" PROVE op'[o].srv \in disturbed'
  BY DEF Marked
<1>1. ~Served(o)'
  BY DEF Served
<1>2. CASE Stays(o)
  <2>1. op[o].pc = "left" /\ op'[o].srv = op[o].srv /\ op[o].srv \in disturbed
    BY <1>2 DEF Stays, Knows, Marked
  <2>2. op[o].touch = {op[o].srv}
    BY <2>1 DEF Hist, Touches
  <2>3. ASSUME NEW x \in Ops, Commit(x), op[o].srv \notin disturbed' PROVE FALSE
    <3>1. Clean(x) /\ op[o].srv = op[x].srv
      BY <2>1, <2>3, CommitClean
    <3>2. x # o
      BY <2>1, <2>3 DEF Commit
    <3> QED
      BY <2>2, <3>1, <3>2, CleanAlone
  <2> QED
    BY <2>1, <2>3, DisturbedKinds
<1>3. ASSUME op[o].pc = "left", op'[o].srv = op[o].srv, disturbed \subseteq disturbed'
      PROVE  op'[o].srv \in disturbed'
  BY <1>3 DEF Marked
<1>4. CASE Land(o)
  BY <1>3, <1>4, LandMore DEF Halts, Ends
<1>5. ASSUME Abort(o) \/ Crash PROVE op'[o].srv \in disturbed'
  <2>1. /\ PastWrite(o) \/ op[o].pc = "left"
        /\ op'[o].srv = op[o].srv /\ op'[o].touch = {op[o].srv} /\ Sent(o) # {}
    BY <1>5, AbortMore, CrashMore DEF Halts, Ends
  <2>2. op[o].srv \in op[o].touch
    BY <2>1 DEF Hist, Touches
  <2>3. CASE Crash
    <3>1. op[o].srv \in UNION {op[x].touch : x \in {y \in Ops : Sent(y) # {} \/ Traces(op[y].pc)}}
      BY <2>1, <2>2
    <3> QED
      BY <2>1, <2>3, <3>1 DEF Crash
  <2>4. CASE Abort(o)
    <3>1. PICK cs \in SUBSET Sent(o) :
            /\ op' = [op EXCEPT ![o] = Stopped(o, cs)]
            /\ disturbed' = IF cs # {} \/ Traces(op[o].pc) THEN disturbed \union op[o].touch
                                                            ELSE disturbed
      BY <2>4 DEF Abort
    <3>2. cs # {}
      BY <3>1, StoppedMore DEF TypeOK
    <3> QED
      BY <2>1, <2>2, <3>1, <3>2
  <2> QED
    BY <1>5, <2>3, <2>4
<1>6. CASE ~Stays(o) /\ ~Land(o) /\ ~Abort(o) /\ ~Crash
  BY <1>6, LeftKinds
<1> QED
  BY <1>2, <1>4, <1>5, <1>6

\* The commit of a request nobody overlapped with puts its server in step.
LEMMA RightCommit ==
  ASSUME TypeOK, Hist, NEW o \in Ops, Exact(o), Commit(o),
         NEW s \in Servers, s \in op[o].touch, s \notin disturbed'
  PROVE  Right(s)'
<1>1. Clean(o) /\ s = op[o].srv
  BY CommitClean
<1>2. Installs(o) /\ op[o].pc = "commit"
  BY <1>1 DEF Exact, Commit
<1>3. /\ delete[s] = "no" /\ boot # "read"
      /\ \A x \in Ops \ {o} : s \notin op[x].touch
  BY <1>1, CleanAlone
<1>4. jobs' = After(o)
  BY DEF Commit, After
<1>5. /\ sshDeleted' = sshDeleted /\ delete' = delete /\ scheduled' = scheduled
      /\ boot' = boot /\ bootList' = bootList /\ script' = script /\ crontab' = crontab
      /\ file' = file
  BY DEF Commit, hostVars, memVars
<1>6. crontab'[s] = Entries(jobs', s) /\ Match(s, crontab[s])
  BY <1>1, <1>2, <1>4, <1>5 DEF Installs
<1>7. Match(s, crontab[s])'
  BY <1>5, <1>6 DEF Match
<1>8. s \in scheduled' <=> ActiveOf(jobs', s) # {}
  BY <1>1, <1>2, <1>4, <1>5 DEF Installs
<1>9. Collected(s)'
  BY <1>3, <1>5, <1>8 DEF Collected
<1>10. s \notin sshDeleted' /\ delete'[s] = "no"
  BY <1>1, <1>2, <1>3, <1>5 DEF Installs
<1>11. Initial(s)'
  <2>1. op'[o] = IdleOp /\ \A x \in Ops \ {o} : op'[x] = op[x]
    BY DEF Commit, TypeOK
  <2>2. \A x \in Ops \ {o} : op[x].srv = s => ~PastWrite(x)
    BY <1>3 DEF Hist, Touches
  <2> QED
    BY <2>1, <2>2, IdleFields DEF Initial, PastWrite
<1> QED
  BY <1>6, <1>7, <1>9, <1>10, <1>11 DEF Right

\* A request that stops leaves it as it is, ...
LEMMA RightAbort ==
  ASSUME TypeOK, NEW o \in Ops, Abort(o), NEW s \in Servers, Right(s)
  PROVE  Right(s)'
<1>1. /\ jobs' = jobs /\ sshDeleted' = sshDeleted /\ delete' = delete /\ scheduled' = scheduled
      /\ boot' = boot /\ bootList' = bootList /\ script' = script /\ crontab' = crontab
      /\ file' = file
  BY DEF Abort, dbVars, memVars, hostVars
<1>2. op'[o].pc \in {"idle", "left"} /\ \A x \in Ops \ {o} : op'[x] = op[x]
  BY AbortMore DEF Halts, Ends
<1>3. Initial(s)'
  BY <1>1, <1>2 DEF Right, Initial
<1> QED
  BY <1>1, <1>3 DEF Right, Match, Collected

\* ... and so does one that has only read, or begun, the crontab.
LEMMA RightSync ==
  ASSUME TypeOK, NoCrontab, NEW o \in Ops, Sync(o), NEW s \in Servers,
         ~Traces(op[o].pc), ~Traces(op'[o].pc), Right(s)
  PROVE  Right(s)'
<1>1. PastWrite(o) /\ ~Commit(o)
  BY SyncMore DEF Commit, Traces
<1>2. \A x \in Ops \ {o} : op'[x] = op[x]
  BY <1>1, SyncMore
<1>3. op'[o].srv = op[o].srv /\ op[o].srv \in Servers
  BY <1>1, SyncMore, Working DEF Goes, Knows
<1>4. ASSUME NEW pc \in {"read", "init_file", "init_apply", "dirs", "scripts", "stage", "apply",
                         "schedule", "commit"},
             Goto(o, pc)
      PROVE  op'[o].pc = pc
  BY <1>1, <1>4, GotoMore
<1>5. ~CreateLogDirs(o)
  BY <1>4 DEF CreateLogDirs, Traces
<1>6. ReadCron(o) \/ InitCronFile(o) \/ ApplyInitFile(o)
  BY <1>1, <1>5 DEF Sync, SetJobScripts, SetCronFile, ApplyCron, Reschedule, Traces
<1>7. /\ jobs' = jobs /\ sshDeleted' = sshDeleted /\ delete' = delete /\ scheduled' = scheduled
      /\ boot' = boot /\ bootList' = bootList /\ script' = script
  BY <1>6 DEF ReadCron, InitCronFile, ApplyInitFile, ApplyCronFile, dbVars, memVars, hostVars
<1>8. Initial(s)
  BY DEF Right
<1>9. crontab'[s] = crontab[s] /\ Initial(s)'
  <2>1. CASE ReadCron(o)
    <3>1. crontab' = crontab /\ file' = file
      BY <2>1 DEF ReadCron, hostVars
    <3>2. op'[o].pc = "dirs" \/ (op'[o].pc = "init_file" /\ op[o].srv \notin hasCrontab)
      BY <1>4, <2>1 DEF ReadCron
    <3>3. op'[o].pc = "init_file" => crontab[op[o].srv] = {}
      BY <1>3, <3>2 DEF NoCrontab
    <3> QED
      BY <1>2, <1>3, <1>8, <3>1, <3>2, <3>3 DEF Initial
  <2>2. CASE InitCronFile(o)
    <3>1. /\ crontab' = crontab /\ op[o].pc = "init_file" /\ op'[o].pc = "init_apply"
          /\ file'[s] = IF s = op[o].srv THEN {} ELSE file[s]
      BY <1>3, <1>4, <2>2 DEF InitCronFile, TypeOK
    <3> QED
      BY <1>2, <1>3, <1>8, <3>1 DEF Initial
  <2>3. CASE ApplyInitFile(o)
    <3>1. /\ file' = file /\ op[o].pc = "init_apply" /\ op'[o].pc = "read"
          /\ crontab'[s] = IF s = op[o].srv THEN file[s] ELSE crontab[s]
      BY <1>3, <1>4, <2>3 DEF ApplyInitFile, ApplyCronFile, TypeOK
    <3>2. crontab'[s] = crontab[s]
      BY <1>8, <3>1 DEF Initial
    <3> QED
      BY <1>2, <1>3, <1>8, <3>1, <3>2 DEF Initial
  <2> QED
    BY <1>6, <2>1, <2>2, <2>3
<1> QED
  BY <1>7, <1>9 DEF Right, Match, Collected

\* The start-up reads the table once and schedules what it has read.
LEMMA BootKinds ==
  ASSUME TypeOK, [Next]_vars, ~BootRead, ~BootSchedule, ~BootFails, ~Crash
  PROVE  boot' = boot /\ bootList' = bootList
BY DEF Next, Step, Write, Sync, Begin, Create, Patch, Delete, ReadCron, InitCronFile, ApplyInitFile,
       CreateLogDirs, SetJobScripts, SetCronFile, ApplyCron, ApplyCronFile, Reschedule, Commit,
       Abort, Land, CheckDelete, WriteDelete, EndDelete, FailDelete, vars, memVars

LEMMA CollectedStill ==
  ASSUME TypeOK, Hist, [Next]_vars, NEW s \in Servers, AtRest(s), Right(s), s \notin disturbed'
  PROVE  Collected(s)'
<1>1. ActiveOf(jobs, s) = ActiveOf(jobs', s)
  BY TableStill, AgreeSame
<1>2. ActiveOf(jobs, s) \subseteq JobsOf(jobs, s)
  BY DEF ActiveOf
<1>3. Collected(s) /\ (s \in sshDeleted \/ delete[s] # "no" => ActiveOf(jobs, s) = {})
  BY <1>2 DEF Right
<1>4. CASE EndDelete(s)
  <2>1. /\ s \notin scheduled' /\ boot' = boot /\ bootList' = bootList
        /\ ActiveOf(jobs, s) = {}
    BY <1>3, <1>4 DEF EndDelete
  <2> QED
    BY <1>1, <1>3, <2>1 DEF Collected
<1>5. CASE BootRead
  <2>1. /\ boot = "pending" /\ boot' = "read" /\ scheduled' = scheduled
        /\ s \in bootList' <=> s \notin sshDeleted /\ CntJobsActive(jobs, s) > 0
    BY <1>5 DEF BootRead
  <2>2. CntJobsActive(jobs, s) > 0 <=> ActiveOf(jobs, s) # {}
    BY CountsTell
  <2> QED
    BY <1>1, <1>3, <2>1, <2>2 DEF Collected
<1>6. CASE BootSchedule
  BY <1>1, <1>3, <1>6 DEF BootSchedule, Collected
<1>7. CASE BootFails
  BY <1>7 DEF BootFails
<1>8. CASE Crash
  BY <1>8 DEF Crash, Collected
<1>9. CASE ~EndDelete(s) /\ ~BootRead /\ ~BootSchedule /\ ~BootFails /\ ~Crash
  <2>1. (s \in scheduled' <=> s \in scheduled) /\ boot' = boot /\ bootList' = bootList
    BY <1>9, ScheduleStill, BootKinds
  <2> QED
    BY <1>1, <1>3, <2>1 DEF Collected
<1> QED
  BY <1>4, <1>5, <1>6, <1>7, <1>8, <1>9

LEMMA StartsRead ==
  ASSUME TypeOK, [Next]_vars, NEW o \in Ops, ~PastWrite(o), PastWrite(o)'
  PROVE  op'[o].pc = "read"
<1>1. ~Usual(o)
  BY UsualLives DEF PastWrite, Served
<1>2. ASSUME NEW y \in Ops, NEW j \in Jobs, Begin(y, j) PROVE FALSE
  <2>1. op'[y].pc = "write" /\ \A z \in Ops \ {y} : op'[z] = op[z]
    BY <1>2, BeginMore
  <2> QED
    BY <1>1, <2>1, Unchanged, StaysUsual DEF PastWrite
<1>3. ASSUME NEW y \in Ops, op'[y].pc = "read", \A z \in Ops \ {y} : Stays(z)
      PROVE  op'[o].pc = "read"
  BY <1>1, <1>3, StaysUsual
<1>4. ASSUME NEW y \in Ops, Create(y) PROVE op'[o].pc = "read"
  <2>1. op' # op
    BY <1>1, Unchanged, StaysUsual
  <2>2. op'[y].pc = "read" /\ \A z \in Ops \ {y} : Stays(z)
    BY <1>4, <2>1, CreateMore DEF SetsOff
  <2> QED
    BY <1>3, <2>2
<1>5. ASSUME NEW y \in Ops, \E row, view, s, touch : Writes(y, row, view, s, touch)
      PROVE  op'[o].pc = "read"
  <2>1. op'[y].pc = "read" /\ \A z \in Ops \ {y} : Stays(z)
    BY <1>5 DEF Writes, SetsOff
  <2> QED
    BY <1>3, <2>1
<1> QED
  BY <1>1, <1>2, <1>4, <1>5, UsualKinds

\* Whoever else acts, the server stays in step.
LEMMA RightStill ==
  ASSUME TypeOK, Hist, [Next]_vars, NEW s \in Servers, AtRest(s), Right(s), s \notin disturbed'
  PROVE  Right(s)'
<1>1. crontab'[s] = crontab[s] /\ file'[s] = file[s] /\ script'[s] = script[s]
  BY HostStill
<1>2. Entries(jobs, s) = Entries(jobs', s) /\ JobsOf(jobs, s) = JobsOf(jobs', s)
  BY TableStill, AgreeSame
<1>3. s \in sshDeleted' \/ delete'[s] # "no" => JobsOf(jobs', s) = {}
  <2>1. CheckDelete(s) => JobsOf(jobs, s) = {}
    BY CountsTell DEF CheckDelete
  <2> QED
    BY <1>2, <2>1, GoneKinds, WarnKinds DEF Right
<1>4. Initial(s)'
  <2> SUFFICES ASSUME NEW x \in Ops, op'[x].srv = s, op'[x].pc \in {"init_file", "init_apply"}
               PROVE  /\ crontab'[s] = {}
                      /\ op'[x].pc = "init_apply" => file'[s] = {}
    BY DEF Initial
  <2>1. PastWrite(x)
    <3>1. PastWrite(x)' /\ op'[x].pc # "read"
      BY DEF PastWrite
    <3> QED
      BY <3>1, StartsRead
  <2>2. ~Ends(x)
    BY DEF Ends
  <2>3. ~Abort(x) /\ ~Crash
    BY <2>2, AbortMore, CrashMore DEF Halts
  <2>4. ~Sync(x)
    <3> SUFFICES ASSUME Sync(x) PROVE FALSE
      OBVIOUS
    <3>1. op[x].srv = s
      BY <2>2, SyncMore, EndsIdle DEF Gives, Goes, Knows
    <3> QED
      BY <2>1, <3>1, Elsewhere
  <2>5. op'[x].pc = op[x].pc /\ op[x].srv = s
    BY <2>1, <2>3, <2>4, OthersStay DEF Stays, Knows
  <2> QED
    BY <1>1, <2>5 DEF Right, Initial
<1> QED
  BY <1>1, <1>2, <1>3, <1>4, CollectedStill DEF Right, Match

LEMMA SteppedStep ==
  TypeOK /\ Hist /\ NoCrontab /\ (\A o \in Ops : Exact(o) /\ Marked(o))
    /\ (\A s \in Servers : Stepped(s)) /\ [Next]_vars => \A s \in Servers : Stepped(s)'
<1> SUFFICES ASSUME TypeOK, Hist, NoCrontab, \A o \in Ops : Exact(o) /\ Marked(o),
                    \A s \in Servers : Stepped(s), [Next]_vars,
                    NEW s \in Servers, Untouched(s)'
             PROVE  Right(s)'
  BY DEF Stepped
<1>1. s \notin disturbed'
  BY DEF Untouched
<1>2. CASE \E o \in Ops : Commit(o) /\ s \in op[o].touch
  BY <1>1, <1>2, RightCommit
<1>3. CASE \A o \in Ops : Commit(o) => s \notin op[o].touch
  <2>1. Untouched(s) /\ Right(s)
    BY <1>3, UntouchedBefore DEF Stepped
  <2>2. CASE AtRest(s)
    BY <1>1, <2>1, <2>2, RightStill
  <2>3. ASSUME NEW o \in Ops, s \in op[o].touch, Abort(o) PROVE Right(s)'
    BY <2>1, <2>3, RightAbort
  <2>5. ASSUME NEW o \in Ops, s \in op[o].touch, Land(o) PROVE FALSE
    <3>1. op[o].pc = "left" /\ op[o].touch = {op[o].srv} /\ op[o].srv \in disturbed
      BY <2>5, LandMore DEF Hist, Touches, Marked
    <3> QED
      BY <2>1, <2>5, <3>1 DEF Untouched
  <2>4. ASSUME NEW o \in Ops, s \in op[o].touch, Sync(o) PROVE Right(s)'
    <3>1. ~Traces(op[o].pc)
      BY <2>1, <2>4 DEF Untouched
    <3>2. op'[o].touch = op[o].touch
      BY <1>3, <2>4, SyncMore DEF Goes, Knows
    <3>3. ~Traces(op'[o].pc)
      BY <2>4, <3>2 DEF Untouched
    <3> QED
      BY <2>1, <2>4, <3>1, <3>3, RightSync
  <2> QED
    BY <2>2, <2>3, <2>4, <2>5 DEF AtRest
<1> QED
  BY <1>2, <1>3

-----------------------------------------------------------------------------
(* The theorem. *)

InStepInv == /\ TypeOK /\ SyncInv /\ Hist /\ NoCrontab
             /\ \A o \in Ops : Exact(o) /\ Marked(o)
             /\ \A s \in Servers : Stepped(s)

LEMMA InStepInit == Init => InStepInv
<1> SUFFICES ASSUME Init PROVE InStepInv
  OBVIOUS
<1>1. TypeOK /\ SyncInv
  BY InvInit DEF Inv
<1>2. \A o \in Ops : op[o] = IdleOp /\ op[o].pc = "idle" /\ ~PastWrite(o)
  BY IdleFields DEF Init, PastWrite
<1>3. Hist
  BY <1>2, IdleFields, IdleTouch DEF Hist, Apart, Touches, Warned, Informed, Served
<1>4. NoCrontab /\ \A o \in Ops : Exact(o) /\ Marked(o)
  BY <1>2 DEF Init, NoCrontab, Exact, Clean, Marked
<1>5. ASSUME NEW s \in Servers PROVE Right(s)
  <2>1. JobsOf(jobs, s) = {}
    BY DEF Init, NoView, JobsOf, Live
  <2>2. ActiveOf(jobs, s) = {}
    BY <2>1 DEF ActiveOf
  <2>3. Entries(jobs, s) = {}
    BY <2>2 DEF Entries
  <2>4. /\ crontab[s] = {} /\ file[s] = {} /\ delete[s] = "no" /\ s \notin sshDeleted
        /\ s \notin scheduled /\ boot = "pending"
    BY DEF Init
  <2> QED
    BY <2>1, <2>2, <2>3, <2>4 DEF Right, Match, Collected, Initial
<1> QED
  BY <1>1, <1>3, <1>4, <1>5 DEF InStepInv, Stepped

LEMMA InStepStep == InStepInv /\ [Next]_vars => InStepInv'
<1> SUFFICES ASSUME InStepInv, [Next]_vars PROVE InStepInv'
  OBVIOUS
<1>1. TypeOK /\ SyncInv /\ RowsLocked /\ Hist
  BY DEF InStepInv, SyncInv
<1>2. TypeOK' /\ SyncInv'
  BY <1>1, InvStep DEF Inv
<1>3. Hist'
  BY <1>1, ApartStep, TouchesStep, WarnedStep, InformedStep DEF Hist
<1>4. NoCrontab' /\ \A o \in Ops : Exact(o)' /\ Marked(o)'
  BY <1>1, NoCrontabStep, ExactStep, MarkedStep DEF InStepInv
<1>5. \A s \in Servers : Stepped(s)'
  BY <1>1, SteppedStep DEF InStepInv
<1> QED
  BY <1>2, <1>3, <1>4, <1>5 DEF InStepInv

\* A server is in step with the table of jobs when nobody works at it, unless requests
\* overlapped there, one stopped half-way, or a job was moved away; and a request that
\* nobody overlapped with puts it back in step (updateJobsOnServer, delete, the schedule).
THEOREM ServersInStep == Spec => []InStep
<1>1. Spec => []InStepInv
  BY InStepInit, InStepStep, PTL DEF Spec
<1>2. InStepInv => InStep
  <2> SUFFICES ASSUME InStepInv, NEW s \in Servers, s \notin disturbed, s \notin Busy
               PROVE  /\ crontab[s] = Entries(jobs, s)
                      /\ \A e \in crontab[s] : script[s][e.job] = e.body
                      /\ boot = "done" => (s \in scheduled <=> ActiveOf(jobs, s) # {})
                      /\ s \in sshDeleted => JobsOf(jobs, s) = {}
    BY DEF InStep
  <2>1. Untouched(s)
    BY BusyTouches DEF Untouched, Traces
  <2>2. Right(s)
    BY <2>1 DEF InStepInv, Stepped
  <2> QED
    BY <2>2 DEF Right, Match, Collected
<1> QED
  BY <1>1, <1>2, PTL

=============================================================================
