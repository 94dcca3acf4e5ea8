---------------------------- MODULE JobSyncProofs ---------------------------
(***************************************************************************)
(* Proofs about JobSync, for any servers, jobs, bodies, organizations and  *)
(* requests.                                                               *)
(***************************************************************************)
EXTENDS JobSync, TLAPS

View == [Jobs -> Row \union {None}]

-----------------------------------------------------------------------------
(* Types. *)

LEMMA BusyType == TypeOK => Busy \in SUBSET Servers
<1> SUFFICES ASSUME TypeOK PROVE Busy \in SUBSET Servers
  OBVIOUS
<1>1. \A o \in Ops : op[o].touch \subseteq Servers
  BY DEF TypeOK, OpState
<1>2. UNION {op[o].touch : o \in InFlight} \subseteq Servers
  BY <1>1 DEF InFlight
<1>3. \A s \in Busy : s \in Servers
  BY <1>2 DEF Busy
<1> QED
  BY <1>3

LEMMA NoViewType == NoView \in View
BY DEF NoView, View

LEMMA IdleOpType == IdleOp \in OpState
BY NoViewType DEF IdleOp, OpState, View

LEMMA ToldFields ==
  ASSUME TypeOK, NEW o \in Ops, NEW t \in SUBSET Servers
  PROVE  /\ Told(o, t) \in OpState
         /\ Told(o, t).pc = op[o].pc /\ Told(o, t).job = op[o].job
         /\ Told(o, t).view = op[o].view /\ Told(o, t).row = op[o].row
         /\ Told(o, t).srv = op[o].srv /\ Told(o, t).list = op[o].list
         /\ Told(o, t).left = op[o].left
<1>1. op[o] \in OpState
  BY DEF TypeOK
<1>2. \A q \in OpState : LET n == [q EXCEPT !.missed = @ \union t] IN
        /\ n \in OpState /\ n.pc = q.pc /\ n.job = q.job /\ n.view = q.view
        /\ n.row = q.row /\ n.srv = q.srv /\ n.list = q.list /\ n.left = q.left
  BY DEF OpState
<1> QED
  BY <1>1, <1>2 DEF Told

LEMMA GotoFields ==
  ASSUME NEW q \in OpState,
         NEW pc \in {"read", "init_file", "init_apply", "dirs", "scripts", "stage", "apply",
                     "schedule", "commit"},
         NEW n, n = [q EXCEPT !.pc = pc]
  PROVE  /\ n \in OpState
         /\ n.pc = pc /\ n.job = q.job /\ n.view = q.view /\ n.row = q.row
         /\ n.srv = q.srv /\ n.list = q.list /\ n.left = q.left
BY DEF OpState

LEMMA EntriesType ==
  ASSUME NEW view \in View, NEW s PROVE Entries(view, s) \in SUBSET Entry
<1>1. \A j \in ActiveOf(view, s) : j \in Jobs /\ view[j] \in Row
  BY DEF ActiveOf, JobsOf, Live, View
<1> QED
  BY <1>1 DEF Entries, Entry, Row

\* What a request holds of job j before it writes.
LEMMA Writing ==
  ASSUME TypeOK, NEW o \in Ops, op[o].pc = "write"
  PROVE  /\ op[o].job \in Jobs /\ op[o].view \in View /\ op[o].missed \in SUBSET Servers
         /\ jobs[op[o].job] \in Row /\ op[o].view[op[o].job] \in Row
<1>1. op[o] \in OpState /\ WellFormed(o) /\ jobs \in View
  BY DEF TypeOK, View
<1> QED
  BY <1>1, JobSyncAssumption DEF OpState, WellFormed, View

LEMMA PatchedType ==
  ASSUME NEW row \in Row, NEW d \in Requests PROVE Patched(row, d) \in Row
<1>1. /\ d.ssh \in Servers \union {None} /\ d.body \in Bodies \union {None}
      /\ d.isActive \in 0..1 \union {None} /\ d.isDel \in 0..1 \union {None}
  BY DEF Requests
<1>2. PICK s \in Servers, b \in Bodies, a \in 0..1, g \in 0..1 :
        Patched(row, d) = [row EXCEPT !.ssh = s, !.body = b, !.isActive = a, !.isDel = g]
  <2>1. /\ row.ssh \in Servers /\ row.body \in Bodies
        /\ row.isActive \in 0..1 /\ row.isDel \in 0..1
    BY DEF Row
  <2>2. (IF d.ssh = None THEN row.ssh ELSE d.ssh) \in Servers
    BY <1>1, <2>1
  <2>3. (IF d.body = None THEN row.body ELSE d.body) \in Bodies
    BY <1>1, <2>1
  <2>4. (IF d.isActive = None THEN row.isActive ELSE d.isActive) \in 0..1
    BY <1>1, <2>1
  <2>5. (IF d.isDel = None THEN row.isDel ELSE d.isDel) \in 0..1
    BY <1>1, <2>1
  <2> QED
    BY <2>2, <2>3, <2>4, <2>5 DEF Patched, Row
<1> QED
  BY <1>2 DEF Row

\* What a step leaves the requests with, when it keeps the rows there are.
GoodOps(ops) == /\ ops \in [Ops -> OpState]
                /\ \A o \in Ops :
                     /\ ops[o].job # None <=> ops[o].pc \notin {"idle", "left"}
                     /\ ops[o].srv # None <=> ops[o].pc \notin {"idle", "write"}
                     /\ ops[o].left # {} <=> ops[o].pc = "left"
                     /\ ops[o].row # None => ops[o].pc \notin {"idle", "write", "left"}
                     /\ ops[o].pc = "write" => /\ ops[o].view[ops[o].job] # None
                                               /\ jobs[ops[o].job] # None

LEMMA OpsGood == TypeOK => GoodOps(op)
BY DEF TypeOK, GoodOps, WellFormed, PastWrite

\* What a step may do to a request, but for the fields no invariant reads: nothing, ...
Holds(x) == /\ op'[x].job = op[x].job /\ op'[x].view = op[x].view /\ op'[x].row = op[x].row
            /\ op'[x].srv = op[x].srv /\ op'[x].list = op[x].list
            /\ op'[x].left = op[x].left
Same(x) == op'[x].pc = op[x].pc /\ Holds(x)
\* ... go on, ...
Moves(o, pc) == op'[o].pc = pc /\ Holds(o) /\ \A x \in Ops \ {o} : Same(x)
\* ... end, with some commands that go on, ...
Ended(o) == /\ op'[o].pc \in {"idle", "left"} /\ op'[o].job = None /\ op'[o].row = None
            /\ op'[o].list = {} /\ op'[o].left \subseteq Sent(o)
            /\ op'[o].left # {} => op'[o].srv = op[o].srv
Stops(o) == Ended(o) /\ \A x \in Ops \ {o} : Same(x)
\* ... or start to work at server s.
Starts(o, j, row, view, s) ==
  /\ op'[o].pc = "read" /\ op'[o].job = j /\ op'[o].row = row /\ op'[o].srv = s
  /\ op'[o].list = Entries(view, s) /\ op'[o].left = {}
  /\ \A x \in Ops \ {o} : Same(x)

LEMMA GotoStep ==
  ASSUME TypeOK, NEW o \in Ops, PastWrite(o),
         NEW pc \in {"read", "init_file", "init_apply", "dirs", "scripts", "stage", "apply",
                     "schedule", "commit"},
         Goto(o, pc)
  PROVE  GoodOps(op') /\ Moves(o, pc)
<1>1. op[o] \in OpState /\ \A x \in Ops : op[x] \in OpState
  BY DEF TypeOK
<1>2. PICK q : q = [op[o] EXCEPT !.pc = pc]
  OBVIOUS
<1>3. /\ q \in OpState /\ q.pc = pc /\ q.job = op[o].job /\ q.view = op[o].view
      /\ q.row = op[o].row /\ q.srv = op[o].srv /\ q.list = op[o].list
      /\ q.left = op[o].left
  BY <1>1, <1>2, GotoFields
<1>4. op' = [op EXCEPT ![o] = q]
  BY <1>2 DEF Goto
<1>5. GoodOps(op')
  BY <1>3, <1>4, OpsGood DEF GoodOps, PastWrite
<1>6. Moves(o, pc)
  BY <1>3, <1>4 DEF TypeOK, Moves, Same, Holds
<1> QED
  BY <1>5, <1>6

LEMMA IdleFields ==
  /\ IdleOp.pc = "idle" /\ IdleOp.job = None /\ IdleOp.srv = None /\ IdleOp.row = None
  /\ IdleOp.list = {} /\ IdleOp.left = {}
BY DEF IdleOp

\* What a request has sent: what is on its list or left of it, for its server.
LEMMA SentBy ==
  ASSUME TypeOK, NEW o \in Ops
  PROVE  /\ Sent(o) \in SUBSET Command
         /\ Sent(o) # {} => op[o].srv \in Servers
         /\ \A c \in Sent(o) : /\ c \in op[o].left \/ c.list \subseteq op[o].list
                               /\ c.do = "file" => \/ c \in op[o].left \/ c.list = {}
                                                   \/ op[o].pc = "stage"
<1>1. op[o] \in OpState /\ WellFormed(o)
  BY DEF TypeOK
<1>2. op[o].list \subseteq Entry /\ op[o].left \subseteq Command
  BY <1>1 DEF OpState
<1>3. \A l \in SUBSET op[o].list : l \in SUBSET Entry
  BY <1>2
<1>4. /\ {} \in SUBSET op[o].list /\ \A e \in op[o].list : {e} \in SUBSET op[o].list
      /\ op[o].list \in SUBSET op[o].list
  OBVIOUS
<1>5. ASSUME NEW c \in Sent(o)
      PROVE  \/ c \in op[o].left
             \/ /\ op[o].pc \in {"dirs", "scripts", "init_file", "stage", "init_apply", "apply"}
                /\ \E d \in {"dirs", "scripts", "file", "cron"}, l \in SUBSET op[o].list :
                     /\ c = [do |-> d, list |-> l]
                     /\ d = "file" => l = {} \/ op[o].pc = "stage"
  BY <1>4, <1>5 DEF Sent
<1>6. \A c \in Sent(o) : /\ c \in Command
                         /\ c \in op[o].left \/ c.list \subseteq op[o].list
                         /\ c.do = "file" => \/ c \in op[o].left \/ c.list = {}
                                             \/ op[o].pc = "stage"
  BY <1>2, <1>3, <1>5 DEF Command
<1>7. ASSUME NEW c \in Sent(o) PROVE op[o].srv \in Servers
  <2>1. op[o].pc \notin {"idle", "write"}
    BY <1>1, <1>5 DEF WellFormed
  <2> QED
    BY <1>1, <2>1 DEF WellFormed, OpState
<1> QED
  BY <1>6, <1>7

LEMMA StoppedFields ==
  ASSUME TypeOK, NEW o \in Ops, NEW cs \in SUBSET Sent(o), NEW n, n = Stopped(o, cs)
  PROVE  /\ n \in OpState /\ n.pc = (IF cs = {} THEN "idle" ELSE "left")
         /\ n.job = None /\ n.row = None /\ n.list = {} /\ n.left = cs
         /\ n.srv = (IF cs = {} THEN None ELSE op[o].srv)
<1>1. CASE cs = {}
  BY <1>1, IdleFields, IdleOpType DEF Stopped
<1>2. CASE cs # {}
  <2>1. op[o].srv \in Servers /\ cs \in SUBSET Command
    BY <1>2, SentBy
  <2>2. PICK srv, touch : srv = op[o].srv /\ touch = {srv}
    OBVIOUS
  <2>3. /\ n = [IdleOp EXCEPT !.pc = "left", !.srv = srv, !.left = cs, !.touch = touch]
        /\ touch \in SUBSET Servers /\ srv \in Servers
    BY <1>2, <2>1, <2>2 DEF Stopped
  <2>4. /\ n \in OpState /\ n.pc = "left" /\ n.job = None /\ n.row = None /\ n.list = {}
        /\ n.left = cs /\ n.srv = srv
    BY <2>1, <2>3, NoViewType DEF IdleOp, OpState, View
  <2> QED
    BY <1>2, <2>2, <2>4
<1> QED
  BY <1>1, <1>2

LEMMA StoppedStep ==
  ASSUME TypeOK, NEW o \in Ops, NEW cs \in SUBSET Sent(o), op' = [op EXCEPT ![o] = Stopped(o, cs)]
  PROVE  GoodOps(op') /\ Stops(o)
<1>1. PICK n : n = Stopped(o, cs)
  OBVIOUS
<1>2. op' = [op EXCEPT ![o] = n]
  BY <1>1
<1>3. /\ n \in OpState /\ n.pc = (IF cs = {} THEN "idle" ELSE "left")
      /\ n.job = None /\ n.row = None /\ n.list = {} /\ n.left = cs
      /\ n.srv = (IF cs = {} THEN None ELSE op[o].srv)
  BY <1>1, StoppedFields
<1>4. cs # {} => n.srv # None
  BY <1>3, SentBy, JobSyncAssumption
<1>5. GoodOps(op')
  BY <1>2, <1>3, <1>4, OpsGood DEF GoodOps
<1>6. Stops(o)
  BY <1>2, <1>3 DEF TypeOK, Stops, Ended, Same, Holds
<1> QED
  BY <1>5, <1>6

LEMMA StopStep ==
  ASSUME TypeOK, NEW o \in Ops, op' = [op EXCEPT ![o] = IdleOp]
  PROVE  GoodOps(op') /\ Stops(o)
<1>1. Stopped(o, {}) = IdleOp /\ {} \in SUBSET Sent(o)
  BY DEF Stopped
<1> QED
  BY <1>1, StoppedStep

LEMMA ToldStep ==
  ASSUME TypeOK, NEW t \in SUBSET Servers, op' = [o \in Ops |-> Told(o, t)]
  PROVE  GoodOps(op') /\ \A x \in Ops : Same(x)
<1>1. GoodOps(op')
  BY ToldFields, OpsGood DEF GoodOps
<1>2. \A x \in Ops : Same(x)
  BY ToldFields DEF Same, Holds
<1> QED
  BY <1>1, <1>2

LEMMA StartSyncStep ==
  ASSUME TypeOK, NEW o \in Ops, NEW j \in Jobs, NEW row \in Row \union {None},
         NEW view \in View, NEW s \in Servers, NEW holds \in SUBSET Servers,
         NEW touch \in SUBSET Servers, NEW missed \in SUBSET Servers,
         StartSync(o, j, row, view, s, holds, touch, missed)
  PROVE  GoodOps(op') /\ Starts(o, j, row, view, s)
<1>1. PICK list, active : list = Entries(view, s) /\ active = (CntJobsActive(view, s) > 0)
  OBVIOUS
<1>2. active \in BOOLEAN /\ list \in SUBSET Entry
  BY <1>1, EntriesType
<1>3. PICK n : n = [IdleOp EXCEPT !.pc = "read", !.job = j, !.row = row, !.srv = s,
                                  !.list = list, !.active = active, !.holds = holds,
                                  !.touch = touch, !.missed = missed]
  OBVIOUS
<1>4. /\ n \in OpState /\ n.pc = "read" /\ n.job = j /\ n.row = row /\ n.srv = s
      /\ n.list = list /\ n.left = {}
  BY <1>2, <1>3, NoViewType DEF IdleOp, OpState, View
<1>5. op' = [x \in Ops |-> IF x = o THEN n ELSE Told(x, touch)]
  BY <1>1, <1>3 DEF StartSync
<1>6. j # None /\ s # None
  BY JobSyncAssumption
<1>7. /\ op'[o] = n
      /\ \A x \in Ops \ {o} : op'[x] = Told(x, touch)
  BY <1>5
<1>8. \A x \in Ops \ {o} : op'[x] \in OpState /\ Same(x)
  BY <1>7, ToldFields DEF Same, Holds
<1>9. GoodOps(op')
  BY <1>4, <1>5, <1>6, <1>7, <1>8, OpsGood DEF GoodOps, Same, Holds
<1> QED
  BY <1>1, <1>4, <1>7, <1>8, <1>9 DEF Starts

-----------------------------------------------------------------------------
(* What the actions that write do, in those words. *)

\* A request that begins holds a live job, in a snapshot of the table.
LEMMA BeginStep ==
  ASSUME TypeOK, NEW o \in Ops, NEW j \in Jobs, Begin(o, j)
  PROVE  /\ GoodOps(op') /\ jobs[j] # None
         /\ op'[o].pc = "write" /\ op'[o].job = j /\ op'[o].view = jobs
         /\ op'[o].row = None /\ op'[o].list = {} /\ op'[o].left = {}
         /\ \A x \in Ops \ {o} : Same(x)
<1>1. jobs \in View /\ sshDeleted \in SUBSET Servers /\ Busy \in SUBSET Servers
  BY BusyType DEF TypeOK, View
<1>2. PICK n : n = [IdleOp EXCEPT !.pc = "write", !.job = j, !.view = jobs,
                                  !.gone = sshDeleted, !.missed = Busy]
  OBVIOUS
<1>3. /\ n \in OpState
      /\ n.pc = "write" /\ n.job = j /\ n.view = jobs /\ n.row = None /\ n.srv = None
      /\ n.list = {} /\ n.left = {}
  BY <1>1, <1>2, NoViewType DEF IdleOp, OpState, View
<1>4. op' = [op EXCEPT ![o] = n]
  BY <1>2 DEF Begin
<1>5. jobs[j] # None /\ j # None
  BY JobSyncAssumption DEF Begin
<1>6. GoodOps(op')
  BY <1>3, <1>4, <1>5, OpsGood DEF GoodOps
<1> QED
  BY <1>3, <1>4, <1>5, <1>6 DEF TypeOK, Same, Holds

\* A new job has a new id, and its request sees it beside the rows of the table.
LEMMA CreateStep ==
  ASSUME TypeOK, NEW o \in Ops, Create(o)
  PROVE  \E j \in fresh, s \in Servers, row \in Row :
           /\ fresh' = fresh \ {j} /\ row.ssh = s /\ row.isActive = 1 /\ row.isDel = 0
           /\ \/ op' = op
              \/ GoodOps(op') /\ Starts(o, j, row, [jobs EXCEPT ![j] = row], s)
<1>1. PICK j, s, b, row :
        /\ j \in fresh /\ s \in Servers /\ b \in Bodies
        /\ row = [ssh |-> s, body |-> b, isActive |-> 1, isDel |-> 0]
        /\ fresh' = fresh \ {j}
        /\ \/ StartSync(o, j, row, [jobs EXCEPT ![j] = row], s, {s}, {s}, Busy)
           \/ op' = op
  BY DEF Create
<1>2. row \in Row /\ row.ssh = s /\ row.isActive = 1 /\ row.isDel = 0
  BY <1>1 DEF Row
<1>3. /\ j \in Jobs /\ s \in Servers
      /\ [jobs EXCEPT ![j] = row] \in View /\ Busy \in SUBSET Servers
  BY <1>1, <1>2, BusyType DEF TypeOK, View
<1>4. CASE StartSync(o, j, row, [jobs EXCEPT ![j] = row], s, {s}, {s}, Busy)
  <2>1. PICK view : view = [jobs EXCEPT ![j] = row]
    OBVIOUS
  <2>2. GoodOps(op') /\ Starts(o, j, row, view, s)
    BY <1>2, <1>3, <1>4, <2>1, StartSyncStep
  <2> QED
    BY <1>1, <1>2, <2>1, <2>2
<1>5. CASE op' = op
  BY <1>1, <1>2, <1>5
<1> QED
  BY <1>1, <1>4, <1>5

\* A request that writes a job that is there writes a row of its organization that is not
\* deleted, or removes the last committed, or writes none.
Wrote(o, j, row, view, s) ==
  /\ row # None => view[j] = row /\ (row.isDel = 0 \/ Table!Removed(jobs[j], row))
  /\ \A i \in Jobs : view[i] # None =>
       /\ op[o].view[i] # None
       /\ \/ OrgOf[view[i].ssh] = OrgOf[op[o].view[i].ssh]
          \/ jobs[i] # None /\ view[i].ssh = jobs[i].ssh

LEMMA PatchStep ==
  ASSUME TypeOK, NEW o \in Ops, Patch(o)
  PROVE  /\ GoodOps(op') /\ op[o].pc = "write" /\ ~Locked(o)
         /\ \/ Stops(o)
            \/ \E row \in Row \union {None}, view \in View, s \in Servers :
                 Starts(o, op[o].job, row, view, s) /\ Wrote(o, op[o].job, row, view, s)
<1>1. PICK j, old : j = op[o].job /\ old = op[o].view
  OBVIOUS
<1>2. op[o].pc = "write" /\ ~Locked(o)
  BY DEF Patch
<1>3. /\ j \in Jobs /\ old \in View /\ op[o].missed \in SUBSET Servers
      /\ jobs[j] \in Row /\ old[j] \in Row
  BY <1>1, <1>2, Writing
<1>4. PICK d, new, row, view, s, holds :
        /\ d \in Requests /\ new = Patched(jobs[j], d)
        /\ row = IF new = jobs[j] THEN None ELSE new
        /\ view = IF new = jobs[j] THEN old ELSE [old EXCEPT ![j] = new]
        /\ s = view[j].ssh
        /\ holds = IF s # jobs[j].ssh THEN {s} ELSE {}
        /\ \/ /\ Visible(view, j, OrgOf[old[j].ssh])
              /\ StartSync(o, j, row, view, s, holds, {old[j].ssh, jobs[j].ssh, s}, op[o].missed)
           \/ op' = [op EXCEPT ![o] = IdleOp]
  <2> DEFINE new(d) == Patched(jobs[op[o].job], d)
             row(d) == IF new(d) = jobs[op[o].job] THEN None ELSE new(d)
             view(d) == IF new(d) = jobs[op[o].job] THEN op[o].view
                        ELSE [op[o].view EXCEPT ![op[o].job] = new(d)]
             s(d) == view(d)[op[o].job].ssh
             holds(d) == IF s(d) # jobs[op[o].job].ssh THEN {s(d)} ELSE {}
  <2>1. PICK d \in Requests :
          \/ /\ Visible(view(d), op[o].job, OrgOf[op[o].view[op[o].job].ssh])
             /\ StartSync(o, op[o].job, row(d), view(d), s(d), holds(d),
                          {op[o].view[op[o].job].ssh, jobs[op[o].job].ssh, s(d)}, op[o].missed)
          \/ op' = [op EXCEPT ![o] = IdleOp]
    BY Zenon DEF Patch
  <2>2. PICK n, r, v, t, h : n = new(d) /\ r = row(d) /\ v = view(d) /\ t = s(d) /\ h = holds(d)
    OBVIOUS
  <2>3. /\ n = Patched(jobs[j], d)
        /\ r = IF n = jobs[j] THEN None ELSE n
        /\ v = IF n = jobs[j] THEN old ELSE [old EXCEPT ![j] = n]
        /\ t = v[j].ssh
        /\ h = IF t # jobs[j].ssh THEN {t} ELSE {}
    BY <1>1, <2>2
  <2> HIDE DEF new, row, view, s, holds
  <2>4. \/ /\ Visible(v, j, OrgOf[old[j].ssh])
           /\ StartSync(o, j, r, v, t, h, {old[j].ssh, jobs[j].ssh, t}, op[o].missed)
        \/ op' = [op EXCEPT ![o] = IdleOp]
    BY <1>1, <2>1, <2>2
  <2> QED
    BY <2>3, <2>4
<1>5. new \in Row
  BY <1>3, <1>4, PatchedType
<1>6. row \in Row \union {None} /\ view \in View /\ s \in Servers
  BY <1>3, <1>4, <1>5 DEF View, Row
<1>7. CASE op' = [op EXCEPT ![o] = IdleOp]
  BY <1>2, <1>7, StopStep
<1>8. CASE /\ Visible(view, j, OrgOf[old[j].ssh])
           /\ StartSync(o, j, row, view, s, holds, {old[j].ssh, jobs[j].ssh, s}, op[o].missed)
  <2>1. jobs[j].ssh \in Servers /\ old[j].ssh \in Servers /\ holds \in SUBSET Servers
    BY <1>3, <1>4, <1>6 DEF Row
  <2>2. GoodOps(op') /\ Starts(o, j, row, view, s)
    BY <1>3, <1>6, <1>8, <2>1, StartSyncStep
  <2>3. view[j].isDel = 0 /\ OrgOf[view[j].ssh] = OrgOf[old[j].ssh]
    BY <1>8 DEF Visible
  <2>4. row # None => view[j] = row /\ row.isDel = 0
    BY <1>3, <1>4, <1>5, <2>3 DEF View
  <2>5. \A i \in Jobs : i # j => view[i] = old[i]
    BY <1>3, <1>4 DEF View
  <2>6. old[j] # None
    BY <1>3, JobSyncAssumption
  <2>7. Wrote(o, j, row, view, s)
    BY <1>1, <2>3, <2>4, <2>5, <2>6 DEF Wrote
  <2> QED
    BY <1>1, <1>2, <1>6, <2>2, <2>7
<1> QED
  BY <1>4, <1>7, <1>8

LEMMA DeleteStep ==
  ASSUME TypeOK, NEW o \in Ops, Delete(o)
  PROVE  /\ GoodOps(op') /\ op[o].pc = "write" /\ ~Locked(o)
         /\ \/ Stops(o)
            \/ \E row \in Row \union {None}, view \in View, s \in Servers :
                 Starts(o, op[o].job, row, view, s) /\ Wrote(o, op[o].job, row, view, s)
<1>1. PICK j, old : j = op[o].job /\ old = op[o].view
  OBVIOUS
<1>2. op[o].pc = "write" /\ ~Locked(o)
  BY DEF Delete
<1>3. /\ j \in Jobs /\ old \in View /\ op[o].missed \in SUBSET Servers
      /\ jobs[j] \in Row /\ old[j] \in Row
  BY <1>1, <1>2, Writing
<1>4. PICK new, row, view, s :
        /\ new = [jobs[j] EXCEPT !.isDel = 1]
        /\ row = IF jobs[j].isDel = 0 THEN new ELSE None
        /\ view = IF jobs[j].isDel = 0 THEN [old EXCEPT ![j] = new] ELSE old
        /\ s = old[j].ssh
        /\ \/ StartSync(o, j, row, view, s, {}, {s, jobs[j].ssh}, op[o].missed)
           \/ op' = [op EXCEPT ![o] = IdleOp]
  BY <1>1 DEF Delete
<1>5. new \in Row /\ new.ssh = jobs[j].ssh
  BY <1>3, <1>4 DEF Row
<1>6. row \in Row \union {None} /\ view \in View /\ s \in Servers
  BY <1>3, <1>4, <1>5 DEF View, Row
<1>7. CASE op' = [op EXCEPT ![o] = IdleOp]
  BY <1>2, <1>7, StopStep
<1>8. CASE StartSync(o, j, row, view, s, {}, {s, jobs[j].ssh}, op[o].missed)
  <2>1. jobs[j].ssh \in Servers
    BY <1>3 DEF Row
  <2>2. GoodOps(op') /\ Starts(o, j, row, view, s)
    BY <1>3, <1>6, <1>8, <2>1, StartSyncStep
  <2>3. jobs[j] # None /\ old[j] # None
    BY <1>3, JobSyncAssumption
  <2>4. row # None => view[j] = row /\ Table!Removed(jobs[j], row)
    BY <1>3, <1>4, <2>3 DEF View, Table!Removed
  <2>5. \A i \in Jobs : i # j => view[i] = old[i]
    BY <1>3, <1>4 DEF View
  <2>6. view[j] = old[j] \/ view[j].ssh = jobs[j].ssh
    BY <1>3, <1>4, <1>5 DEF View
  <2>7. Wrote(o, j, row, view, s)
    BY <1>1, <2>3, <2>4, <2>5, <2>6 DEF Wrote
  <2> QED
    BY <1>1, <1>2, <1>6, <2>2, <2>7
<1> QED
  BY <1>4, <1>7, <1>8

-----------------------------------------------------------------------------
(* Types are kept. *)

\* What a request that has written holds.
LEMMA Working ==
  ASSUME TypeOK, NEW o \in Ops, PastWrite(o)
  PROVE  /\ op[o].srv \in Servers /\ op[o].job \in Jobs
         /\ op[o].list \in SUBSET Entry /\ op[o].row \in Row \union {None}
         /\ op[o].touch \in SUBSET Servers /\ Listed(o) \in SUBSET Jobs
<1>1. op[o] \in OpState /\ WellFormed(o)
  BY DEF TypeOK
<1>2. op[o].list \in SUBSET Entry
  BY <1>1 DEF OpState
<1>3. \A e \in op[o].list : e.job \in Jobs
  BY <1>2 DEF Entry
<1> QED
  BY <1>1, <1>2, <1>3 DEF OpState, WellFormed, PastWrite, Listed

LEMMA ScriptsType ==
  ASSUME TypeOK, NEW o \in Ops, op[o].srv \in Servers, NEW es \in SUBSET Entry, ScriptsSet(o, es)
  PROVE  /\ script' \in [Servers -> [Jobs -> Bodies \union {None}]]
         /\ \A s \in Servers, j \in Jobs : script[s][j] # None => script'[s][j] # None
         /\ \A e \in es : script'[op[o].srv][e.job] # None
<1> DEFINE runs(j) == IF \E e \in es : e.job = j
                      THEN (CHOOSE e \in es : e.job = j).body ELSE script[op[o].srv][j]
<1>1. \A e \in es : e.job \in Jobs /\ e.body \in Bodies
  BY DEF Entry
<1>2. \A j : (\E e \in es : e.job = j) => runs(j) \in Bodies
  BY <1>1
<1>3. script \in [Servers -> [Jobs -> Bodies \union {None}]] /\ op[o].srv \in Servers
  BY DEF TypeOK
<1>4. \A j \in Jobs : /\ runs(j) \in Bodies \union {None}
                      /\ script[op[o].srv][j] # None => runs(j) # None
  BY <1>2, <1>3, JobSyncAssumption
<1>5. script' = [script EXCEPT ![op[o].srv] = [j \in Jobs |-> runs(j)]]
  BY DEF ScriptsSet
<1>6. \A e \in es : runs(e.job) # None
  BY <1>2, JobSyncAssumption
<1> HIDE DEF runs
<1> QED
  BY <1>1, <1>3, <1>4, <1>5, <1>6

LEMMA KeptGood ==
  ASSUME GoodOps(op'), jobs' = jobs
  PROVE  op' \in [Ops -> OpState] /\ \A o \in Ops : WellFormed(o)'
BY DEF GoodOps, WellFormed, PastWrite

LEMMA CommitStep ==
  ASSUME TypeOK, NEW o \in Ops, Commit(o)
  PROVE  /\ GoodOps(op') /\ Stops(o)
         /\ jobs' \in View /\ \A j \in Jobs : jobs[j] # None => jobs'[j] # None
         /\ op' \in [Ops -> OpState] /\ \A x \in Ops : WellFormed(x)'
<1>1. PastWrite(o) /\ op' = [op EXCEPT ![o] = IdleOp]
  BY DEF Commit, PastWrite
<1>2. GoodOps(op') /\ Stops(o)
  BY <1>1, StopStep
<1>3. op[o].job \in Jobs /\ op[o].row \in Row \union {None} /\ jobs \in View
  BY <1>1, Working DEF TypeOK, View
<1>4. jobs' \in View /\ \A j \in Jobs : jobs[j] # None => jobs'[j] # None
  BY <1>3 DEF Commit, View
<1>5. \A x \in Ops : op'[x].pc = "write" => op'[x].job \in Jobs
  BY <1>2 DEF GoodOps, OpState
<1>6. op' \in [Ops -> OpState] /\ \A x \in Ops : WellFormed(x)'
  BY <1>2, <1>4, <1>5 DEF GoodOps, WellFormed, PastWrite
<1> QED
  BY <1>2, <1>4, <1>6

LEMMA AbortStep ==
  ASSUME TypeOK, NEW o \in Ops, Abort(o)
  PROVE  GoodOps(op') /\ Stops(o)
BY StoppedStep DEF Abort

\* A command that lands does what it does for a request that awaits it.
LEMMA LandStep ==
  ASSUME TypeOK, NEW o \in Ops, Land(o)
  PROVE  /\ GoodOps(op') /\ Stops(o) /\ op[o].srv \in Servers
         /\ \E c \in op[o].left :
              /\ c \in Command
              /\ \A s \in Servers :
                   /\ file'[s] = file[s] \/ (s = op[o].srv /\ c.do = "file" /\ file'[s] = c.list)
                   /\ crontab'[s] = crontab[s] \/ (s = op[o].srv /\ crontab'[s] = file[s])
         /\ hasCrontab' \in SUBSET Servers
         /\ crontab' \in [Servers -> SUBSET Entry] /\ file' \in [Servers -> SUBSET Entry]
         /\ dirs' \in [Servers -> SUBSET Jobs]
         /\ script' \in [Servers -> [Jobs -> Bodies \union {None}]]
         /\ \A s \in Servers : dirs[s] \subseteq dirs'[s]
         /\ \A s \in Servers, j \in Jobs : script[s][j] # None => script'[s][j] # None
<1>1. PICK c \in op[o].left :
        /\ \/ c.do = "dirs" /\ DirsMade(o, {e.job : e \in c.list})
              /\ UNCHANGED <<hasCrontab, crontab, file, script>>
           \/ c.do = "scripts" /\ ScriptsSet(o, c.list)
              /\ UNCHANGED <<hasCrontab, crontab, file, dirs>>
           \/ c.do = "file" /\ file' = [file EXCEPT ![op[o].srv] = c.list]
              /\ UNCHANGED <<hasCrontab, crontab, dirs, script>>
           \/ c.do = "cron" /\ crontab' = [crontab EXCEPT ![op[o].srv] = file[op[o].srv]]
              /\ hasCrontab' = hasCrontab \union {op[o].srv} /\ UNCHANGED <<file, dirs, script>>
        /\ op' = [op EXCEPT ![o] = Stopped(o, @.left \ {c})]
  BY DEF Land
<1>2. op[o].pc = "left" /\ Sent(o) = op[o].left
  BY <1>1 DEF TypeOK, WellFormed, Sent
<1>3. op[o].srv \in Servers /\ c \in Command
  BY <1>1, <1>2, SentBy
<1>4. GoodOps(op') /\ Stops(o)
  <2>1. op' = [op EXCEPT ![o] = Stopped(o, op[o].left \ {c})]
    BY <1>1
  <2>2. op[o].left \ {c} \in SUBSET Sent(o)
    BY <1>2
  <2> QED
    BY <2>1, <2>2, StoppedStep
<1>5. c.list \in SUBSET Entry /\ {e.job : e \in c.list} \in SUBSET Jobs
  BY <1>3 DEF Command, Entry
<1>6. CASE c.do = "dirs" /\ DirsMade(o, {e.job : e \in c.list})
           /\ UNCHANGED <<hasCrontab, crontab, file, script>>
  BY <1>3, <1>4, <1>5, <1>6 DEF DirsMade, TypeOK
<1>7. CASE c.do = "scripts" /\ ScriptsSet(o, c.list)
           /\ UNCHANGED <<hasCrontab, crontab, file, dirs>>
  BY <1>3, <1>4, <1>5, <1>7, ScriptsType DEF TypeOK
<1>8. CASE c.do = "file" /\ file' = [file EXCEPT ![op[o].srv] = c.list]
           /\ UNCHANGED <<hasCrontab, crontab, dirs, script>>
  BY <1>3, <1>4, <1>5, <1>8 DEF TypeOK
<1>9. CASE c.do = "cron" /\ crontab' = [crontab EXCEPT ![op[o].srv] = file[op[o].srv]]
           /\ hasCrontab' = hasCrontab \union {op[o].srv} /\ UNCHANGED <<file, dirs, script>>
  BY <1>3, <1>4, <1>5, <1>9 DEF TypeOK
<1> QED
  BY <1>1, <1>6, <1>7, <1>8, <1>9

LEMMA CrashStep ==
  ASSUME TypeOK, Crash
  PROVE  GoodOps(op') /\ \A o \in Ops : Ended(o)
<1>1. PICK cs : op' = [o \in Ops |-> Stopped(o, Sent(o) \intersect cs)]
  BY DEF Crash
<1>2. ASSUME NEW o \in Ops
      PROVE  /\ op'[o] \in OpState /\ op'[o].pc \in {"idle", "left"} /\ Ended(o)
             /\ op'[o].job = None /\ op'[o].row = None
             /\ op'[o].left # {} <=> op'[o].pc = "left"
             /\ op'[o].srv # None <=> op'[o].pc = "left"
  <2>1. PICK mine : mine = Sent(o) \intersect cs
    OBVIOUS
  <2>2. op'[o] = Stopped(o, mine) /\ mine \in SUBSET Sent(o)
    BY <1>1, <2>1
  <2>3. /\ op'[o] \in OpState /\ op'[o].pc = (IF mine = {} THEN "idle" ELSE "left")
        /\ op'[o].job = None /\ op'[o].row = None /\ op'[o].list = {} /\ op'[o].left = mine
        /\ op'[o].srv = (IF mine = {} THEN None ELSE op[o].srv)
    BY <2>2, StoppedFields
  <2>4. mine # {} => op[o].srv # None
    BY <2>2, SentBy, JobSyncAssumption
  <2> QED
    BY <2>2, <2>3, <2>4 DEF Ended
<1>3. GoodOps(op')
  BY <1>1, <1>2 DEF GoodOps
<1> QED
  BY <1>2, <1>3

LEMMA TypeStep == TypeOK /\ [Next]_vars => TypeOK'
<1> SUFFICES ASSUME TypeOK, [Next]_vars PROVE TypeOK'
  OBVIOUS
<1> USE DEF dbVars, hostVars, memVars
<1>1. ASSUME NEW o \in Ops, NEW j \in Jobs, Begin(o, j) PROVE TypeOK'
  <2>1. GoodOps(op') /\ jobs' = jobs
    BY <1>1, BeginStep DEF Begin
  <2> QED
    BY <1>1, <2>1, KeptGood DEF TypeOK, Begin
<1>2. ASSUME NEW o \in Ops, Create(o) PROVE TypeOK'
  <2>1. (GoodOps(op') \/ op' = op) /\ fresh' \subseteq fresh
    BY <1>2, CreateStep
  <2>2. GoodOps(op') /\ jobs' = jobs
    BY <1>2, <2>1, OpsGood DEF Create
  <2> QED
    BY <1>2, <2>1, <2>2, KeptGood DEF TypeOK, Create
<1>3. ASSUME NEW o \in Ops, Write(o) PROVE TypeOK'
  <2>1. UNCHANGED <<dbVars, delete, hostVars, memVars, faults, disturbed>>
    BY <1>3 DEF Write, Patch, Delete
  <2>2. GoodOps(op')
    BY <1>3, PatchStep, DeleteStep DEF Write
  <2> QED
    BY <2>1, <2>2, KeptGood DEF TypeOK
<1>4. ASSUME NEW o \in Ops, ReadCron(o) PROVE TypeOK'
  <2>1. PICK pc \in {"dirs", "init_file"} : Goto(o, pc)
    BY <1>4 DEF ReadCron
  <2>2. GoodOps(op')
    BY <1>4, <2>1, GotoStep DEF ReadCron, PastWrite
  <2> QED
    BY <1>4, <2>2, KeptGood DEF TypeOK, ReadCron
<1>5. ASSUME NEW o \in Ops, InitCronFile(o) PROVE TypeOK'
  <2>1. PastWrite(o)
    BY <1>5 DEF InitCronFile, PastWrite
  <2>2. GoodOps(op') /\ op[o].srv \in Servers
    BY <1>5, <2>1, GotoStep, Working DEF InitCronFile
  <2> QED
    BY <1>5, <2>2, KeptGood DEF TypeOK, InitCronFile
<1>6. ASSUME NEW o \in Ops, PastWrite(o), NEW next \in {"read", "schedule"}, ApplyCronFile(o, next)
      PROVE  TypeOK'
  <2>1. GoodOps(op') /\ op[o].srv \in Servers
    BY <1>6, GotoStep, Working DEF ApplyCronFile
  <2> QED
    BY <1>6, <2>1, KeptGood DEF TypeOK, ApplyCronFile
<1>7. ASSUME NEW o \in Ops, CreateLogDirs(o) PROVE TypeOK'
  <2>1. PastWrite(o)
    BY <1>7 DEF CreateLogDirs, PastWrite
  <2>2. GoodOps(op') /\ op[o].srv \in Servers /\ Listed(o) \in SUBSET Jobs
    BY <1>7, <2>1, GotoStep, Working DEF CreateLogDirs
  <2> QED
    BY <1>7, <2>2, KeptGood DEF TypeOK, CreateLogDirs, DirsMade
<1>8. ASSUME NEW o \in Ops, SetJobScripts(o) PROVE TypeOK'
  <2>1. PastWrite(o)
    BY <1>8 DEF SetJobScripts, PastWrite
  <2>2. GoodOps(op') /\ script' \in [Servers -> [Jobs -> Bodies \union {None}]]
    BY <1>8, <2>1, GotoStep, Working, ScriptsType DEF SetJobScripts
  <2> QED
    BY <1>8, <2>2, KeptGood DEF TypeOK, SetJobScripts
<1>9. ASSUME NEW o \in Ops, SetCronFile(o) PROVE TypeOK'
  <2>1. PastWrite(o)
    BY <1>9 DEF SetCronFile, PastWrite
  <2>2. GoodOps(op') /\ op[o].srv \in Servers /\ op[o].list \in SUBSET Entry
    BY <1>9, <2>1, GotoStep, Working DEF SetCronFile
  <2> QED
    BY <1>9, <2>2, KeptGood DEF TypeOK, SetCronFile
<1>10. ASSUME NEW o \in Ops, Reschedule(o) PROVE TypeOK'
  <2>1. PastWrite(o)
    BY <1>10 DEF Reschedule, PastWrite
  <2>2. GoodOps(op') /\ op[o].srv \in Servers
    BY <1>10, <2>1, GotoStep, Working DEF Reschedule
  <2> QED
    BY <1>10, <2>2, KeptGood DEF TypeOK, Reschedule
<1>11. ASSUME NEW o \in Ops, Commit(o) PROVE TypeOK'
  <2>1. PastWrite(o)
    BY <1>11 DEF Commit, PastWrite
  <2>2. /\ jobs' \in [Jobs -> Row \union {None}] /\ op' \in [Ops -> OpState]
        /\ \A x \in Ops : WellFormed(x)'
    BY <1>11, CommitStep DEF View
  <2>3. disturbed' \in SUBSET Servers
    BY <1>11, <2>1, Working DEF TypeOK, Commit
  <2> QED
    BY <1>11, <2>2, <2>3 DEF TypeOK, Commit
<1>12. ASSUME NEW o \in Ops, Abort(o) PROVE TypeOK'
  <2>1. GoodOps(op')
    BY <1>12, AbortStep
  <2>2. disturbed' \in SUBSET Servers
    BY <1>12 DEF TypeOK, OpState, Abort
  <2>3. faults' \in 0..MaxFaults
    BY <1>12, JobSyncAssumption DEF TypeOK, Abort
  <2> QED
    BY <1>12, <2>1, <2>2, <2>3, KeptGood DEF TypeOK, Abort
<1>20. ASSUME NEW o \in Ops, Land(o) PROVE TypeOK'
  <2>1. GoodOps(op') /\ jobs' = jobs
    BY <1>20, LandStep DEF Land
  <2>2. UNCHANGED <<fresh, sshDeleted, delete, scheduled, boot, bootList, faults, disturbed>>
    BY <1>20 DEF Land
  <2> QED
    BY <1>20, <2>1, <2>2, LandStep, KeptGood DEF TypeOK
<1>13. ASSUME NEW s \in Servers, CheckDelete(s) PROVE TypeOK'
  <2>1. GoodOps(op')
    BY <1>13, ToldStep DEF CheckDelete
  <2> QED
    BY <1>13, <2>1, KeptGood DEF TypeOK, CheckDelete
<1>14. ASSUME NEW s \in Servers, WriteDelete(s) \/ EndDelete(s) \/ FailDelete(s) PROVE TypeOK'
  <2>1. GoodOps(op') /\ jobs' = jobs
    BY <1>14, OpsGood DEF WriteDelete, EndDelete, FailDelete
  <2>2. faults' \in 0..MaxFaults
    BY <1>14, JobSyncAssumption DEF TypeOK, WriteDelete, EndDelete, FailDelete
  <2> QED
    BY <1>14, <2>1, <2>2, KeptGood DEF TypeOK, WriteDelete, EndDelete, FailDelete
<1>15. CASE BootRead
  <2>1. GoodOps(op')
    BY <1>15, ToldStep DEF BootRead
  <2> QED
    BY <1>15, <2>1, KeptGood DEF TypeOK, BootRead
<1>16. CASE BootSchedule \/ BootFails
  <2>1. GoodOps(op') /\ jobs' = jobs
    BY <1>16, OpsGood DEF BootSchedule, BootFails
  <2>2. faults' \in 0..MaxFaults
    BY <1>16, JobSyncAssumption DEF TypeOK, BootSchedule, BootFails
  <2> QED
    BY <1>16, <2>1, <2>2, KeptGood DEF TypeOK, BootSchedule, BootFails
<1>17. CASE Crash
  <2>1. GoodOps(op') /\ jobs' = jobs
    BY <1>17, CrashStep DEF Crash
  <2>2. \A o \in Ops : op[o].touch \subseteq Servers
    BY DEF TypeOK, OpState
  <2>3. disturbed' \in SUBSET Servers
    BY <1>17, <2>2 DEF TypeOK, Crash
  <2>4. faults' \in 0..MaxFaults
    BY <1>17, JobSyncAssumption DEF TypeOK, Crash
  <2> QED
    BY <1>17, <2>1, <2>3, <2>4, KeptGood DEF TypeOK, Crash
<1>18. CASE UNCHANGED vars
  <2>1. GoodOps(op') /\ jobs' = jobs
    BY <1>18, OpsGood DEF vars
  <2> QED
    BY <1>18, <2>1, KeptGood DEF TypeOK, vars
<1>19. ASSUME NEW o \in Ops, ApplyInitFile(o) \/ ApplyCron(o) PROVE TypeOK'
  BY <1>6, <1>19 DEF ApplyInitFile, ApplyCron, PastWrite
<1> QED
  BY <1>1, <1>2, <1>3, <1>4, <1>5, <1>7, <1>8, <1>9, <1>10, <1>11, <1>12, <1>13, <1>14, <1>15,
     <1>16, <1>17, <1>18, <1>19, <1>20 DEF Next, Step, Sync

LEMMA TypeInit == Init => TypeOK
<1> SUFFICES ASSUME Init PROVE TypeOK
  OBVIOUS
<1>1. jobs \in [Jobs -> Row \union {None}] /\ op \in [Ops -> OpState]
  BY NoViewType, IdleOpType DEF Init, View
<1>2. \A o \in Ops : WellFormed(o)
  BY IdleFields DEF Init, WellFormed, PastWrite
<1> QED
  BY <1>1, <1>2, JobSyncAssumption DEF Init, TypeOK

\* Every variable keeps to its kind, and a request that writes finds the job it checked.
THEOREM TypeCorrect == Spec => []TypeOK
BY TypeInit, TypeStep, PTL DEF Spec

-----------------------------------------------------------------------------
(* What any step does to the requests and the crontabs. *)

\* A request ends, or goes on with what it knows and its locks.
Tame(x) == \/ Ended(x)
           \/ Holds(x) /\ \/ op'[x].pc = op[x].pc
                          \/ PastWrite(x) /\ op'[x].pc \notin {"idle", "write", "left"}

\* What is staged or installed on a server was so before, or a request brings it.
Brought ==
  \A s \in Servers : \A e \in crontab'[s] \union file'[s] :
    \/ e \in crontab[s] \union file[s]
    \/ \E o \in Ops : op[o].srv = s /\ (e \in op[o].list \/ \E c \in op[o].left : e \in c.list)

\* Directories and scripts stay.
Grows == /\ \A s \in Servers : dirs[s] \subseteq dirs'[s]
         /\ \A s \in Servers, j \in Jobs : script[s][j] # None => script'[s][j] # None

TameStep == /\ jobs' = jobs /\ fresh' = fresh /\ \A x \in Ops : Tame(x)

LEMMA TameMoves ==
  ASSUME NEW o \in Ops,
         \/ Stops(o)
         \/ PastWrite(o) /\ \E pc : pc \notin {"idle", "write", "left"} /\ Moves(o, pc)
  PROVE  \A x \in Ops : Tame(x)
BY DEF Stops, Moves, Tame, Same

LEMMA SyncTame ==
  ASSUME TypeOK, NEW o \in Ops, Sync(o) PROVE Commit(o) \/ TameStep
<1>0. ASSUME NEW pc \in {"read", "init_file", "init_apply", "dirs", "scripts", "stage",
                         "apply", "schedule", "commit"},
             PastWrite(o), Goto(o, pc)
      PROVE  \A x \in Ops : Tame(x)
  <2>1. Moves(o, pc)
    BY <1>0, GotoStep
  <2>2. pc \notin {"idle", "write", "left"}
    OBVIOUS
  <2> QED
    BY <1>0, <2>1, <2>2, TameMoves
<1> USE DEF dbVars, PastWrite
<1>1. CASE ReadCron(o)
  <2>1. PICK pc \in {"dirs", "init_file"} : Goto(o, pc)
    BY <1>1 DEF ReadCron
  <2> QED
    BY <1>0, <1>1, <2>1 DEF ReadCron, TameStep
<1>2. CASE InitCronFile(o)
  BY <1>0, <1>2 DEF InitCronFile, TameStep
<1>3. CASE ApplyInitFile(o) \/ ApplyCron(o)
  BY <1>0, <1>3 DEF ApplyInitFile, ApplyCron, ApplyCronFile, TameStep
<1>4. CASE CreateLogDirs(o)
  BY <1>0, <1>4 DEF CreateLogDirs, TameStep
<1>5. CASE SetJobScripts(o)
  BY <1>0, <1>5 DEF SetJobScripts, TameStep
<1>6. CASE SetCronFile(o)
  BY <1>0, <1>6 DEF SetCronFile, TameStep
<1>7. CASE Reschedule(o)
  BY <1>0, <1>7 DEF Reschedule, TameStep
<1> QED
  BY <1>1, <1>2, <1>3, <1>4, <1>5, <1>6, <1>7 DEF Sync

\* Only these steps change what the requests and the table know of a job.
LEMMA StepKinds ==
  ASSUME TypeOK, [Next]_vars
  PROVE  \/ TameStep
         \/ \E o \in Ops, j \in Jobs : Begin(o, j)
         \/ \E o \in Ops : Create(o) \/ Write(o) \/ Commit(o)
<1> USE DEF dbVars
<1>0. ASSUME jobs' = jobs, fresh' = fresh, \A x \in Ops : Same(x) PROVE TameStep
  BY <1>0 DEF TameStep, Tame, Same
<1>1. ASSUME NEW o \in Ops, Abort(o) \/ Land(o) PROVE TameStep
  BY <1>1, AbortStep, LandStep, TameMoves DEF Abort, Land, TameStep
<1>2. ASSUME NEW s \in Servers, CheckDelete(s) PROVE TameStep
  BY <1>0, <1>2, ToldStep DEF CheckDelete
<1>3. ASSUME NEW s \in Servers, WriteDelete(s) \/ EndDelete(s) \/ FailDelete(s) PROVE TameStep
  BY <1>0, <1>3 DEF WriteDelete, EndDelete, FailDelete, Same, Holds
<1>4. CASE BootRead
  BY <1>0, <1>4, ToldStep DEF BootRead
<1>5. CASE BootSchedule \/ BootFails
  BY <1>0, <1>5 DEF BootSchedule, BootFails, Same, Holds
<1>6. CASE Crash
  <2>1. \A x \in Ops : Ended(x)
    BY <1>6, CrashStep
  <2> QED
    BY <1>6, <2>1 DEF Crash, TameStep, Tame
<1>7. CASE UNCHANGED vars
  BY <1>0, <1>7 DEF vars, Same, Holds
<1> QED
  BY <1>1, <1>2, <1>3, <1>4, <1>5, <1>6, <1>7, SyncTame DEF Next, Step

\* Crontabs and scripts change in these steps.
LEMMA HostSteps ==
  ASSUME TypeOK, [Next]_vars
  PROVE  \/ UNCHANGED hostVars
         \/ \E o \in Ops : \/ InitCronFile(o) \/ ApplyInitFile(o) \/ CreateLogDirs(o)
                           \/ SetJobScripts(o) \/ SetCronFile(o) \/ ApplyCron(o) \/ Land(o)
BY DEF Next, Step, Write, Sync, Begin, Create, Patch, Delete, ReadCron, Reschedule, Commit, CheckDelete,
       WriteDelete, EndDelete, FailDelete, BootRead, BootSchedule, BootFails, Abort, Crash, vars

LEMMA HostChanges ==
  ASSUME TypeOK, [Next]_vars PROVE Brought /\ Grows
<1> USE DEF hostVars
<1>1. CASE UNCHANGED hostVars
  BY <1>1 DEF Brought, Grows
<1>2. ASSUME NEW o \in Ops, InitCronFile(o) PROVE Brought /\ Grows
  BY <1>2 DEF TypeOK, InitCronFile, Brought, Grows
<1>3. ASSUME NEW o \in Ops, ApplyInitFile(o) \/ ApplyCron(o) PROVE Brought /\ Grows
  BY <1>3 DEF TypeOK, ApplyInitFile, ApplyCron, ApplyCronFile, Brought, Grows
<1>4. ASSUME NEW o \in Ops, CreateLogDirs(o) PROVE Brought /\ Grows
  BY <1>4 DEF TypeOK, CreateLogDirs, DirsMade, Brought, Grows
<1>5. ASSUME NEW o \in Ops, SetJobScripts(o) PROVE Brought /\ Grows
  <2>1. PastWrite(o)
    BY <1>5 DEF SetJobScripts, PastWrite
  <2> QED
    BY <1>5, <2>1, Working, ScriptsType DEF SetJobScripts, Brought, Grows
<1>6. ASSUME NEW o \in Ops, SetCronFile(o) PROVE Brought /\ Grows
  BY <1>6 DEF TypeOK, SetCronFile, Brought, Grows
<1>7. ASSUME NEW o \in Ops, Land(o) PROVE Brought /\ Grows
  BY <1>7, LandStep DEF Brought, Grows
<1> QED
  BY <1>1, <1>2, <1>3, <1>4, <1>5, <1>6, <1>7, HostSteps

-----------------------------------------------------------------------------
(* Rows are written by one request at a time. *)

LEMMA LockedStep == TypeOK /\ RowsLocked /\ [Next]_vars => RowsLocked'
<1> SUFFICES ASSUME TypeOK, RowsLocked, [Next]_vars PROVE RowsLocked'
  OBVIOUS
<1>0. /\ \A j \in fresh : j \in Jobs /\ j # None
      /\ \A o \in Ops : PastWrite(o) => op[o].job # None
      /\ \A o \in Ops : op[o].row # None => PastWrite(o)
  BY JobSyncAssumption DEF TypeOK, WellFormed, PastWrite
<1>1. CASE TameStep
  <2>1. \A x \in Ops : PastWrite(x)' => PastWrite(x) /\ op'[x].job = op[x].job
    BY <1>1 DEF TameStep, Tame, Ended, Holds, PastWrite
  <2>2. \A x \in Ops : op'[x].row # None => op'[x].row = op[x].row /\ op'[x].job = op[x].job
    BY <1>1 DEF TameStep, Tame, Ended, Holds
  <2>3. \A x \in Ops : op'[x].job = None \/ op'[x].job = op[x].job
    BY <1>1 DEF TameStep, Tame, Ended, Holds
  <2> QED
    BY <1>0, <1>1, <2>1, <2>2, <2>3 DEF TameStep, RowsLocked
<1>2. ASSUME NEW o \in Ops, NEW j \in Jobs, Begin(o, j) PROVE RowsLocked'
  <2>1. jobs' = jobs /\ fresh' = fresh
    BY <1>2 DEF Begin, dbVars
  <2>2. /\ jobs[j] # None /\ op'[o].pc = "write" /\ op'[o].job = j /\ op'[o].row = None
        /\ \A x \in Ops \ {o} : Same(x)
    BY <1>2, BeginStep
  <2> QED
    BY <2>1, <2>2 DEF RowsLocked, PastWrite, Same, Holds
<1>3. ASSUME NEW o \in Ops, Create(o) PROVE RowsLocked'
  <2>1. PICK j \in fresh, s \in Servers, row \in Row :
          /\ fresh' = fresh \ {j}
          /\ op' = op \/ Starts(o, j, row, [jobs EXCEPT ![j] = row], s)
    BY <1>3, CreateStep
  <2>2. jobs' = jobs /\ jobs[j] = None /\ \A x \in Ops : op[x].job # j
    BY <1>3 DEF Create, RowsLocked
  <2>3. CASE op' = op
    BY <2>1, <2>2, <2>3 DEF RowsLocked, PastWrite
  <2>4. CASE Starts(o, j, row, [jobs EXCEPT ![j] = row], s)
    <3>1. op'[o].job = j /\ op'[o].row = row /\ \A x \in Ops \ {o} : Same(x)
      BY <2>4 DEF Starts
    <3> QED
      BY <2>1, <2>2, <3>1 DEF RowsLocked, PastWrite, Same, Holds
  <2> QED
    BY <2>1, <2>3, <2>4
<1>4. ASSUME NEW o \in Ops, Write(o) PROVE RowsLocked'
  <2>1. jobs' = jobs /\ fresh' = fresh
    BY <1>4 DEF Write, Patch, Delete, dbVars
  <2>2. op[o].pc = "write" /\ ~Locked(o)
    BY <1>4, PatchStep, DeleteStep DEF Write
  <2>3. \A x \in Ops \ {o} : ~(PastWrite(x) /\ op[x].job = op[o].job)
    BY <2>2 DEF Locked, PastWrite
  <2>4. \/ Stops(o)
        \/ \E row, view, s : Starts(o, op[o].job, row, view, s) /\ Wrote(o, op[o].job, row, view, s)
    BY <1>4, PatchStep, DeleteStep DEF Write
  <2>5. CASE Stops(o)
    <3>1. TameStep
      BY <2>1, <2>5, TameMoves DEF TameStep
    <3> QED
      BY <1>1, <3>1
  <2>6. CASE \E row, view, s :
               Starts(o, op[o].job, row, view, s) /\ Wrote(o, op[o].job, row, view, s)
    <3>1. op'[o].pc = "read" /\ op'[o].job = op[o].job
      BY <2>6 DEF Starts
    <3>2. \A x \in Ops \ {o} : Same(x)
      BY <2>6 DEF Starts
    <3> QED
      BY <2>1, <2>3, <3>1, <3>2 DEF RowsLocked, PastWrite, Same, Holds
  <2> QED
    BY <2>4, <2>5, <2>6
<1>5. ASSUME NEW o \in Ops, Commit(o) PROVE RowsLocked'
  <2>1. Stops(o) /\ fresh' = fresh /\ PastWrite(o)
    BY <1>5, CommitStep DEF Commit, PastWrite
  <2>2. Ended(o) /\ \A x \in Ops \ {o} : Same(x)
    BY <2>1 DEF Stops
  <2>3. \A j \in Jobs : j # op[o].job => jobs'[j] = jobs[j]
    BY <1>5 DEF Commit, TypeOK
  <2>4. \A x \in Ops \ {o} : op[x].row # None => op[x].job # op[o].job /\ op[x].job \in Jobs
    BY <1>0, <2>1, Working DEF RowsLocked
  <2> QED
    BY <1>0, <2>1, <2>2, <2>3, <2>4 DEF RowsLocked, PastWrite, Ended, Same, Holds
<1> QED
  BY <1>1, <1>2, <1>3, <1>4, <1>5, StepKinds

\* The row a request has written stays right: nobody else writes it before the commit.
LEMMA CurrentStep ==
  TypeOK /\ RowsLocked /\ OrgsApart /\ RowsCurrent /\ [Next]_vars => RowsCurrent'
<1> SUFFICES ASSUME TypeOK, RowsLocked, OrgsApart, RowsCurrent, [Next]_vars PROVE RowsCurrent'
  OBVIOUS
<1>0. \A x \in Ops : op[x].row # None => PastWrite(x) /\ op[x].job \in Jobs
  BY Working DEF TypeOK, WellFormed
<1>1. CASE TameStep
  <2>1. \A x \in Ops : op'[x].row # None => op'[x].row = op[x].row /\ op'[x].job = op[x].job
    BY <1>1 DEF TameStep, Tame, Ended, Holds
  <2> QED
    BY <1>1, <2>1 DEF TameStep, RowsCurrent
<1>2. ASSUME NEW o \in Ops, NEW j \in Jobs, Begin(o, j) PROVE RowsCurrent'
  <2>1. jobs' = jobs /\ op'[o].row = None /\ \A x \in Ops \ {o} : Same(x)
    BY <1>2, BeginStep DEF Begin, dbVars
  <2> QED
    BY <2>1 DEF RowsCurrent, Same, Holds
<1>3. ASSUME NEW o \in Ops, Create(o) PROVE RowsCurrent'
  <2>1. PICK j \in fresh, s \in Servers, row \in Row :
          /\ row.isActive = 1 /\ row.isDel = 0
          /\ op' = op \/ Starts(o, j, row, [jobs EXCEPT ![j] = row], s)
    BY <1>3, CreateStep
  <2>2. jobs' = jobs /\ jobs[j] = None
    BY <1>3 DEF Create, RowsLocked
  <2>3. CASE op' = op
    BY <2>2, <2>3 DEF RowsCurrent
  <2>4. CASE Starts(o, j, row, [jobs EXCEPT ![j] = row], s)
    <3>1. op'[o].job = j /\ op'[o].row = row /\ \A x \in Ops \ {o} : Same(x)
      BY <2>4 DEF Starts
    <3>2. Table!May(None, row)
      BY <2>1 DEF Table!May, Table!Added
    <3> QED
      BY <2>2, <3>1, <3>2 DEF RowsCurrent, Same, Holds
  <2> QED
    BY <2>1, <2>3, <2>4
<1>4. ASSUME NEW o \in Ops, Write(o) PROVE RowsCurrent'
  <2>1. jobs' = jobs /\ op[o].pc = "write" /\ jobs[op[o].job] # None
    BY <1>4 DEF Write, Patch, Delete, dbVars, TypeOK, WellFormed
  <2>2. \/ Stops(o)
        \/ \E row, view, s : Starts(o, op[o].job, row, view, s) /\ Wrote(o, op[o].job, row, view, s)
    BY <1>4, PatchStep, DeleteStep DEF Write
  <2>3. CASE Stops(o)
    BY <1>1, <2>1, <2>3, TameMoves, <1>4 DEF TameStep, Write, Patch, Delete, dbVars
  <2>4. CASE \E row, view, s :
               Starts(o, op[o].job, row, view, s) /\ Wrote(o, op[o].job, row, view, s)
    <3>1. PICK j, row, view, s :
            j = op[o].job /\ Starts(o, j, row, view, s) /\ Wrote(o, j, row, view, s)
      BY <2>4
    <3>2. op'[o].job = j /\ op'[o].row = row /\ \A x \in Ops \ {o} : Same(x)
      BY <3>1 DEF Starts
    <3>3. ASSUME row # None PROVE Table!May(jobs[j], row)
      <4>1. j \in Jobs /\ op[o].view[j] # None
        BY <2>1, <3>1, Writing, JobSyncAssumption
      <4>2. OrgOf[jobs[j].ssh] = OrgOf[op[o].view[j].ssh]
        BY <2>1, <3>1, <4>1 DEF OrgsApart, Belongs
      <4>3. view[j] = row /\ (row.isDel = 0 \/ Table!Removed(jobs[j], row))
        BY <3>1, <3>3 DEF Wrote
      <4>4. OrgOf[row.ssh] = OrgOf[op[o].view[j].ssh] \/ row.ssh = jobs[j].ssh
        BY <3>1, <3>3, <4>1, <4>3 DEF Wrote
      <4> QED
        BY <2>1, <3>1, <4>2, <4>3, <4>4 DEF Table!May, Table!Edited
    <3> QED
      BY <2>1, <3>1, <3>2, <3>3 DEF RowsCurrent, Same, Holds
  <2> QED
    BY <2>2, <2>3, <2>4
<1>5. ASSUME NEW o \in Ops, Commit(o) PROVE RowsCurrent'
  <2>1. Ended(o) /\ PastWrite(o) /\ \A x \in Ops \ {o} : Same(x)
    BY <1>5, CommitStep DEF Commit, PastWrite, Stops
  <2>2. \A j \in Jobs : j # op[o].job => jobs'[j] = jobs[j]
    BY <1>5 DEF Commit, TypeOK
  <2>3. \A x \in Ops \ {o} : op[x].row # None => op[x].job # op[o].job /\ op[x].job \in Jobs
    BY <1>0, <2>1 DEF RowsLocked
  <2> QED
    BY <2>1, <2>2, <2>3 DEF RowsCurrent, Ended, Same, Holds
<1> QED
  BY <1>1, <1>2, <1>3, <1>4, <1>5, StepKinds

-----------------------------------------------------------------------------
(* What runs can run. *)

\* The part of Installed that is about a request.
Prepared(o) ==
  /\ op[o].pc = "scripts" => \A e \in op[o].list : e.job \in dirs[op[o].srv]
  /\ op[o].pc = "stage" => \A e \in op[o].list : Runnable(op[o].srv, e)
  /\ \A c \in op[o].left : c.do = "file" => \A e \in c.list : Runnable(op[o].srv, e)

LEMMA RunnableKept ==
  ASSUME Grows, NEW s \in Servers, NEW e \in Entry, Runnable(s, e) PROVE Runnable(s, e)'
BY DEF Grows, Runnable, Entry

LEMMA LinesKept ==
  ASSUME TypeOK, Installed, Grows,
         \A s \in Servers : crontab'[s] \union file'[s] \subseteq crontab[s] \union file[s]
  PROVE  \A s \in Servers : \A e \in crontab'[s] \union file'[s] : Runnable(s, e)'
<1>1. \A s \in Servers : \A e \in crontab[s] \union file[s] : e \in Entry /\ Runnable(s, e)
  BY DEF TypeOK, Installed
<1> QED
  BY <1>1, RunnableKept

\* It asks nothing of its server that is not there yet.
Quiet(o) == op'[o].pc \notin {"scripts", "stage"} /\ op'[o].left = {}

LEMMA PreparedKept ==
  ASSUME TypeOK, Installed, Grows, NEW o \in Ops, Same(o) \/ Ended(o) \/ Quiet(o)
  PROVE  Prepared(o)'
<1>1. CASE Quiet(o)
  BY <1>1 DEF Prepared, Quiet
<1>2. CASE Same(o)
  <2>1. PICK srv, list, left : srv = op[o].srv /\ list = op[o].list /\ left = op[o].left
    OBVIOUS
  <2>2. /\ op'[o].pc = op[o].pc /\ op'[o].srv = srv /\ op'[o].list = list
        /\ op'[o].left = left
    BY <1>2, <2>1 DEF Same, Holds
  <2>3. op[o].pc \in {"scripts", "stage"} => srv \in Servers /\ list \subseteq Entry
    BY <2>1, Working DEF PastWrite
  <2>4. op[o].pc = "scripts" => \A e \in list : e.job \in dirs'[srv]
    BY <2>1, <2>3 DEF Installed, Grows
  <2>5. op[o].pc = "stage" => \A e \in list : Runnable(srv, e)'
    BY <2>1, <2>3, RunnableKept DEF Installed
  <2>6. left # {} => srv \in Servers /\ left \subseteq Command
    BY <2>1, SentBy DEF TypeOK, WellFormed, Sent
  <2>7. \A c \in left : c.do = "file" => \A e \in c.list : Runnable(srv, e)'
    BY <2>1, <2>6, RunnableKept DEF Installed, Command
  <2> QED
    BY <2>2, <2>4, <2>5, <2>7 DEF Prepared
<1>3. CASE Ended(o)
  <2>1. PICK srv, left : srv = op[o].srv /\ left = op'[o].left
    OBVIOUS
  <2>2. /\ op'[o].pc \notin {"scripts", "stage"} /\ left \subseteq Sent(o)
        /\ left # {} => op'[o].srv = srv
    BY <1>3, <2>1 DEF Ended
  <2>3. \A c \in left : srv \in Servers /\ c.list \subseteq Entry
    BY <2>1, <2>2, SentBy DEF Command
  <2>4. ASSUME NEW c \in left, c.do = "file" PROVE \A e \in c.list : Runnable(srv, e)
    <3>1. \/ c \in op[o].left \/ c.list = {}
          \/ op[o].pc = "stage" /\ c.list \subseteq op[o].list
      BY <2>2, <2>4, SentBy DEF TypeOK, WellFormed
    <3> QED
      BY <2>1, <2>4, <3>1 DEF Installed
  <2>5. \A c \in left : c.do = "file" => \A e \in c.list : Runnable(srv, e)'
    BY <2>3, <2>4, RunnableKept
  <2> QED
    BY <2>1, <2>2, <2>5 DEF Prepared
<1> QED
  BY <1>1, <1>2, <1>3

LEMMA InstalledStep == TypeOK /\ Installed /\ [Next]_vars => Installed'
<1> SUFFICES ASSUME TypeOK, Installed, [Next]_vars PROVE Installed'
  OBVIOUS
<1>1. Grows
  BY HostChanges
<1>2. ASSUME NEW o \in Ops, \A x \in Ops \ {o} : Same(x), Prepared(o)',
             \A s \in Servers : \A e \in crontab'[s] \union file'[s] : Runnable(s, e)'
      PROVE  Installed'
  <2>1. \A x \in Ops : Prepared(x)'
    BY <1>1, <1>2, PreparedKept
  <2> QED
    BY <1>2, <2>1 DEF Installed, Prepared
<1>3. ASSUME \A x \in Ops : Same(x) \/ Ended(x) \/ Quiet(x),
             \A s \in Servers : crontab'[s] \union file'[s] \subseteq crontab[s] \union file[s]
      PROVE  Installed'
  <2>1. \A x \in Ops : Prepared(x)'
    BY <1>1, <1>3, PreparedKept
  <2> QED
    BY <1>1, <1>3, <2>1, LinesKept DEF Installed, Prepared
<1> USE DEF hostVars, PastWrite
<1>4. ASSUME NEW o \in Ops, PastWrite(o),
             NEW pc \in {"read", "init_file", "init_apply", "dirs", "scripts", "stage",
                         "apply", "schedule", "commit"}, Goto(o, pc)
      PROVE  /\ \A x \in Ops \ {o} : Same(x)
             /\ op'[o].pc = pc /\ op'[o].srv = op[o].srv /\ op'[o].list = op[o].list
             /\ op'[o].left = {}
             /\ op[o].srv \in Servers /\ op[o].list \subseteq Entry
  BY <1>4, GotoStep, Working DEF Moves, Holds, TypeOK, WellFormed
<1>5. ASSUME NEW o \in Ops, NEW j \in Jobs, Begin(o, j) PROVE Installed'
  <2>1. UNCHANGED hostVars
    BY <1>5 DEF Begin
  <2>2. Quiet(o) /\ \A x \in Ops \ {o} : Same(x)
    BY <1>5, BeginStep DEF Quiet
  <2> QED
    BY <1>3, <2>1, <2>2
<1>6. ASSUME NEW o \in Ops, Create(o) PROVE Installed'
  <2>1. UNCHANGED hostVars
    BY <1>6 DEF Create
  <2>2. op' = op \/ (Quiet(o) /\ \A x \in Ops \ {o} : Same(x))
    BY <1>6, CreateStep DEF Starts, Quiet
  <2>3. \A x \in Ops : Same(x) \/ Quiet(x)
    BY <2>2 DEF Same, Holds
  <2> QED
    BY <1>3, <2>1, <2>3
<1>7. ASSUME NEW o \in Ops, Write(o) PROVE Installed'
  <2>1. UNCHANGED hostVars
    BY <1>7 DEF Write, Patch, Delete
  <2>2. (Ended(o) \/ Quiet(o)) /\ \A x \in Ops \ {o} : Same(x)
    BY <1>7, PatchStep, DeleteStep DEF Write, Starts, Stops, Quiet
  <2> QED
    BY <1>3, <2>1, <2>2
<1>8. ASSUME NEW o \in Ops, ReadCron(o) PROVE Installed'
  <2>1. PICK pc \in {"dirs", "init_file"} : Goto(o, pc)
    BY <1>8 DEF ReadCron
  <2>2. UNCHANGED hostVars /\ PastWrite(o)
    BY <1>8 DEF ReadCron
  <2>3. Quiet(o) /\ \A x \in Ops \ {o} : Same(x)
    BY <1>4, <2>1, <2>2 DEF Quiet
  <2> QED
    BY <1>3, <2>2, <2>3
<1>9. ASSUME NEW o \in Ops, InitCronFile(o) PROVE Installed'
  <2>1. Quiet(o) /\ \A x \in Ops \ {o} : Same(x)
    BY <1>4, <1>9 DEF InitCronFile, Quiet
  <2>2. \A s \in Servers : crontab'[s] \union file'[s] \subseteq crontab[s] \union file[s]
    BY <1>9 DEF InitCronFile, TypeOK
  <2> QED
    BY <1>3, <2>1, <2>2
<1>10. ASSUME NEW o \in Ops, ApplyInitFile(o) \/ ApplyCron(o) PROVE Installed'
  <2>1. Quiet(o) /\ \A x \in Ops \ {o} : Same(x)
    BY <1>4, <1>10 DEF ApplyInitFile, ApplyCron, ApplyCronFile, Quiet
  <2>2. \A s \in Servers : crontab'[s] \union file'[s] \subseteq crontab[s] \union file[s]
    BY <1>10 DEF ApplyInitFile, ApplyCron, ApplyCronFile, TypeOK
  <2> QED
    BY <1>3, <2>1, <2>2
<1>11. ASSUME NEW o \in Ops, CreateLogDirs(o) PROVE Installed'
  <2>1. PICK srv, list : srv = op[o].srv /\ list = op[o].list
    OBVIOUS
  <2>2. /\ op'[o].pc = "scripts" /\ op'[o].srv = srv /\ op'[o].list = list /\ op'[o].left = {}
        /\ srv \in Servers /\ \A x \in Ops \ {o} : Same(x)
    BY <1>4, <1>11, <2>1 DEF CreateLogDirs
  <2>3. \A e \in list : e.job \in dirs'[srv]
    BY <1>11, <2>1, <2>2 DEF CreateLogDirs, DirsMade, Listed, TypeOK
  <2>4. UNCHANGED <<crontab, file>>
    BY <1>11 DEF CreateLogDirs
  <2>5. Prepared(o)'
    BY <2>2, <2>3 DEF Prepared
  <2> QED
    BY <1>1, <1>2, <2>2, <2>4, <2>5, LinesKept
<1>12. ASSUME NEW o \in Ops, SetJobScripts(o) PROVE Installed'
  <2>1. PICK srv, list : srv = op[o].srv /\ list = op[o].list
    OBVIOUS
  <2>2. /\ op'[o].pc = "stage" /\ op'[o].srv = srv /\ op'[o].list = list /\ op'[o].left = {}
        /\ srv \in Servers /\ \A x \in Ops \ {o} : Same(x)
    BY <1>4, <1>12, <2>1 DEF SetJobScripts
  <2>3. \A e \in list : script'[srv][e.job] # None
    BY <1>12, <2>1, Working, ScriptsType DEF SetJobScripts
  <2>4. UNCHANGED <<crontab, file, dirs>> /\ \A e \in list : e.job \in dirs[srv]
    BY <1>12, <2>1 DEF SetJobScripts, Installed
  <2>5. Prepared(o)'
    BY <2>2, <2>3, <2>4 DEF Prepared, Runnable
  <2> QED
    BY <1>1, <1>2, <2>2, <2>4, <2>5, LinesKept
<1>13. ASSUME NEW o \in Ops, SetCronFile(o) PROVE Installed'
  <2>1. PICK srv, list : srv = op[o].srv /\ list = op[o].list
    OBVIOUS
  <2>2. /\ op'[o].pc = "apply" /\ list \subseteq Entry /\ op'[o].left = {}
        /\ srv \in Servers /\ \A x \in Ops \ {o} : Same(x)
    BY <1>4, <1>13, <2>1 DEF SetCronFile
  <2>3. /\ file' = [file EXCEPT ![srv] = list] /\ crontab' = crontab
        /\ \A e \in list : Runnable(srv, e)
    BY <1>13, <2>1 DEF SetCronFile, Installed
  <2>4. \A s \in Servers : \A e \in crontab'[s] \union file'[s] : e \in Entry /\ Runnable(s, e)
    BY <2>2, <2>3 DEF Installed, TypeOK
  <2>5. \A s \in Servers : \A e \in crontab'[s] \union file'[s] : Runnable(s, e)'
    BY <1>1, <2>4, RunnableKept
  <2>6. Prepared(o)'
    BY <2>2 DEF Prepared
  <2> QED
    BY <1>2, <2>2, <2>5, <2>6
<1>14. ASSUME NEW o \in Ops, Reschedule(o) PROVE Installed'
  <2>1. Quiet(o) /\ \A x \in Ops \ {o} : Same(x)
    BY <1>4, <1>14 DEF Reschedule, Quiet
  <2> QED
    BY <1>3, <1>14, <2>1 DEF Reschedule
<1>15. ASSUME NEW o \in Ops, Commit(o) \/ Abort(o) PROVE Installed'
  <2>1. Ended(o) /\ \A x \in Ops \ {o} : Same(x)
    BY <1>15, CommitStep, AbortStep DEF Stops
  <2> QED
    BY <1>3, <1>15, <2>1 DEF Commit, Abort
<1>19. ASSUME NEW o \in Ops, Land(o) PROVE Installed'
  <2>1. Ended(o) /\ \A x \in Ops \ {o} : Same(x)
    BY <1>19, LandStep DEF Stops
  <2>2. \A s \in Servers : \A e \in crontab'[s] \union file'[s] : e \in Entry /\ Runnable(s, e)
    <3>1. PICK c \in op[o].left :
            /\ c \in Command
            /\ \A s \in Servers :
                 /\ file'[s] = file[s] \/ (s = op[o].srv /\ c.do = "file" /\ file'[s] = c.list)
                 /\ crontab'[s] = crontab[s] \/ (s = op[o].srv /\ crontab'[s] = file[s])
      BY <1>19, LandStep
    <3>2. \A e \in c.list : e \in Entry /\ (c.do = "file" => Runnable(op[o].srv, e))
      BY <3>1 DEF Installed, Command
    <3>3. \A s \in Servers : \A e \in crontab[s] \union file[s] : e \in Entry /\ Runnable(s, e)
      BY DEF Installed, TypeOK
    <3> QED
      BY <3>1, <3>2, <3>3
  <2>3. \A s \in Servers : \A e \in crontab'[s] \union file'[s] : Runnable(s, e)'
    BY <1>1, <2>2, RunnableKept
  <2>4. \A x \in Ops : Prepared(x)'
    BY <1>1, <2>1, PreparedKept
  <2> QED
    BY <2>3, <2>4 DEF Installed, Prepared
<1>16. CASE BootRead \/ \E s \in Servers : CheckDelete(s)
  <2>1. PICK t \in SUBSET Servers : op' = [o \in Ops |-> Told(o, t)]
    <3>1. CASE BootRead
      BY <3>1 DEF BootRead
    <3>2. ASSUME NEW s \in Servers, CheckDelete(s)
          PROVE  \E t \in SUBSET Servers : op' = [o \in Ops |-> Told(o, t)]
      <4>1. {s} \in SUBSET Servers /\ op' = [o \in Ops |-> Told(o, {s})]
        BY <3>2 DEF CheckDelete
      <4> QED
        BY <4>1
    <3> QED
      BY <1>16, <3>1, <3>2
  <2>2. \A x \in Ops : Same(x)
    BY <2>1, ToldStep
  <2> QED
    BY <1>3, <1>16, <2>2 DEF BootRead, CheckDelete
<1>17. CASE \/ UNCHANGED vars \/ BootSchedule \/ BootFails
            \/ \E s \in Servers : WriteDelete(s) \/ EndDelete(s) \/ FailDelete(s)
  <2>1. op' = op /\ UNCHANGED hostVars
    BY <1>17 DEF vars, BootSchedule, BootFails, WriteDelete, EndDelete, FailDelete
  <2> QED
    BY <1>3, <2>1 DEF Same, Holds
<1>18. CASE Crash
  BY <1>3, <1>18, CrashStep DEF Crash
<1> QED
  BY <1>5, <1>6, <1>7, <1>8, <1>9, <1>10, <1>11, <1>12, <1>13, <1>14, <1>15, <1>16, <1>17, <1>18,
     <1>19 DEF Next, Step, Sync

-----------------------------------------------------------------------------
(* Organizations stay apart. *)

LEMMA BelongsKept ==
  ASSUME TypeOK, RowsLocked, OrgsApart, [Next]_vars, NEW j \in Jobs, NEW g, Belongs(j, g)
  PROVE  Belongs(j, g)'
<1>0. /\ j \notin fresh
      /\ jobs[j] # None => OrgOf[jobs[j].ssh] = g
      /\ \A o \in Ops : op[o].row # None /\ op[o].job = j => OrgOf[op[o].row.ssh] = g
  BY DEF Belongs
<1>1. CASE TameStep
  <2>1. \A x \in Ops : op'[x].row # None => op'[x].row = op[x].row /\ op'[x].job = op[x].job
    BY <1>1 DEF TameStep, Tame, Ended, Holds
  <2> QED
    BY <1>0, <1>1, <2>1 DEF TameStep, Belongs
<1>2. ASSUME NEW o \in Ops, NEW i \in Jobs, Begin(o, i) PROVE Belongs(j, g)'
  <2>1. op'[o].row = None /\ \A x \in Ops \ {o} : Same(x)
    BY <1>2, BeginStep
  <2> QED
    BY <1>0, <1>2, <2>1 DEF Begin, dbVars, Belongs, Same, Holds
<1>3. ASSUME NEW o \in Ops, Create(o) PROVE Belongs(j, g)'
  <2>1. PICK i \in fresh :
          /\ fresh' = fresh \ {i}
          /\ op' = op \/ (op'[o].job = i /\ \A x \in Ops \ {o} : Same(x))
    BY <1>3, CreateStep DEF Starts
  <2>2. i # j /\ jobs' = jobs
    BY <1>0, <1>3 DEF Create
  <2>3. \A x \in Ops : op'[x].job = j => op'[x].job = op[x].job /\ op'[x].row = op[x].row
    BY <2>1, <2>2 DEF Same, Holds
  <2> QED
    BY <1>0, <2>1, <2>2, <2>3 DEF Belongs
<1>4. ASSUME NEW o \in Ops, Write(o) PROVE Belongs(j, g)'
  <2>1. jobs' = jobs /\ fresh' = fresh
    BY <1>4 DEF Write, Patch, Delete, dbVars
  <2>2. CASE Stops(o)
    BY <1>1, <2>1, <2>2, TameMoves DEF TameStep
  <2>3. CASE \E row, view, s :
               Starts(o, op[o].job, row, view, s) /\ Wrote(o, op[o].job, row, view, s)
    <3>1. PICK row, view, s :
            Starts(o, op[o].job, row, view, s) /\ Wrote(o, op[o].job, row, view, s)
      BY <2>3
    <3>2. op'[o].row = row /\ op'[o].job = op[o].job /\ \A x \in Ops \ {o} : Same(x)
      BY <3>1 DEF Starts
    <3>3. ASSUME row # None, op[o].job = j PROVE OrgOf[row.ssh] = g
      <4>1. /\ view[j] = row /\ op[o].view[j] # None
            /\ \/ OrgOf[row.ssh] = OrgOf[op[o].view[j].ssh]
               \/ row.ssh = jobs[j].ssh
        <5>1. op[o].pc = "write"
          BY <1>4, PatchStep, DeleteStep DEF Write
        <5>2. view[j] = row
          BY <3>1, <3>3 DEF Wrote
        <5> QED
          BY <3>1, <3>3, <5>2 DEF Wrote
      <4>2. op[o].pc = "write" /\ jobs[j] # None
        BY <1>4, <3>3, PatchStep, DeleteStep, Writing, JobSyncAssumption DEF Write
      <4>3. OrgOf[jobs[j].ssh] = g /\ OrgOf[jobs[j].ssh] = OrgOf[op[o].view[j].ssh]
        BY <1>0, <4>1, <4>2 DEF OrgsApart, Belongs
      <4> QED
        BY <4>1, <4>3
    <3> QED
      BY <1>0, <2>1, <3>2, <3>3 DEF Belongs, Same, Holds
  <2>4. \/ Stops(o)
        \/ \E row, view, s : Starts(o, op[o].job, row, view, s) /\ Wrote(o, op[o].job, row, view, s)
    BY <1>4, PatchStep, DeleteStep DEF Write
  <2> QED
    BY <2>2, <2>3, <2>4
<1>5. ASSUME NEW o \in Ops, Commit(o) PROVE Belongs(j, g)'
  <2>1. op'[o].row = None /\ fresh' = fresh /\ \A x \in Ops \ {o} : Same(x)
    BY <1>5, CommitStep DEF Commit, Stops, Ended
  <2>2. jobs'[j] # None => OrgOf[jobs'[j].ssh] = g
    BY <1>0, <1>5 DEF Commit, TypeOK
  <2> QED
    BY <1>0, <2>1, <2>2 DEF Belongs, Same, Holds
<1> QED
  BY <1>1, <1>2, <1>3, <1>4, <1>5, StepKinds

\* The part of OrgsApart that is about a request.
Tenant(o) ==
  /\ \A e \in op[o].list : Belongs(e.job, OrgOf[op[o].srv])
  /\ \A c \in op[o].left : \A e \in c.list : Belongs(e.job, OrgOf[op[o].srv])
  /\ op[o].row # None => Belongs(op[o].job, OrgOf[op[o].row.ssh])
  /\ op[o].pc = "write" =>
       \A j \in Jobs : op[o].view[j] # None => Belongs(j, OrgOf[op[o].view[j].ssh])

\* A committed row tells whose its job is.
LEMMA RowTells ==
  ASSUME TypeOK, RowsLocked, OrgsApart, NEW j \in Jobs, jobs[j] # None
  PROVE  Belongs(j, OrgOf[jobs[j].ssh])
<1>1. j \notin fresh
  BY DEF RowsLocked
<1>2. \A o \in Ops : op[o].row # None /\ op[o].job = j =>
        OrgOf[jobs[j].ssh] = OrgOf[op[o].row.ssh]
  BY DEF OrgsApart, Belongs
<1> QED
  BY <1>1, <1>2 DEF Belongs

\* What a request that starts sees is what it lists.
LEMMA EntriesTenant ==
  ASSUME NEW view \in View, NEW s \in Servers, NEW e \in Entries(view, s)
  PROVE  e.job \in Jobs /\ view[e.job] # None /\ view[e.job].ssh = s
BY DEF Entries, ActiveOf, JobsOf, Live

LEMMA TenantKept ==
  ASSUME TypeOK, RowsLocked, OrgsApart, [Next]_vars, NEW o \in Ops, Tame(o)
  PROVE  Tenant(o)'
<1>0. \A e \in op[o].list : e.job \in Jobs /\ Belongs(e.job, OrgOf[op[o].srv])
  BY DEF TypeOK, OpState, Entry, OrgsApart
<1>1. \A c \in op[o].left : \A e \in c.list : e.job \in Jobs /\ Belongs(e.job, OrgOf[op[o].srv])
  BY DEF TypeOK, OpState, Command, Entry, OrgsApart
<1>2. PICK job, view, row, srv, list, left :
        /\ job = op[o].job /\ view = op[o].view /\ row = op[o].row /\ srv = op[o].srv
        /\ list = op[o].list /\ left = op[o].left
  OBVIOUS
<1>3. \A e \in list : Belongs(e.job, OrgOf[srv])'
  BY <1>0, <1>2, BelongsKept
<1>4. \A c \in left : \A e \in c.list : Belongs(e.job, OrgOf[srv])'
  BY <1>1, <1>2, BelongsKept
<1>5. CASE Ended(o)
  <2>1. /\ op'[o].pc # "write" /\ op'[o].row = None /\ op'[o].list = {}
        /\ \A c \in op'[o].left : c \in left \/ c.list \subseteq list
        /\ op'[o].left # {} => op'[o].srv = srv
    BY <1>2, <1>5, SentBy DEF Ended
  <2>2. \A c \in op'[o].left : \A e \in c.list : Belongs(e.job, OrgOf[srv])'
    BY <1>3, <1>4, <2>1
  <2> QED
    BY <2>1, <2>2 DEF Tenant
<1>6. CASE Holds(o) /\ (op'[o].pc = "write" => op[o].pc = "write")
  <2>1. op[o].row # None => op[o].job \in Jobs
    BY Working DEF TypeOK, WellFormed
  <2>4. /\ op'[o].job = job /\ op'[o].view = view /\ op'[o].row = row /\ op'[o].srv = srv
        /\ op'[o].list = list /\ op'[o].left = left
    BY <1>2, <1>6 DEF Holds
  <2>6. row # None => Belongs(job, OrgOf[row.ssh])'
    BY <1>2, <2>1, BelongsKept DEF OrgsApart
  <2>7. op[o].pc = "write" =>
          \A j \in Jobs : view[j] # None => Belongs(j, OrgOf[view[j].ssh])'
    BY <1>2, BelongsKept DEF OrgsApart
  <2> QED
    BY <1>3, <1>4, <1>6, <2>4, <2>6, <2>7 DEF Tenant
<1> QED
  BY <1>5, <1>6 DEF Tame, PastWrite

LEMMA OrgsStep == TypeOK /\ RowsLocked /\ OrgsApart /\ [Next]_vars => OrgsApart'
<1> SUFFICES ASSUME TypeOK, RowsLocked, OrgsApart, [Next]_vars PROVE OrgsApart'
  OBVIOUS
<1>1. \A s \in Servers : \A e \in crontab'[s] \union file'[s] : Belongs(e.job, OrgOf[s])'
  <2> SUFFICES ASSUME NEW s \in Servers, NEW e \in crontab'[s] \union file'[s]
               PROVE  e.job \in Jobs /\ Belongs(e.job, OrgOf[s])
    BY BelongsKept
  <2>1. /\ \A x \in crontab[s] \union file[s] : x.job \in Jobs
        /\ \A o \in Ops : \A x \in op[o].list : x.job \in Jobs
        /\ \A o \in Ops : \A c \in op[o].left : \A x \in c.list : x.job \in Jobs
    BY DEF TypeOK, OpState, Command, Entry
  <2>2. CASE e \in crontab[s] \union file[s]
    BY <2>1, <2>2 DEF OrgsApart
  <2>3. CASE \E o \in Ops : op[o].srv = s /\ (e \in op[o].list \/ \E c \in op[o].left : e \in c.list)
    BY <2>1, <2>3 DEF OrgsApart
  <2> QED
    BY <2>2, <2>3, HostChanges DEF Brought
<1>2. ASSUME \A x \in Ops : Tenant(x)' PROVE OrgsApart'
  BY <1>1, <1>2 DEF OrgsApart, Tenant
<1>3. \A x \in Ops : Same(x) => Tame(x)
  BY DEF Same, Tame
<1>4. CASE TameStep
  BY <1>2, <1>4, TenantKept DEF TameStep
<1>5. ASSUME NEW o \in Ops, NEW j \in Jobs, Begin(o, j) PROVE OrgsApart'
  <2>1. /\ op'[o].view = jobs /\ op'[o].row = None /\ op'[o].list = {} /\ op'[o].left = {}
        /\ \A x \in Ops \ {o} : Same(x)
    BY <1>5, BeginStep
  <2>2. \A i \in Jobs : jobs[i] # None => Belongs(i, OrgOf[jobs[i].ssh])'
    <3> SUFFICES ASSUME NEW i \in Jobs, jobs[i] # None
                 PROVE  Belongs(i, OrgOf[jobs[i].ssh])'
      OBVIOUS
    <3>1. PICK g : g = OrgOf[jobs[i].ssh]
      OBVIOUS
    <3>2. Belongs(i, g)'
      BY <3>1, RowTells, BelongsKept
    <3>3. jobs' = jobs
      BY <1>5 DEF Begin, dbVars
    <3> QED
      BY <3>1, <3>2, <3>3
  <2>3. jobs' = jobs
    BY <1>5 DEF Begin, dbVars
  <2>4. Tenant(o)'
    BY <2>1, <2>2, <2>3 DEF Tenant
  <2> QED
    BY <1>2, <1>3, <2>1, <2>4, TenantKept
<1>6. ASSUME NEW o \in Ops, Create(o) PROVE OrgsApart'
  <2>1. PICK j, s, row, view :
          /\ j \in fresh /\ s \in Servers /\ row \in Row
          /\ fresh' = fresh \ {j} /\ row.ssh = s /\ view = [jobs EXCEPT ![j] = row]
          /\ op' = op \/ Starts(o, j, row, view, s)
    BY <1>6, CreateStep
  <2>2. /\ jobs' = jobs /\ jobs[j] = None /\ j \in Jobs /\ view \in View
        /\ \A x \in Ops : op[x].job # j
    BY <1>6, <2>1 DEF Create, RowsLocked, TypeOK, View
  <2>3. CASE op' = op
    <3>1. \A x \in Ops : Tame(x)
      BY <2>3 DEF Tame, Holds
    <3> QED
      BY <1>2, <3>1, TenantKept
  <2>4. CASE Starts(o, j, row, view, s)
    <3>1. /\ op'[o].pc = "read" /\ op'[o].job = j /\ op'[o].row = row /\ op'[o].srv = s
          /\ op'[o].list = Entries(view, s) /\ op'[o].left = {}
          /\ \A x \in Ops \ {o} : Same(x)
      BY <2>4 DEF Starts
    <3>2. \A x \in Ops : op'[x].job = j => x = o
      BY <2>2, <3>1 DEF Same, Holds
    <3>3. Belongs(j, OrgOf[s])'
      BY <2>1, <2>2, <3>1, <3>2 DEF Belongs
    <3>4. ASSUME NEW e \in Entries(view, s) PROVE Belongs(e.job, OrgOf[s])'
      <4>1. e.job \in Jobs /\ view[e.job] # None /\ view[e.job].ssh = s
        BY <2>1, <2>2, EntriesTenant
      <4>2. e.job = j \/ jobs[e.job] = view[e.job]
        BY <2>1, <2>2, <4>1 DEF View
      <4>3. CASE jobs[e.job] = view[e.job]
        BY <4>1, <4>3, RowTells, BelongsKept
      <4> QED
        BY <3>3, <4>2, <4>3
    <3>5. Tenant(o)'
      BY <2>1, <3>1, <3>3, <3>4 DEF Tenant
    <3> QED
      BY <1>2, <1>3, <3>1, <3>5, TenantKept
  <2> QED
    BY <2>1, <2>3, <2>4
<1>7. ASSUME NEW o \in Ops, Write(o) PROVE OrgsApart'
  <2>1. op[o].pc = "write" /\ op[o].job \in Jobs
    BY <1>7, PatchStep, DeleteStep, Writing DEF Write
  <2>2. \/ Stops(o)
        \/ \E row \in Row \union {None}, view \in View, s \in Servers :
             Starts(o, op[o].job, row, view, s) /\ Wrote(o, op[o].job, row, view, s)
    BY <1>7, PatchStep, DeleteStep DEF Write
  <2>3. CASE Stops(o)
    <3>1. \A x \in Ops : Tame(x)
      BY <2>3, TameMoves
    <3> QED
      BY <1>2, <3>1, TenantKept
  <2>4. ASSUME NEW row \in Row \union {None}, NEW view \in View, NEW s \in Servers,
               Starts(o, op[o].job, row, view, s), Wrote(o, op[o].job, row, view, s)
        PROVE  OrgsApart'
    <3>1. PICK j : j = op[o].job
      OBVIOUS
    <3>2. /\ op'[o].pc = "read" /\ op'[o].job = j /\ op'[o].row = row /\ op'[o].srv = s
          /\ op'[o].list = Entries(view, s) /\ op'[o].left = {}
          /\ \A x \in Ops \ {o} : Same(x)
      BY <2>4, <3>1 DEF Starts
    <3>3. ASSUME NEW i \in Jobs, view[i] # None PROVE Belongs(i, OrgOf[view[i].ssh])'
      <4>1. Belongs(i, OrgOf[op[o].view[i].ssh])
        BY <2>1, <2>4, <3>3 DEF Wrote, OrgsApart
      <4>2. CASE OrgOf[view[i].ssh] = OrgOf[op[o].view[i].ssh]
        BY <4>1, <4>2, BelongsKept
      <4>3. CASE jobs[i] # None /\ view[i].ssh = jobs[i].ssh
        BY <4>3, RowTells, BelongsKept
      <4> QED
        BY <2>4, <3>3, <4>2, <4>3 DEF Wrote
    <3>4. \A e \in Entries(view, s) : Belongs(e.job, OrgOf[s])'
      <4>1. \A e \in Entries(view, s) : e.job \in Jobs /\ view[e.job] # None /\ view[e.job].ssh = s
        BY EntriesTenant
      <4> QED
        BY <3>3, <4>1
    <3>5. row # None => Belongs(j, OrgOf[row.ssh])'
      BY <2>1, <2>4, <3>1, <3>3 DEF Wrote
    <3>6. Tenant(o)'
      BY <3>2, <3>4, <3>5 DEF Tenant
    <3> QED
      BY <1>2, <1>3, <3>2, <3>6, TenantKept
  <2> QED
    BY <2>2, <2>3, <2>4
<1>8. ASSUME NEW o \in Ops, Commit(o) PROVE OrgsApart'
  <2>1. \A x \in Ops : Tame(x)
    BY <1>3, <1>8, CommitStep DEF Stops, Tame
  <2> QED
    BY <1>2, <2>1, TenantKept
<1> QED
  BY <1>4, <1>5, <1>6, <1>7, <1>8, StepKinds

-----------------------------------------------------------------------------
(* The theorems. *)

Inv == TypeOK /\ SyncInv

LEMMA InvInit == Init => Inv
<1> SUFFICES ASSUME Init PROVE SyncInv
  BY TypeInit DEF Inv
<1>1. \A o \in Ops : op[o] = IdleOp
  BY DEF Init
<1>2. Installed
  BY <1>1, IdleFields DEF Init, Installed
<1>3. RowsLocked
  BY <1>1, IdleFields, JobSyncAssumption DEF Init, NoView, RowsLocked, PastWrite
<1>4. OrgsApart
  BY <1>1, IdleFields DEF Init, OrgsApart
<1>5. RowsCurrent
  BY <1>1, IdleFields DEF Init, RowsCurrent
<1> QED
  BY <1>2, <1>3, <1>4, <1>5 DEF SyncInv

LEMMA InvStep == Inv /\ [Next]_vars => Inv'
BY TypeStep, InstalledStep, LockedStep, OrgsStep, CurrentStep DEF Inv, SyncInv

\* Requests install only what can run, write only rows they hold, of their organization,
\* and only what they are for: the parts of SyncInv are inductive together with the types.
THEOREM SyncInvariant == Spec => [](TypeOK /\ SyncInv)
<1>1. Spec => []Inv
  BY InvInit, InvStep, PTL DEF Spec
<1>2. Inv => TypeOK /\ SyncInv
  BY DEF Inv
<1> QED
  BY <1>1, <1>2, PTL

\* Every line of a crontab has its script and its log directory, whatever overlaps or fails.
THEOREM EntriesRunnable == Spec => []CronEntriesRunnable
<1>1. TypeOK /\ SyncInv => CronEntriesRunnable
  BY DEF SyncInv, Installed, Runnable, CronEntriesRunnable
<1> QED
  BY <1>1, SyncInvariant, PTL

\* No server runs a job of another organization.
THEOREM TenantsApart == Spec => []CronSameOrg
<1>1. TypeOK /\ SyncInv => CronSameOrg
  BY DEF SyncInv, OrgsApart, Belongs, CronSameOrg
<1> QED
  BY <1>1, SyncInvariant, PTL

\* A request takes a row when it writes it, makes it when it commits and drops it when it
\* stops, and may do so: the table and what requests hold of it follow JobTable.
THEOREM ImplementsJobTable == Spec => TableRefinement
<1> DEFINE Work(o) == IF op[o].row = None THEN None ELSE [job |-> op[o].job, new |-> op[o].row]
           work == [o \in Ops |-> Work(o)]
<1>1. Init => Table!TableInit
  <2>1. ASSUME Init PROVE jobs = [j \in Jobs |-> None] /\ \A o \in Ops : Work(o) = None
    BY <2>1, IdleFields DEF Init, NoView
  <2> QED
    BY <2>1 DEF Table!TableInit
<1>2. ASSUME TypeOK, SyncInv, [Next]_vars PROVE [Table!TableNext]_(Table!TableVars)
  <2>0. \A o \in Ops : op[o].row # None => PastWrite(o) /\ op[o].job \in Jobs
    BY <1>2, Working DEF TypeOK, WellFormed
  <2>1. ASSUME jobs' = jobs,
               \A o \in Ops : op'[o].row = None \/ (op'[o].row = op[o].row /\ op'[o].job = op[o].job)
        PROVE  Table!Drops
    <3>1. \A o \in Ops : Work(o)' \in {Work(o), None}
      BY <2>1
    <3> HIDE DEF Work
    <3>2. /\ work' \in [Ops -> {None} \union {work[o] : o \in Ops}]
          /\ \A o \in Ops : work'[o] \in {work[o], None}
      BY <3>1
    <3> USE DEF Work
    <3> QED
      BY <2>1, <3>2 DEF Table!Drops
  <2>2. ASSUME NEW o \in Ops, NEW j \in Jobs, NEW row \in Row,
               jobs' = jobs, op[o].row = None, op'[o].job = j, op'[o].row = row,
               \A x \in Ops \ {o} : Same(x) /\ (op[x].row # None => op[x].job # j)
        PROVE  Table!Takes(o)
    <3>1. SyncInv'
      BY <1>2, InvStep DEF Inv
    <3>2. Table!May(jobs[j], row)
      BY <2>2, <3>1, JobSyncAssumption DEF SyncInv, RowsCurrent
    <3>3. PICK n : n = [job |-> j, new |-> row] /\ n # None
      <4>1. [job |-> j, new |-> row] \in [job : Jobs, new : Row]
        OBVIOUS
      <4> QED
        BY <4>1, JobSyncAssumption
    <3>4. Work(o) = None /\ Work(o)' = n
      BY <2>2, <3>3, JobSyncAssumption
    <3>5. \A x \in Ops \ {o} : Work(x)' = Work(x)
      BY <2>2 DEF Same, Holds
    <3>6. \A x \in Ops : Work(x) # None => Work(x).job # j
      BY <2>2, <3>4
    <3> HIDE DEF Work
    <3>7. work[o] = None /\ work' = [work EXCEPT ![o] = n]
      BY <3>4, <3>5
    <3>8. \A x \in Ops : work[x] # None => work[x].job # j
      BY <3>6
    <3> USE DEF Work
    <3>9. row \in Table!NewRow
      BY DEF Row, Table!NewRow
    <3> QED
      BY <2>2, <3>2, <3>3, <3>4, <3>7, <3>8, <3>9 DEF Table!Takes
  <2>3. ASSUME NEW o \in Ops, Create(o) \/ Write(o) PROVE Table!Drops \/ Table!Takes(o)
    <3>1. jobs' = jobs
      BY <2>3 DEF Create, Write, Patch, Delete, dbVars
    <3>2. \/ op' = op \/ Stops(o)
          \/ \E j \in Jobs, row \in Row \union {None} : \E view, s :
               /\ Starts(o, j, row, view, s) /\ op[o].row = None
               /\ \A x \in Ops \ {o} : op[x].row # None => op[x].job # j
      <4>1. CASE Create(o)
        <5>1. op[o].row = None
          BY <2>0, <4>1 DEF Create, PastWrite
        <5>2. \A j \in fresh : j \in Jobs /\ \A x \in Ops : op[x].job # j
          BY <1>2 DEF SyncInv, RowsLocked, TypeOK
        <5>3. op' = op \/ \E j \in fresh, row \in Row : \E view, s : Starts(o, j, row, view, s)
          BY <1>2, <4>1, CreateStep
        <5> QED
          BY <5>1, <5>2, <5>3
      <4>2. CASE Write(o)
        <5>1. op[o].pc = "write" /\ ~Locked(o) /\ op[o].job \in Jobs
          BY <1>2, <4>2, PatchStep, DeleteStep, Writing DEF Write
        <5>2. op[o].row = None /\ \A x \in Ops \ {o} : op[x].row # None => op[x].job # op[o].job
          BY <2>0, <5>1 DEF PastWrite, Locked
        <5>3. \/ Stops(o)
              \/ \E row \in Row \union {None} : \E view, s : Starts(o, op[o].job, row, view, s)
          BY <1>2, <4>2, PatchStep, DeleteStep DEF Write
        <5> QED
          BY <5>1, <5>2, <5>3
      <4> QED
        BY <2>3, <4>1, <4>2
    <3>3. CASE op' = op \/ Stops(o)
      BY <2>1, <3>1, <3>3 DEF Stops, Ended, Same, Holds
    <3>4. ASSUME NEW j \in Jobs, NEW row \in Row \union {None}, NEW view, NEW s,
                 Starts(o, j, row, view, s), op[o].row = None,
                 \A x \in Ops \ {o} : op[x].row # None => op[x].job # j
          PROVE  Table!Drops \/ Table!Takes(o)
      <4>1. op'[o].job = j /\ op'[o].row = row /\ \A x \in Ops \ {o} : Same(x)
        BY <3>4 DEF Starts
      <4>2. CASE row = None
        BY <2>1, <3>1, <4>1, <4>2 DEF Same, Holds
      <4>3. CASE row \in Row
        BY <2>2, <3>1, <3>4, <4>1, <4>3
      <4> QED
        BY <4>2, <4>3
    <3> QED
      BY <3>2, <3>3, <3>4
  <2>4. ASSUME NEW o \in Ops, Commit(o) PROVE Table!Drops \/ Table!Makes(o)
    <3>1. op'[o].row = None /\ \A x \in Ops \ {o} : Same(x)
      BY <1>2, <2>4, CommitStep DEF Stops, Ended
    <3>2. CASE op[o].row = None
      BY <2>1, <2>4, <3>1, <3>2 DEF Commit, Same, Holds
    <3>3. CASE op[o].row # None
      <4>1. PICK n : n = [job |-> op[o].job, new |-> op[o].row]
        OBVIOUS
      <4>2. op[o].job \in Jobs /\ op[o].row \in Row
        BY <1>2, <2>0, <3>3, Working
      <4>3. n # None
        BY <4>1, <4>2, JobSyncAssumption
      <4>4. Work(o) = n /\ Work(o)' = None /\ \A x \in Ops \ {o} : Work(x)' = Work(x)
        BY <3>1, <3>3, <4>1 DEF Same, Holds
      <4> HIDE DEF Work
      <4>5. work[o] = n /\ work' = [work EXCEPT ![o] = None]
        BY <4>4
      <4> USE DEF Work
      <4>6. jobs' = [jobs EXCEPT ![n.job] = n.new]
        BY <2>4, <3>3, <4>1 DEF Commit
      <4> QED
        BY <4>3, <4>5, <4>6 DEF Table!Makes
    <3> QED
      BY <3>2, <3>3
  <2>5. ASSUME TameStep PROVE Table!Drops
    BY <2>1, <2>5 DEF TameStep, Tame, Ended, Holds
  <2>6. ASSUME NEW o \in Ops, NEW j \in Jobs, Begin(o, j) PROVE Table!Drops
    <3>1. jobs' = jobs /\ op'[o].row = None /\ \A x \in Ops \ {o} : Same(x)
      BY <1>2, <2>6, BeginStep DEF Begin, dbVars
    <3> QED
      BY <2>1, <3>1 DEF Same, Holds
  <2> HIDE DEF work
  <2>7. Table!Drops \/ \E o \in Ops : Table!Takes(o) \/ Table!Makes(o)
    BY <1>2, <2>3, <2>4, <2>5, <2>6, StepKinds
  <2> QED
    BY <2>7 DEF Table!TableNext
<1> QED
  BY <1>1, <1>2, SyncInvariant, PTL DEF Spec, TableRefinement, Table!TableSpec

=============================================================================
