----------------------- MODULE AgentProjects_proofs -----------------------
(***************************************************************************)
(* TLAPS proofs about AgentProjects, for any number of projects, requests, *)
(* jobs and versions: its typing, that a project's lock has exactly one    *)
(* owner while it is held, and what follows from that for the rows and the *)
(* files a job works on.                                                   *)
(***************************************************************************)
EXTENDS AgentDiagnosis, TLAPS

\* What the data of the program have to do with the threads' program points.
WellFormed ==
    /\ \A r \in Requests :
         /\ req[r].pc # "idle" => req[r].proj \in Projects /\ req[r].op \in Routes
         /\ req[r].pc \in {"is_file", "exists", "read", "lock"}
                => req[r].op \in DOMAIN AfterLock
         /\ req[r].pc = "submit" => req[r].op \in {"up", "down"}
    /\ \A j \in Jobs :
         /\ job[j].pc # "idle" => job[j].proj \in Projects /\ job[j].state = "running"
         /\ job[j].pc \in {"diagnose", "status"} => job[j].status # "none"

Typed == TypeOK /\ WellFormed

\* The part of TypeOK about the data the threads share.
SharedTyped ==
    /\ held \subseteq Projects
    /\ rows \in [Projects -> Row]
    /\ files \in [Projects -> Contents]
    /\ overlay \in [Projects -> Contents]
    /\ stack \in [Projects -> Stack]

-----------------------------------------------------------------------------
(* Typing *)

\* The initial state is well typed.
LEMMA InitTyped == Init => Typed
  BY SentinelAssumption
     DEF Init, Typed, TypeOK, WellFormed, NoSnap, NoRow, NoStack, NoJob, Idle, Row,
         RowStatus, Contents, Stack, Request, RequestPC, Routes, Answers, Job, JobPC,
         JobState

\* A request that has been answered is an idle one.
LEMMA IdleType ==
    ASSUME NEW ans \in Answers
    PROVE  Idle(ans) \in Request /\ Idle(ans).pc = "idle" /\ Idle(ans).ans = ans
  BY DEF Idle, Request, RequestPC, NoSnap, NoRow, Row

\* A step that gives one request a well-formed record keeps every type.
LEMMA RequestTyped ==
    ASSUME Typed, NEW r \in Requests, NEW x \in Request,
           req' = [req EXCEPT ![r] = x], UNCHANGED job, SharedTyped',
           x.pc # "idle" => x.proj \in Projects /\ x.op \in Routes,
           x.pc \in {"is_file", "exists", "read", "lock"} => x.op \in DOMAIN AfterLock,
           x.pc = "submit" => x.op \in {"up", "down"}
    PROVE  Typed'
  BY DEF Typed, TypeOK, WellFormed, SharedTyped

\* A request that answers.
LEMMA ReplyTyped ==
    ASSUME Typed, NEW r \in Requests, NEW ans \in Answers, Reply(r, ans),
           UNCHANGED job, SharedTyped'
    PROVE  Typed'
  BY IdleType, RequestTyped DEF Reply, Answers

\* A request that goes on to another program point.
LEMMA GoToTyped ==
    ASSUME Typed, NEW r \in Requests, NEW pc \in RequestPC \ {"idle"}, GoTo(r, pc),
           req[r].pc # "idle",
           pc \in {"is_file", "exists", "read", "lock"} => req[r].op \in DOMAIN AfterLock,
           pc = "submit" => req[r].op \in {"up", "down"},
           UNCHANGED job, SharedTyped'
    PROVE  Typed'
<1> DEFINE x == [req[r] EXCEPT !.pc = pc]
<1>1. x \in Request /\ x.pc = pc /\ x.proj = req[r].proj /\ x.op = req[r].op
  BY DEF Typed, TypeOK, Request
<1>2. req' = [req EXCEPT ![r] = x]
  BY DEF GoTo
<1>3. req[r].proj \in Projects /\ req[r].op \in Routes
  BY DEF Typed, WellFormed
<1> HIDE DEF x
<1> QED BY <1>1, <1>2, <1>3, RequestTyped

\* A request that is about to leave its critical section.
LEMMA LeaveTyped ==
    ASSUME Typed, NEW r \in Requests, NEW ans \in Answers, Leave(r, ans),
           req[r].pc # "idle", UNCHANGED job, SharedTyped'
    PROVE  Typed'
<1> DEFINE x == [req[r] EXCEPT !.pc = "release", !.ans = ans]
<1>1. x \in Request /\ x.pc = "release" /\ x.proj = req[r].proj /\ x.op = req[r].op
  BY ZenonT(40) DEF Typed, TypeOK, Request, RequestPC
<1>2. req' = [req EXCEPT ![r] = x]
  BY DEF Leave
<1>3. req[r].proj \in Projects /\ req[r].op \in Routes
  BY DEF Typed, WellFormed
<1> HIDE DEF x
<1> QED BY <1>1, <1>2, <1>3, RequestTyped

\* A read that takes its snapshot, and a payload that has been built.
LEMMA SnapTyped ==
    ASSUME Typed, NEW r \in Requests, NEW snap \in [Projects -> Row],
           req[r].pc # "idle",
           req' = [req EXCEPT ![r].snap = snap, ![r].pc = "payload"],
           UNCHANGED job, SharedTyped'
    PROVE  Typed'
<1> DEFINE x == [req[r] EXCEPT !.snap = snap, !.pc = "payload"]
<1>1. x \in Request /\ x.pc = "payload" /\ x.proj = req[r].proj /\ x.op = req[r].op
  BY ZenonT(40) DEF Typed, TypeOK, Request, RequestPC
<1>2. req' = [req EXCEPT ![r] = x]
  OBVIOUS
<1>3. req[r].proj \in Projects /\ req[r].op \in Routes
  BY DEF Typed, WellFormed
<1> HIDE DEF x
<1> QED BY <1>1, <1>2, <1>3, RequestTyped

\* A read that takes the row of one project.
LEMMA SnapOneTyped ==
    ASSUME Typed, NEW r \in Requests, NEW p \in Projects, NEW row \in Row,
           req[r].pc # "idle",
           req' = [req EXCEPT ![r].snap[p] = row, ![r].pc = "payload"],
           UNCHANGED job, SharedTyped'
    PROVE  Typed'
<1> DEFINE s == [req[r].snap EXCEPT ![p] = row]
<1>1. s \in [Projects -> Row]
  BY DEF Typed, TypeOK, Request
<1>2. req' = [req EXCEPT ![r].snap = s, ![r].pc = "payload"]
  OBVIOUS
<1> HIDE DEF s
<1> QED BY <1>1, <1>2, SnapTyped

\* A payload that has been built: its row leaves the snapshot.
LEMMA PayloadBuiltTyped ==
    ASSUME Typed, NEW r \in Requests, NEW p \in Projects, PayloadBuilt(r, p),
           req[r].pc # "idle", UNCHANGED job, SharedTyped'
    PROVE  Typed'
<1> DEFINE s == [req[r].snap EXCEPT ![p] = NoRow]
<1>1. s \in [Projects -> Row]
  BY DEF Typed, TypeOK, Request, Row, NoRow
<1>2. CASE s = NoSnap
  <2>1. Reply(r, "ok") BY <1>2 DEF PayloadBuilt
  <2> QED BY <2>1, ReplyTyped DEF Answers
<1>3. CASE s # NoSnap
  <2>1. req' = [req EXCEPT ![r].snap = s, ![r].pc = "payload"]
    BY <1>3 DEF PayloadBuilt
  <2> HIDE DEF s
  <2> QED BY <1>1, <2>1, SnapTyped
<1> QED BY <1>2, <1>3

\* Every step of a request, its client's included, keeps the types.
LEMMA RequestStepTyped ==
    ASSUME Typed, NEW r \in Requests, ClientStep(r) \/ RequestStep(r)
    PROVE  Typed'
<1> DEFINE p == req[r].proj
<1> USE DEF Answers
<1>0. /\ SharedTyped
      /\ req \in [Requests -> Request] /\ job \in [Jobs -> Job]
      /\ req[r].ans \in Answers /\ req[r].snap \in [Projects -> Row]
      /\ req[r].pc # "idle" => p \in Projects /\ req[r].op \in Routes
      /\ req[r].pc \in {"is_file", "exists", "read", "lock"}
             => req[r].op \in DOMAIN AfterLock
  BY DEF Typed, TypeOK, WellFormed, SharedTyped, Request
<1>1. CASE \E op \in CallsOf[r], q \in Projects : Call(r, op, q)
  <2>1. PICK op \in CallsOf[r], q \in Projects : Call(r, op, q)
    BY <1>1
  <2> DEFINE x == [Idle("none") EXCEPT !.pc = "start", !.op = op, !.proj = q]
  <2>2. x \in Request /\ x.pc = "start" /\ x.op = op /\ x.proj = q
    BY IdleType, CallsAssumption DEF Request, RequestPC
  <2>3. req' = [req EXCEPT ![r] = x] /\ UNCHANGED <<held, rows, files, overlay, stack, job>>
    BY <2>1 DEF Call
  <2>4. op \in Routes
    BY CallsAssumption
  <2> HIDE DEF x
  <2> QED BY <1>0, <2>2, <2>3, <2>4, RequestTyped DEF SharedTyped
<1>2. CASE ReceiveBody(r)
  BY <1>0, <1>2, GoToTyped, LeaveTyped DEF ReceiveBody, SharedTyped, RequestPC
<1>3. CASE RequireRow(r)
  <2>1. CASE Reply(r, "refused")
    BY <1>0, <1>3, <2>1, ReplyTyped DEF RequireRow, SharedTyped
  <2>2. CASE GoTo(r, AfterRow[req[r].op])
    <3>1. AfterRow[req[r].op] \in {"lock", "is_file", "exists"}
          /\ req[r].op \in DOMAIN AfterLock
      BY <1>3 DEF RequireRow, AfterRow, AfterLock
    <3> QED BY <1>0, <1>3, <2>2, <3>1, GoToTyped DEF RequireRow, SharedTyped, RequestPC
  <2> QED BY <1>3, <2>1, <2>2 DEF RequireRow
<1>4. CASE Acquire(r)
  <2>1. CASE p \in held
    BY <1>0, <1>4, <2>1, ReplyTyped DEF Acquire, SharedTyped
  <2>2. CASE p \notin held
    <3>1. AfterLock[req[r].op] \in {"body", "unlink", "down", "submit"}
          /\ (AfterLock[req[r].op] = "submit" => req[r].op \in {"up", "down"})
      BY <1>0, <1>4 DEF Acquire, AfterLock
    <3>2. GoTo(r, AfterLock[req[r].op]) /\ SharedTyped' /\ UNCHANGED job
      BY <1>0, <1>4, <2>2 DEF Acquire, SharedTyped
    <3> QED BY <1>4, <3>1, <3>2, GoToTyped DEF Acquire, RequestPC
  <2> QED BY <2>1, <2>2
<1>5. CASE Release(r)
  <2>1. SharedTyped' /\ UNCHANGED job
    BY <1>0, <1>5 DEF Release, SharedTyped
  <2> QED BY <1>0, <1>5, <2>1, GoToTyped, ReplyTyped DEF Release, RequestPC
<1>6. CASE CreateCheck(r)
  BY <1>0, <1>6, GoToTyped, ReplyTyped DEF CreateCheck, SharedTyped, RequestPC
<1>7. CASE CreateInsert(r)
  <2>1. SharedTyped' /\ UNCHANGED job
    BY <1>0, <1>7 DEF CreateInsert, SharedTyped, Row, RowStatus
  <2> QED BY <1>7, <2>1, GoToTyped DEF CreateInsert, RequestPC
<1>8. CASE CreateReread(r)
  <2>1. SharedTyped' /\ UNCHANGED job /\ p \in Projects /\ rows[p] \in Row
    BY <1>0, <1>8 DEF CreateReread, SharedTyped
  <2> QED BY <1>8, <2>1, ReplyTyped, SnapOneTyped DEF CreateReread
<1>9. CASE GetProject(r)
  <2>1. SharedTyped' /\ UNCHANGED job /\ p \in Projects /\ rows[p] \in Row
    BY <1>0, <1>9 DEF GetProject, SharedTyped
  <2> QED BY ZenonT(40), <1>9, <2>1, ReplyTyped, SnapOneTyped DEF GetProject
<1>10. CASE ListProjects(r)
  <2>1. SharedTyped' /\ UNCHANGED job /\ rows \in [Projects -> Row]
    BY <1>0, <1>10 DEF ListProjects, SharedTyped
  <2> QED BY <1>10, <2>1, ReplyTyped, SnapTyped DEF ListProjects
<1>11. CASE PayloadExists(r)
  <2>1. SharedTyped' /\ UNCHANGED job /\ req[r].pc = "payload"
    BY <1>0, <1>11 DEF PayloadExists, SharedTyped
  <2>2. PICK q \in Projects :
          \/ PayloadBuilt(r, q)
          \/ req' = [req EXCEPT ![r].proj = q, ![r].pc = "payload_read"]
    BY <1>11 DEF PayloadExists
  <2>3. CASE PayloadBuilt(r, q)
    BY <2>1, <2>3, PayloadBuiltTyped
  <2>4. CASE req' = [req EXCEPT ![r].proj = q, ![r].pc = "payload_read"]
    <3> DEFINE x == [req[r] EXCEPT !.proj = q, !.pc = "payload_read"]
    <3>1. x \in Request /\ x.pc = "payload_read" /\ x.proj = q /\ x.op = req[r].op
      BY ZenonT(40), <1>0 DEF Request, RequestPC
    <3>2. req' = [req EXCEPT ![r] = x]
      BY <2>4
    <3> HIDE DEF x
    <3> QED BY <1>0, <2>1, <3>1, <3>2, RequestTyped
  <2> QED BY <2>2, <2>3, <2>4
<1>12. CASE PayloadRead(r)
  <2>1. SharedTyped' /\ UNCHANGED job /\ p \in Projects /\ req[r].pc # "idle"
    BY <1>0, <1>12 DEF PayloadRead, SharedTyped
  <2>2. \/ Reply(r, "internal") \/ PayloadBuilt(r, p) \/ GoTo(r, "probe")
    BY <1>12 DEF PayloadRead
  <2> QED BY <2>1, <2>2, ReplyTyped, PayloadBuiltTyped, GoToTyped DEF RequestPC
<1>13. CASE PayloadProbe(r)
  <2>1. SharedTyped' /\ UNCHANGED job /\ p \in Projects /\ req[r].pc # "idle"
    BY <1>0, <1>13 DEF PayloadProbe, SharedTyped
  <2>2. GoTo(r, "clear") \/ PayloadBuilt(r, p)
    BY <1>13 DEF PayloadProbe
  <2> QED BY <2>1, <2>2, PayloadBuiltTyped, GoToTyped DEF RequestPC
<1>14. CASE PayloadClear(r)
  <2>1. UNCHANGED job /\ p \in Projects /\ req[r].pc # "idle" /\ PayloadBuilt(r, p)
    BY <1>0, <1>14 DEF PayloadClear
  <2>2. rows[p] \in Row
    BY <1>0, <2>1 DEF SharedTyped
  <2>3. [rows[p] EXCEPT !.problem = None] \in Row
    BY <2>2 DEF Row, NoRow
  <2>4. rows' = [rows EXCEPT ![p] = [rows[p] EXCEPT !.problem = None]]
    BY <1>14 DEF PayloadClear
  <2>5. SharedTyped'
    BY <1>0, <1>14, <2>1, <2>3, <2>4 DEF PayloadClear, SharedTyped
  <2> QED BY <2>1, <2>5, PayloadBuiltTyped
<1>15. CASE ExtractArchive(r)
  <2>1. SharedTyped' /\ UNCHANGED job /\ req[r].pc = "extract"
    BY <1>0, <1>15 DEF ExtractArchive, SharedTyped, Contents
  <2> QED BY <1>15, <2>1, LeaveTyped, GoToTyped DEF ExtractArchive, RequestPC
<1>16. CASE ExtractMember(r)
  <2>1. SharedTyped' /\ UNCHANGED job /\ req[r].pc = "writing"
    BY <1>0, <1>16 DEF ExtractMember, SharedTyped, Contents
  <2> QED BY <1>16, <2>1, LeaveTyped DEF ExtractMember
<1>17. CASE ReplaceFile(r)
  <2>1. SharedTyped' /\ UNCHANGED job /\ req[r].pc = "replace"
    BY <1>0, <1>17 DEF ReplaceFile, SharedTyped, Contents
  <2> QED BY <1>17, <2>1, LeaveTyped DEF ReplaceFile
<1>18. CASE StatFile(r)
  BY <1>0, <1>18, ReplyTyped DEF StatFile, SharedTyped
<1>19. CASE IsFile(r)
  BY <1>0, <1>19, ReplyTyped, GoToTyped DEF IsFile, SharedTyped, RequestPC
<1>20. CASE UnlinkFile(r)
  <2>1. SharedTyped' /\ UNCHANGED job /\ req[r].pc = "unlink"
    BY <1>0, <1>20 DEF UnlinkFile, SharedTyped, Contents
  <2> QED BY <1>20, <2>1, LeaveTyped DEF UnlinkFile
<1>21. CASE DeleteDown(r)
  <2>1. UNCHANGED <<held, rows, files, overlay, job>> /\ req[r].pc = "down"
    BY <1>21 DEF DeleteDown
  <2>2. stack' \in [Projects -> Stack]
    <3>1. NoStack \in Stack
      BY DEF Stack, NoStack
    <3>2. UNCHANGED stack \/ stack' = [stack EXCEPT ![p] = NoStack]
      BY <1>21 DEF DeleteDown, ComposeDown
    <3> QED BY <1>0, <3>1, <3>2 DEF SharedTyped
  <2>3. SharedTyped'
    BY <1>0, <2>1, <2>2 DEF SharedTyped
  <2> QED BY <1>21, <2>1, <2>3, GoToTyped DEF DeleteDown, RequestPC
<1>22. CASE DeleteRow(r)
  <2>1. SharedTyped' /\ UNCHANGED job /\ req[r].pc = "row"
    BY <1>0, <1>22 DEF DeleteRow, SharedTyped, Row, NoRow
  <2> QED BY <1>22, <2>1, LeaveTyped DEF DeleteRow
<1>23. CASE UpExists(r)
  BY <1>0, <1>23, ReplyTyped, GoToTyped DEF UpExists, SharedTyped, RequestPC
<1>24. CASE UpRead(r)
  <2>1. SharedTyped' /\ UNCHANGED job /\ req[r].pc = "read"
    BY <1>0, <1>24 DEF UpRead, SharedTyped
  <2>2. CASE Reply(r, "internal") \/ Reply(r, "refused")
    BY <2>1, <2>2, ReplyTyped
  <2>3. CASE files[p] \in Versions
             /\ req' = [req EXCEPT ![r].ver = files[p], ![r].pc = "lock"]
    <3> DEFINE x == [req[r] EXCEPT !.ver = files[p], !.pc = "lock"]
    <3>1. x \in Request /\ x.pc = "lock" /\ x.proj = p /\ x.op = req[r].op
      BY ZenonT(40), <1>0, <2>3 DEF Request, RequestPC
    <3>2. req' = [req EXCEPT ![r] = x]
      BY <2>3
    <3> HIDE DEF x
    <3> QED BY <1>0, <2>1, <3>1, <3>2, RequestTyped
  <2> QED BY <1>24, <2>2, <2>3 DEF UpRead
<1>25. CASE Submit(r)
  <2>1. SharedTyped' /\ Reply(r, "ok") /\ req[r].pc = "submit" /\ p \in Projects
        /\ req[r].op \in {"up", "down"}
    BY <1>0, <1>25 DEF Submit, SharedTyped, Typed, WellFormed
  <2> DEFINE y == [state |-> "running", op |-> req[r].op, proj |-> p,
                   pc |-> IF req[r].op = "up" THEN "overlay" ELSE "down",
                   ver |-> req[r].ver, status |-> "none", diag |-> None]
  <2>2. PICK j \in Jobs : job' = [job EXCEPT ![j] = y]
    BY <1>25 DEF Submit
  <2>3. y \in Job /\ y.proj \in Projects /\ y.state = "running"
        /\ y.pc \notin {"diagnose", "status"}
    BY <1>0, <2>1 DEF Job, JobPC, JobState, Request
  <2> HIDE DEF y
  <2>4. Idle("none") \in Request /\ Idle("none").pc = "idle"
    BY IdleType
  <2>5. req' = [req EXCEPT ![r] = Idle("none")]
    BY <2>1 DEF Reply
  <2>6. TypeOK'
    BY <1>0, <2>1, <2>2, <2>3, <2>4, <2>5 DEF TypeOK, SharedTyped
  <2>7. WellFormed'
    BY <1>0, <2>2, <2>3, <2>4, <2>5 DEF Typed, WellFormed
  <2> QED BY <2>6, <2>7 DEF Typed
<1>26. CASE SubmitFails(r)
  <2>1. SharedTyped' /\ UNCHANGED job
    BY <1>0, <1>26 DEF SubmitFails, SharedTyped
  <2> QED BY <1>26, <2>1, ReplyTyped DEF SubmitFails
<1> QED
  BY <1>1, <1>2, <1>3, <1>4, <1>5, <1>6, <1>7, <1>8, <1>9, <1>10, <1>11, <1>12, <1>13,
     <1>14, <1>15, <1>16, <1>17, <1>18, <1>19, <1>20, <1>21, <1>22, <1>23, <1>24, <1>25,
     <1>26
     DEF ClientStep, RequestStep

\* A step that gives one job a well-formed record keeps every type.
LEMMA JobTyped ==
    ASSUME Typed, NEW j \in Jobs, NEW y \in Job,
           job' = [job EXCEPT ![j] = y], UNCHANGED req, SharedTyped',
           y.pc # "idle" => y.proj \in Projects /\ y.state = "running",
           y.pc \in {"diagnose", "status"} => y.status # "none"
    PROVE  Typed'
  BY DEF Typed, TypeOK, WellFormed, SharedTyped

\* A job that goes on to another program point.
LEMMA JobGoToTyped ==
    ASSUME Typed, NEW j \in Jobs, NEW pc \in JobPC \ {"idle", "diagnose", "status"},
           JobGoTo(j, pc), job[j].pc # "idle", UNCHANGED req, SharedTyped'
    PROVE  Typed'
<1> DEFINE y == [job[j] EXCEPT !.pc = pc]
<1>1. y \in Job /\ y.pc = pc /\ y.proj = job[j].proj /\ y.state = job[j].state
  BY DEF Typed, TypeOK, Job
<1>2. job' = [job EXCEPT ![j] = y]
  BY DEF JobGoTo
<1>3. job[j].proj \in Projects /\ job[j].state = "running"
  BY DEF Typed, WellFormed
<1> HIDE DEF y
<1> QED BY <1>1, <1>2, <1>3, JobTyped

\* A job that has learned the status it will record.
LEMMA JobStatusTyped ==
    ASSUME Typed, NEW j \in Jobs, NEW pc \in JobPC, NEW status \in RowStatus,
           job' = [job EXCEPT ![j].status = status, ![j].pc = pc],
           job[j].pc # "idle", UNCHANGED req, SharedTyped'
    PROVE  Typed'
<1> DEFINE y == [job[j] EXCEPT !.status = status, !.pc = pc]
<1>1. y \in Job /\ y.pc = pc /\ y.proj = job[j].proj /\ y.state = job[j].state
      /\ y.status = status
  BY DEF Typed, TypeOK, Job
<1>2. job' = [job EXCEPT ![j] = y]
  OBVIOUS
<1>3. job[j].proj \in Projects /\ job[j].state = "running" /\ status # "none"
  BY DEF Typed, WellFormed, RowStatus
<1> HIDE DEF y
<1> QED BY <1>1, <1>2, <1>3, JobTyped

\* What compose leaves behind is a stack again.
LEMMA ComposeTyped ==
    ASSUME SharedTyped, NEW p \in Projects, NEW ok \in BOOLEAN,
           ComposeUp(p, ok) \/ ComposeDown(p, ok)
    PROVE  stack' \in [Projects -> Stack]
<1>1. NoStack \in Stack
  BY DEF Stack, NoStack
<1>2. CASE ComposeUp(p, ok)
  <2>1. CASE UNCHANGED stack
    BY <2>1 DEF SharedTyped
  <2>2. CASE Composable(p) /\ \E serves \in BOOLEAN :
               stack' = [stack EXCEPT ![p] = [compose |-> files[p],
                                              overlay |-> overlay[p],
                                              serves |-> serves]]
    <3>1. PICK serves \in BOOLEAN :
            stack' = [stack EXCEPT ![p] = [compose |-> files[p],
                                           overlay |-> overlay[p],
                                           serves |-> serves]]
      BY <2>2
    <3>2. [compose |-> files[p], overlay |-> overlay[p], serves |-> serves] \in Stack
      BY <2>2 DEF Stack, Composable
    <3> QED BY <3>1, <3>2 DEF SharedTyped
  <2> QED BY <1>2, <2>1, <2>2 DEF ComposeUp
<1>3. CASE ComposeDown(p, ok)
  <2>1. UNCHANGED stack \/ stack' = [stack EXCEPT ![p] = NoStack]
    BY <1>3 DEF ComposeDown
  <2> QED BY <1>1, <2>1 DEF SharedTyped
<1> QED BY <1>2, <1>3

\* Every step of a job keeps the types.
LEMMA JobStepTyped ==
    ASSUME Typed, NEW j \in Jobs, JobStep(j)
    PROVE  Typed'
<1> DEFINE p == job[j].proj
<1>0. /\ SharedTyped
      /\ req \in [Requests -> Request] /\ job \in [Jobs -> Job] /\ job[j] \in Job
      /\ job[j].pc # "idle" => p \in Projects /\ job[j].state = "running"
      /\ job[j].pc = "status" => job[j].status \in RowStatus
  BY DEF Typed, TypeOK, WellFormed, SharedTyped, Job
<1>1. CASE WriteOverlay(j)
  <2>1. SharedTyped' /\ UNCHANGED req /\ job[j].pc = "overlay"
    BY <1>0, <1>1 DEF WriteOverlay, SharedTyped, Contents, Job
  <2>2. "failed_to_start" \in RowStatus /\ "status" \in JobPC
        /\ "compose" \in JobPC \ {"idle", "diagnose", "status"}
    BY DEF RowStatus, JobPC
  <2> QED BY <1>1, <2>1, <2>2, JobGoToTyped, JobStatusTyped DEF WriteOverlay
<1>2. CASE JobComposeUp(j)
  <2>1. stack' \in [Projects -> Stack]
    BY <1>0, <1>2, ComposeTyped DEF JobComposeUp
  <2>2. SharedTyped' /\ UNCHANGED req /\ job[j].pc = "compose"
    BY <1>0, <1>2, <2>1 DEF JobComposeUp, SharedTyped
  <2>3. {"started_ok", "crash_looping", "failed_to_start"} \subseteq RowStatus
        /\ {"diagnose", "status"} \subseteq JobPC
    BY DEF RowStatus, JobPC
  <2> QED BY <1>2, <2>2, <2>3, JobStatusTyped DEF JobComposeUp
<1>3. CASE Diagnose(j)
  <2>1. SharedTyped' /\ UNCHANGED req /\ job[j].pc = "diagnose"
    BY <1>0, <1>3 DEF Diagnose, SharedTyped
  <2>2. PICK d \in {job[j].diag, job[j].ver} :
          job' = [job EXCEPT ![j].diag = d, ![j].pc = "status"]
    <3>1. [job EXCEPT ![j].pc = "status"]
            = [job EXCEPT ![j].diag = job[j].diag, ![j].pc = "status"]
      BY <1>0 DEF Job
    <3> QED BY <1>3, <3>1 DEF Diagnose, JobGoTo
  <2> DEFINE y == [job[j] EXCEPT !.diag = d, !.pc = "status"]
  <2>3. y \in Job /\ y.proj = p /\ y.state = job[j].state /\ y.status = job[j].status
    BY <1>0 DEF Job, JobPC
  <2>4. job' = [job EXCEPT ![j] = y]
    BY <2>2
  <2>5. job[j].status # "none"
    BY <2>1 DEF Typed, WellFormed
  <2> HIDE DEF y
  <2> QED BY <1>0, <2>1, <2>3, <2>4, <2>5, JobTyped
<1>4. CASE JobComposeDown(j)
  <2>1. stack' \in [Projects -> Stack]
    BY <1>0, <1>4, ComposeTyped DEF JobComposeDown
  <2>2. SharedTyped' /\ UNCHANGED req /\ job[j].pc = "down"
    BY <1>0, <1>4, <2>1 DEF JobComposeDown, SharedTyped
  <2>3. "stopped" \in RowStatus /\ "status" \in JobPC
        /\ "release" \in JobPC \ {"idle", "diagnose", "status"}
    BY DEF RowStatus, JobPC
  <2> QED BY <1>4, <2>2, <2>3, JobStatusTyped, JobGoToTyped DEF JobComposeDown
<1>5. CASE SetStatus(j)
  <2>1. UNCHANGED <<held, files, overlay, stack, req>> /\ job[j].pc = "status"
        /\ p \in Projects /\ job[j].status \in RowStatus /\ rows[p] \in Row
    BY <1>0, <1>5 DEF SetStatus, SharedTyped
  <2>2. rows[p] # NoRow => [rows[p] EXCEPT !.status = job[j].status] \in Row
    BY <2>1 DEF Row
  <2>3. SharedTyped'
    BY <1>0, <1>5, <2>1, <2>2 DEF SetStatus, SharedTyped
  <2> QED BY <1>5, <2>1, <2>3, JobGoToTyped DEF SetStatus, JobPC
<1>6. CASE SetProblem(j)
  <2>1. UNCHANGED <<held, files, overlay, stack, req>> /\ job[j].pc = "problem"
        /\ p \in Projects /\ rows[p] \in Row
    BY <1>0, <1>6 DEF SetProblem, SharedTyped
  <2>2. rows[p] # NoRow => [rows[p] EXCEPT !.problem = job[j].diag] \in Row
    BY <1>0, <2>1 DEF Row, Job
  <2>3. SharedTyped'
    BY <1>0, <1>6, <2>1, <2>2 DEF SetProblem, SharedTyped
  <2> QED BY <1>6, <2>1, <2>3, JobGoToTyped DEF SetProblem, JobPC
<1>7. CASE JobRelease(j)
  <2>1. SharedTyped' /\ UNCHANGED req /\ job[j].pc = "release"
    BY <1>0, <1>7 DEF JobRelease, SharedTyped
  <2> QED BY <1>7, <2>1, JobGoToTyped DEF JobRelease, JobPC
<1>8. CASE JobFinish(j)
  <2>1. SharedTyped' /\ UNCHANGED req
    BY <1>0, <1>8 DEF JobFinish, SharedTyped
  <2>2. PICK state \in {"done", "failed"} :
          job' = [job EXCEPT ![j].state = state, ![j].pc = "idle"]
    BY <1>8 DEF JobFinish
  <2> DEFINE y == [job[j] EXCEPT !.state = state, !.pc = "idle"]
  <2>3. y \in Job /\ y.pc = "idle"
    BY <1>0 DEF Job, JobPC, JobState
  <2>4. job' = [job EXCEPT ![j] = y]
    BY <2>2
  <2> HIDE DEF y
  <2> QED BY <2>1, <2>3, <2>4, JobTyped
<1> QED
  BY <1>1, <1>2, <1>3, <1>4, <1>5, <1>6, <1>7, <1>8 DEF JobStep

\* So does every step of the specification.
LEMMA StepTyped == Typed /\ [Next]_vars => Typed'
<1> SUFFICES ASSUME Typed, [Next]_vars PROVE Typed'
  OBVIOUS
<1>1. CASE \E r \in Requests : ClientStep(r) \/ RequestStep(r)
  BY <1>1, RequestStepTyped
<1>2. CASE \E j \in Jobs : JobStep(j)
  BY <1>2, JobStepTyped
<1>3. CASE \E p \in Projects : ServiceChanges(p)
  <2>1. PICK p \in Projects : ServiceChanges(p)
    BY <1>3
  <2>2. stack[p] \in Stack
    BY DEF Typed, TypeOK
  <2>3. [stack[p] EXCEPT !.serves = ~stack[p].serves] \in Stack
    BY <2>2 DEF Stack
  <2>4. stack' \in [Projects -> Stack]
    BY <2>1, <2>3 DEF ServiceChanges, Typed, TypeOK
  <2> QED BY <2>1, <2>4 DEF ServiceChanges, Typed, TypeOK, WellFormed
<1>4. CASE AgentRestart
  <2>1. Idle("none") \in Request /\ Idle("none").pc = "idle"
    BY IdleType DEF Answers
  <2>2. NoJob \in Job /\ NoJob.pc = "idle"
    BY DEF NoJob, Job, JobPC, JobState
  <2> QED BY <1>4, <2>1, <2>2 DEF AgentRestart, Typed, TypeOK, WellFormed
<1>5. CASE UNCHANGED vars
  BY <1>5 DEF vars, Typed, TypeOK, WellFormed
<1> QED BY <1>1, <1>2, <1>3, <1>4, <1>5 DEF Next

\* Every variable keeps its type, whatever the threads, the clients and docker do.
THEOREM TypeCorrect == Spec => []TypeOK
<1>1. Typed => TypeOK
  BY DEF Typed
<1> QED BY <1>1, InitTyped, StepTyped, PTL DEF Spec

-----------------------------------------------------------------------------
(* Lock ownership *)

\* Replacing one request's record leaves every project's owners alone when the
\* request is as much, or as little, inside its critical section as it was.
LEMMA RequestFrame ==
    ASSUME Typed, NEW r \in Requests, NEW x, req' = [req EXCEPT ![r] = x],
           UNCHANGED job,
           x.pc \in LockedRequest <=> req[r].pc \in LockedRequest,
           x.pc \in LockedRequest => x.proj = req[r].proj
    PROVE  \A p \in Projects : Owners(p)' = Owners(p)
  BY DEF Typed, TypeOK, Owners, RequestsHolding, JobsHolding

\* Moving within a critical section, or outside of one, changes no owner.
LEMMA GoToFrame ==
    ASSUME Typed, NEW r \in Requests, NEW pc \in RequestPC, GoTo(r, pc), UNCHANGED job,
           pc \in LockedRequest <=> req[r].pc \in LockedRequest
    PROVE  \A p \in Projects : Owners(p)' = Owners(p)
<1> DEFINE x == [req[r] EXCEPT !.pc = pc]
<1>1. x.pc = pc /\ x.proj = req[r].proj
  BY DEF Typed, TypeOK, Request
<1>2. req' = [req EXCEPT ![r] = x]
  BY DEF GoTo
<1> HIDE DEF x
<1> QED BY <1>1, <1>2, RequestFrame

\* Answering from outside a critical section changes no owner.
LEMMA ReplyFrame ==
    ASSUME Typed, NEW r \in Requests, NEW ans \in Answers, Reply(r, ans), UNCHANGED job,
           req[r].pc \notin LockedRequest
    PROVE  \A p \in Projects : Owners(p)' = Owners(p)
<1>1. PICK a \in Answers : req' = [req EXCEPT ![r] = Idle(a)]
  BY DEF Reply, Answers
<1>2. Idle(a).pc = "idle" /\ "idle" \notin LockedRequest
  BY IdleType DEF LockedRequest
<1> QED BY <1>1, <1>2, RequestFrame

\* A request on its way out of its critical section still owns the project.
LEMMA LeaveFrame ==
    ASSUME Typed, NEW r \in Requests, NEW ans \in Answers, Leave(r, ans), UNCHANGED job,
           req[r].pc \in LockedRequest
    PROVE  \A p \in Projects : Owners(p)' = Owners(p)
<1> DEFINE x == [req[r] EXCEPT !.pc = "release", !.ans = ans]
<1>1. x.pc = "release" /\ x.proj = req[r].proj /\ "release" \in LockedRequest
  BY DEF Typed, TypeOK, Request, LockedRequest
<1>2. req' = [req EXCEPT ![r] = x]
  BY DEF Leave
<1> HIDE DEF x
<1> QED BY <1>1, <1>2, RequestFrame

\* The reads of the API never own a project.
LEMMA SnapFrame ==
    ASSUME Typed, NEW r \in Requests, NEW snap,
           req' = [req EXCEPT ![r].snap = snap, ![r].pc = "payload"],
           UNCHANGED job, req[r].pc \notin LockedRequest
    PROVE  \A p \in Projects : Owners(p)' = Owners(p)
<1> DEFINE x == [req[r] EXCEPT !.snap = snap, !.pc = "payload"]
<1>1. x.pc = "payload" /\ "payload" \notin LockedRequest
  BY DEF Typed, TypeOK, Request, LockedRequest
<1>2. req' = [req EXCEPT ![r] = x]
  OBVIOUS
<1> HIDE DEF x
<1> QED BY <1>1, <1>2, RequestFrame

\* A read owns no project, before and after a payload is built.
LEMMA PayloadBuiltFrame ==
    ASSUME Typed, NEW r \in Requests, NEW p \in Projects, PayloadBuilt(r, p),
           UNCHANGED job, req[r].pc \notin LockedRequest
    PROVE  \A q \in Projects : Owners(q)' = Owners(q)
<1>1. CASE Reply(r, "ok")
  BY <1>1, ReplyFrame DEF Answers
<1>2. CASE \E snap : req' = [req EXCEPT ![r].snap = snap, ![r].pc = "payload"]
  BY <1>2, SnapFrame
<1> QED BY <1>1, <1>2 DEF PayloadBuilt

\* The steps of a request that neither take, pass on nor give back a lock.
\* The steps of a request that take, pass on or give back a lock.
LockStep(r) == Acquire(r) \/ Release(r) \/ Submit(r) \/ SubmitFails(r)

\* All other steps of a request leave the locks and their owners alone.
LEMMA RequestKeepsOwners ==
    ASSUME Typed, NEW r \in Requests, ClientStep(r) \/ RequestStep(r), ~LockStep(r)
    PROVE  (\A p \in Projects : Owners(p)' = Owners(p)) /\ UNCHANGED <<held, job>>
<1> DEFINE p == req[r].proj
<1> USE DEF Answers
<1>0. /\ req[r].ans \in Answers
      /\ req[r].pc # "idle" => p \in Projects /\ req[r].op \in Routes
      /\ req \in [Requests -> Request] /\ req[r] \in Request
  BY DEF Typed, TypeOK, WellFormed, Request
<1>1. CASE \E op \in CallsOf[r], q \in Projects : Call(r, op, q)
  <2>1. PICK op \in CallsOf[r], q \in Projects : Call(r, op, q)
    BY <1>1
  <2> DEFINE x == [Idle("none") EXCEPT !.pc = "start", !.op = op, !.proj = q]
  <2>2. x.pc = "start" /\ "start" \notin LockedRequest /\ "idle" \notin LockedRequest
    BY IdleType DEF Request, RequestPC, LockedRequest
  <2>3. req' = [req EXCEPT ![r] = x] /\ UNCHANGED <<held, job>> /\ req[r].pc = "idle"
    BY <2>1 DEF Call
  <2> HIDE DEF x
  <2> QED BY <2>2, <2>3, RequestFrame
<1>2. CASE ReceiveBody(r)
  BY <1>2, GoToFrame, LeaveFrame DEF ReceiveBody, LockedRequest, RequestPC
<1>3. CASE RequireRow(r)
  <2>1. AfterRow[req[r].op] \in {"lock", "is_file", "exists"}
    BY <1>3 DEF RequireRow, AfterRow
  <2> QED BY <1>3, <2>1, GoToFrame, ReplyFrame DEF RequireRow, LockedRequest, RequestPC
<1>4. CASE CreateCheck(r)
  BY <1>4, GoToFrame, ReplyFrame DEF CreateCheck, LockedRequest, RequestPC
<1>5. CASE CreateInsert(r)
  BY <1>5, GoToFrame DEF CreateInsert, LockedRequest, RequestPC
<1>6. CASE CreateReread(r)
  <2>1. Reply(r, "internal")
        \/ req' = [req EXCEPT ![r].snap = [req[r].snap EXCEPT ![p] = rows[p]],
                              ![r].pc = "payload"]
    BY <1>6 DEF CreateReread
  <2> QED BY <1>6, <2>1, ReplyFrame, SnapFrame DEF CreateReread, LockedRequest
<1>7. CASE GetProject(r)
  <2>1. Reply(r, "refused")
        \/ req' = [req EXCEPT ![r].snap = [req[r].snap EXCEPT ![p] = rows[p]],
                              ![r].pc = "payload"]
    BY <1>7 DEF GetProject
  <2> QED BY <1>7, <2>1, ReplyFrame, SnapFrame DEF GetProject, LockedRequest
<1>8. CASE ListProjects(r)
  BY <1>8, ReplyFrame, SnapFrame DEF ListProjects, LockedRequest
<1>9. CASE PayloadExists(r)
  <2>1. req[r].pc \notin LockedRequest /\ UNCHANGED <<held, job>>
    BY <1>9 DEF PayloadExists, LockedRequest
  <2>2. PICK q \in Projects :
          \/ PayloadBuilt(r, q)
          \/ req' = [req EXCEPT ![r].proj = q, ![r].pc = "payload_read"]
    BY <1>9 DEF PayloadExists
  <2> DEFINE x == [req[r] EXCEPT !.proj = q, !.pc = "payload_read"]
  <2>3. x.pc \notin LockedRequest
    BY <1>0 DEF Request, LockedRequest
  <2>4. PayloadBuilt(r, q) \/ req' = [req EXCEPT ![r] = x]
    BY <2>2
  <2> HIDE DEF x
  <2> QED BY <2>1, <2>3, <2>4, PayloadBuiltFrame, RequestFrame
<1>10. CASE PayloadRead(r)
  <2>1. Reply(r, "internal") \/ PayloadBuilt(r, p) \/ GoTo(r, "probe")
    BY <1>10 DEF PayloadRead
  <2> QED BY <1>0, <1>10, <2>1, ReplyFrame, PayloadBuiltFrame, GoToFrame
          DEF PayloadRead, LockedRequest, RequestPC
<1>11. CASE PayloadProbe(r)
  BY <1>0, <1>11, PayloadBuiltFrame, GoToFrame DEF PayloadProbe, LockedRequest, RequestPC
<1>12. CASE PayloadClear(r)
  BY <1>0, <1>12, PayloadBuiltFrame DEF PayloadClear, LockedRequest
<1>13. CASE ExtractArchive(r)
  BY <1>13, LeaveFrame, GoToFrame DEF ExtractArchive, LockedRequest, RequestPC
<1>14. CASE ExtractMember(r)
  BY <1>14, LeaveFrame DEF ExtractMember, LockedRequest
<1>15. CASE ReplaceFile(r)
  BY <1>15, LeaveFrame DEF ReplaceFile, LockedRequest
<1>16. CASE StatFile(r)
  BY <1>16, ReplyFrame DEF StatFile, LockedRequest
<1>17. CASE IsFile(r)
  BY <1>17, ReplyFrame, GoToFrame DEF IsFile, LockedRequest, RequestPC
<1>18. CASE UnlinkFile(r)
  BY <1>18, LeaveFrame DEF UnlinkFile, LockedRequest
<1>19. CASE DeleteDown(r)
  BY <1>19, GoToFrame DEF DeleteDown, LockedRequest, RequestPC
<1>20. CASE DeleteRow(r)
  BY <1>20, LeaveFrame DEF DeleteRow, LockedRequest
<1>21. CASE UpExists(r)
  BY <1>21, ReplyFrame, GoToFrame DEF UpExists, LockedRequest, RequestPC
<1>22. CASE UpRead(r)
  <2>1. req[r].pc \notin LockedRequest /\ UNCHANGED <<held, job>>
    BY <1>22 DEF UpRead, LockedRequest
  <2> DEFINE x == [req[r] EXCEPT !.ver = files[p], !.pc = "lock"]
  <2>2. Reply(r, "internal") \/ Reply(r, "refused") \/ req' = [req EXCEPT ![r] = x]
    BY <1>22 DEF UpRead
  <2>3. x.pc \notin LockedRequest
    BY <1>0 DEF Request, LockedRequest
  <2> HIDE DEF x
  <2> QED BY <2>1, <2>2, <2>3, ReplyFrame, RequestFrame
<1> QED
  BY <1>1, <1>2, <1>3, <1>4, <1>5, <1>6, <1>7, <1>8, <1>9, <1>10, <1>11, <1>12, <1>13,
     <1>14, <1>15, <1>16, <1>17, <1>18, <1>19, <1>20, <1>21, <1>22
     DEF ClientStep, RequestStep, LockStep

\* The same for a job.
LEMMA JobFrame ==
    ASSUME Typed, NEW j \in Jobs, NEW y, job' = [job EXCEPT ![j] = y], UNCHANGED req,
           y.pc \in LockedJob <=> job[j].pc \in LockedJob,
           y.pc \in LockedJob => y.proj = job[j].proj
    PROVE  \A p \in Projects : Owners(p)' = Owners(p)
  BY DEF Typed, TypeOK, Owners, RequestsHolding, JobsHolding

\* Only a job's release changes the owners.
LEMMA JobKeepsOwners ==
    ASSUME Typed, NEW j \in Jobs, JobStep(j), ~JobRelease(j)
    PROVE  (\A p \in Projects : Owners(p)' = Owners(p)) /\ UNCHANGED <<held, req>>
<1>0. job \in [Jobs -> Job] /\ job[j] \in Job
  BY DEF Typed, TypeOK
<1>1. UNCHANGED <<held, req>>
  BY DEF JobStep, WriteOverlay, JobComposeUp, Diagnose, JobComposeDown, SetStatus,
         SetProblem, JobRelease, JobFinish
<1>2. {"overlay", "compose", "diagnose", "down", "status", "problem", "release"}
        \subseteq LockedJob
  BY DEF LockedJob, JobPC
<1>3. ASSUME NEW pc \in LockedJob, job[j].pc \in LockedJob, JobGoTo(j, pc)
      PROVE  \A p \in Projects : Owners(p)' = Owners(p)
  <2> DEFINE y == [job[j] EXCEPT !.pc = pc]
  <2>1. y.pc = pc /\ y.proj = job[j].proj
    BY <1>0 DEF Job
  <2>2. job' = [job EXCEPT ![j] = y]
    BY <1>3 DEF JobGoTo
  <2> HIDE DEF y
  <2> QED BY <1>1, <1>3, <2>1, <2>2, JobFrame
<1>4. ASSUME NEW pc \in LockedJob, NEW status, job[j].pc \in LockedJob,
             job' = [job EXCEPT ![j].status = status, ![j].pc = pc]
      PROVE  \A p \in Projects : Owners(p)' = Owners(p)
  <2> DEFINE y == [job[j] EXCEPT !.status = status, !.pc = pc]
  <2>1. y.pc = pc /\ y.proj = job[j].proj
    BY <1>0 DEF Job
  <2>2. job' = [job EXCEPT ![j] = y]
    BY <1>4
  <2> HIDE DEF y
  <2> QED BY <1>1, <1>4, <2>1, <2>2, JobFrame
<1>5. CASE WriteOverlay(j)
  BY <1>2, <1>3, <1>4, <1>5 DEF WriteOverlay
<1>6. CASE JobComposeUp(j)
  BY <1>2, <1>4, <1>6 DEF JobComposeUp
<1>7. CASE Diagnose(j)
  <2>1. CASE JobGoTo(j, "status")
    BY <1>2, <1>3, <1>7, <2>1 DEF Diagnose
  <2>2. CASE job' = [job EXCEPT ![j].diag = job[j].ver, ![j].pc = "status"]
    <3> DEFINE y == [job[j] EXCEPT !.diag = job[j].ver, !.pc = "status"]
    <3>1. y.pc = "status" /\ y.proj = job[j].proj
      BY <1>0 DEF Job
    <3>2. job' = [job EXCEPT ![j] = y] /\ job[j].pc = "diagnose"
      BY <1>7, <2>2 DEF Diagnose
    <3> HIDE DEF y
    <3> QED BY <1>1, <1>2, <3>1, <3>2, JobFrame
  <2> QED BY <1>7, <2>1, <2>2 DEF Diagnose
<1>8. CASE JobComposeDown(j)
  BY <1>2, <1>3, <1>4, <1>8 DEF JobComposeDown
<1>9. CASE SetStatus(j)
  BY <1>2, <1>3, <1>9 DEF SetStatus
<1>10. CASE SetProblem(j)
  BY <1>2, <1>3, <1>10 DEF SetProblem
<1>11. CASE JobFinish(j)
  <2>1. PICK state \in {"done", "failed"} :
          job' = [job EXCEPT ![j].state = state, ![j].pc = "idle"]
    BY <1>11 DEF JobFinish
  <2> DEFINE y == [job[j] EXCEPT !.state = state, !.pc = "idle"]
  <2>2. y.pc \notin LockedJob /\ job[j].pc \notin LockedJob
    BY <1>0, <1>11 DEF Job, JobFinish, LockedJob
  <2>3. job' = [job EXCEPT ![j] = y]
    BY <2>1
  <2> HIDE DEF y
  <2> QED BY <1>1, <2>2, <2>3, JobFrame
<1> QED
  BY <1>1, <1>5, <1>6, <1>7, <1>8, <1>9, <1>10, <1>11 DEF JobStep

\* Taking, passing on and giving back: one project gets a new set of owners.
LEMMA AcquireOwners ==
    ASSUME Typed, NEW r \in Requests, Acquire(r), LockHasOneOwner
    PROVE  \/ UNCHANGED held /\ \A q \in Projects : Owners(q)' = Owners(q)
           \/ \E p \in Projects :
                /\ p \notin held /\ held' = held \cup {p}
                /\ Owners(p)' = {r}
                /\ \A q \in Projects \ {p} : Owners(q)' = Owners(q)
<1>0. PICK p \in Projects : p = req[r].proj
  BY DEF Acquire, Typed, WellFormed
<1>1. /\ req[r].pc = "lock" /\ "lock" \notin LockedRequest /\ p \in Projects
      /\ req[r] \in Request /\ req[r].op \in DOMAIN AfterLock /\ UNCHANGED job
  BY <1>0 DEF Acquire, LockedRequest, Typed, TypeOK, WellFormed
<1>2. CASE p \in held
  BY <1>0, <1>1, <1>2, ReplyFrame DEF Acquire, Answers
<1>3. CASE p \notin held
  <2> DEFINE x == [req[r] EXCEPT !.pc = AfterLock[req[r].op]]
  <2>1. AfterLock[req[r].op] \in LockedRequest
    BY <1>0, <1>1 DEF AfterLock, LockedRequest
  <2>2. x.pc \in LockedRequest /\ x.proj = p
    BY <1>0, <1>1, <2>1 DEF Request
  <2>3. req' = [req EXCEPT ![r] = x] /\ held' = held \cup {p}
    BY <1>0, <1>3 DEF Acquire, GoTo
  <2> HIDE DEF x
  <2>4. Owners(p) = {}
    BY <1>0, <1>1, <1>3 DEF LockHasOneOwner
  <2>5. Owners(p)' = {r} /\ \A q \in Projects \ {p} : Owners(q)' = Owners(q)
    BY <1>0, <1>1, <2>2, <2>3, <2>4
       DEF Typed, TypeOK, Owners, RequestsHolding, JobsHolding
  <2> QED BY <1>0, <1>1, <1>3, <2>3, <2>5
<1> QED BY <1>2, <1>3

\* An owner is the only one.
LEMMA OneOwner ==
    ASSUME LockHasOneOwner, NEW p \in Projects, NEW t \in Owners(p)
    PROVE  p \in held /\ Owners(p) = {t}
  BY DEF LockHasOneOwner

\* A request that gives its lock back leaves the project without an owner.
LEMMA ReleaseOwners ==
    ASSUME Typed, NEW r \in Requests, Release(r) \/ SubmitFails(r), LockHasOneOwner
    PROVE  \E p \in Projects :
             /\ held' = held \ {p} /\ Owners(p) # {} /\ Owners(p)' = {}
             /\ \A q \in Projects \ {p} : Owners(q)' = Owners(q)
<1>0. PICK p \in Projects : p = req[r].proj
  BY DEF Release, SubmitFails, Typed, WellFormed
<1>1. /\ req[r].pc \in LockedRequest /\ p \in Projects /\ req[r] \in Request
      /\ req[r].ans \in Answers /\ UNCHANGED job /\ held' = held \ {p}
  BY <1>0 DEF Release, SubmitFails, LockedRequest, Typed, TypeOK, WellFormed, Request
<1>2. r \in Owners(p)
  BY <1>0, <1>1 DEF Owners, RequestsHolding
<1>3. Owners(p) = {r} /\ RequestsHolding(p) = {r} /\ JobsHolding(p) = {}
  BY <1>0, <1>1, <1>2, OneOwner, SlotsAssumption DEF Owners, RequestsHolding, JobsHolding
<1>4. PICK x : req' = [req EXCEPT ![r] = x] /\ x.pc \notin LockedRequest
  <2>1. CASE Reply(r, req[r].ans) \/ Reply(r, "internal")
    <3>1. PICK a \in Answers : req' = [req EXCEPT ![r] = Idle(a)]
      BY <1>0, <1>1, <2>1 DEF Reply, Answers
    <3>2. Idle(a).pc \notin LockedRequest
      BY IdleType DEF LockedRequest
    <3> QED BY <3>1, <3>2
  <2>2. CASE GoTo(r, "stat")
    <3> DEFINE z == [req[r] EXCEPT !.pc = "stat"]
    <3>1. z.pc \notin LockedRequest
      BY <1>0, <1>1 DEF Request, LockedRequest
    <3>2. req' = [req EXCEPT ![r] = z]
      BY <2>2 DEF GoTo
    <3> QED BY <3>1, <3>2
  <2> QED BY <2>1, <2>2 DEF Release, SubmitFails
<1>5. Owners(p)' = {} /\ \A q \in Projects \ {p} : Owners(q)' = Owners(q)
  BY <1>0, <1>1, <1>3, <1>4 DEF Typed, TypeOK, Owners, RequestsHolding, JobsHolding
<1> QED BY <1>0, <1>1, <1>3, <1>5

\* A request that starts its job makes the job the one owner of the project.
LEMMA SubmitOwners ==
    ASSUME Typed, NEW r \in Requests, Submit(r), LockHasOneOwner
    PROVE  \E p \in Projects, j \in Jobs :
             /\ UNCHANGED held /\ Owners(p) # {} /\ Owners(p)' = {j}
             /\ \A q \in Projects \ {p} : Owners(q)' = Owners(q)
<1>0. PICK p \in Projects : p = req[r].proj
  BY DEF Submit, Typed, WellFormed
<1>1. /\ req[r].pc \in LockedRequest /\ p \in Projects /\ req[r] \in Request
      /\ UNCHANGED held /\ Reply(r, "ok")
  BY <1>0 DEF Submit, LockedRequest, Typed, TypeOK, WellFormed
<1>2. r \in Owners(p)
  BY <1>0, <1>1 DEF Owners, RequestsHolding
<1>3. Owners(p) = {r} /\ RequestsHolding(p) = {r} /\ JobsHolding(p) = {}
  BY <1>0, <1>1, <1>2, OneOwner, SlotsAssumption DEF Owners, RequestsHolding, JobsHolding
<1>4. req' = [req EXCEPT ![r] = Idle("none")] /\ Idle("none").pc \notin LockedRequest
  BY <1>0, <1>1, IdleType DEF Reply, LockedRequest, Answers
<1> DEFINE y == [state |-> "running", op |-> req[r].op, proj |-> req[r].proj,
                 pc |-> IF req[r].op = "up" THEN "overlay" ELSE "down",
                 ver |-> req[r].ver, status |-> "none", diag |-> None]
<1>5. PICK j \in Jobs : job' = [job EXCEPT ![j] = y] /\ job[j].state # "running"
  BY DEF Submit
<1>6. y.pc \in LockedJob /\ y.proj = p
  BY <1>0 DEF LockedJob, JobPC
<1>7. job[j].pc \notin LockedJob
  BY <1>5 DEF Typed, WellFormed, LockedJob
<1> HIDE DEF y
<1>8. Owners(p)' = {j} /\ \A q \in Projects \ {p} : Owners(q)' = Owners(q)
  BY <1>0, <1>1, <1>3, <1>4, <1>5, <1>6, <1>7
     DEF Typed, TypeOK, Owners, RequestsHolding, JobsHolding
<1> QED BY <1>0, <1>1, <1>3, <1>8

\* A job that gives its lock back leaves the project without an owner.
LEMMA JobReleaseOwners ==
    ASSUME Typed, NEW j \in Jobs, JobRelease(j), LockHasOneOwner
    PROVE  \E p \in Projects :
             /\ held' = held \ {p} /\ Owners(p) # {} /\ Owners(p)' = {}
             /\ \A q \in Projects \ {p} : Owners(q)' = Owners(q)
<1>0. PICK p \in Projects : p = job[j].proj
  BY DEF JobRelease, Typed, WellFormed
<1>1. /\ job[j].pc \in LockedJob /\ p \in Projects /\ job[j] \in Job
      /\ UNCHANGED req /\ held' = held \ {p}
  BY <1>0 DEF JobRelease, LockedJob, JobPC, Typed, TypeOK, WellFormed
<1>2. j \in Owners(p)
  BY <1>0, <1>1 DEF Owners, JobsHolding
<1>3. Owners(p) = {j} /\ JobsHolding(p) = {j} /\ RequestsHolding(p) = {}
  BY <1>0, <1>1, <1>2, OneOwner, SlotsAssumption DEF Owners, RequestsHolding, JobsHolding
<1> DEFINE y == [job[j] EXCEPT !.pc = "finish"]
<1>4. job' = [job EXCEPT ![j] = y] /\ y.pc \notin LockedJob
  BY <1>0, <1>1 DEF JobRelease, JobGoTo, Job, LockedJob
<1> HIDE DEF y
<1>5. Owners(p)' = {} /\ \A q \in Projects \ {p} : Owners(q)' = Owners(q)
  BY <1>0, <1>1, <1>3, <1>4 DEF Typed, TypeOK, Owners, RequestsHolding, JobsHolding
<1> QED BY <1>0, <1>1, <1>3, <1>5

\* The inductive invariant.
IInv == Typed /\ LockHasOneOwner

\* Nothing is locked, and nobody is at work, when the agent starts.
LEMMA InitIInv == Init => IInv
<1>1. Init => LockHasOneOwner
  <2>1. ASSUME Init
        PROVE  /\ held = {}
               /\ \A r \in Requests : req[r].pc \notin LockedRequest
               /\ \A j \in Jobs : job[j].pc \notin LockedJob
    BY <2>1 DEF Init, Idle, NoJob, LockedRequest, LockedJob
  <2> QED BY <2>1 DEF LockHasOneOwner, Owners, RequestsHolding, JobsHolding
<1> QED BY <1>1, InitTyped DEF IInv

\* Every step preserves the inductive invariant: one case per lock operation, and
\* the lemmas above for the steps that change no owner.
LEMMA StepIInv == IInv /\ [Next]_vars => IInv'
<1> SUFFICES ASSUME IInv, [Next]_vars PROVE LockHasOneOwner'
  BY StepTyped DEF IInv
<1>0. Typed /\ LockHasOneOwner
  BY DEF IInv
<1>1. CASE UNCHANGED held /\ \A p \in Projects : Owners(p)' = Owners(p)
  BY <1>0, <1>1 DEF LockHasOneOwner
<1>2. ASSUME NEW p \in Projects, \A q \in Projects \ {p} : Owners(q)' = Owners(q),
             \/ \E t \in Requests \cup Jobs :
                  Owners(p)' = {t} /\ held' = held \cup {p}
             \/ Owners(p)' = {} /\ held' = held \ {p}
      PROVE  LockHasOneOwner'
  BY <1>0, <1>2 DEF LockHasOneOwner
<1>3. CASE \E r \in Requests : ClientStep(r) \/ RequestStep(r)
  <2>1. PICK r \in Requests : ClientStep(r) \/ RequestStep(r)
    BY <1>3
  <2>2. CASE Acquire(r)
    BY <1>0, <1>1, <1>2, <2>2, AcquireOwners
  <2>3. CASE Release(r) \/ SubmitFails(r)
    BY <1>0, <1>2, <2>3, ReleaseOwners
  <2>4. CASE Submit(r)
    <3>1. PICK p \in Projects, j \in Jobs :
             /\ UNCHANGED held /\ Owners(p) # {} /\ Owners(p)' = {j}
             /\ \A q \in Projects \ {p} : Owners(q)' = Owners(q)
      BY <1>0, <2>4, SubmitOwners
    <3>2. p \in held
      BY <1>0, <3>1 DEF LockHasOneOwner
    <3> QED BY <1>2, <3>1, <3>2
  <2>5. CASE ~LockStep(r)
    BY <1>0, <1>1, <2>1, <2>5, RequestKeepsOwners
  <2> QED BY <2>2, <2>3, <2>4, <2>5 DEF LockStep
<1>4. CASE \E j \in Jobs : JobStep(j)
  <2>1. PICK j \in Jobs : JobStep(j)
    BY <1>4
  <2>2. CASE JobRelease(j)
    BY <1>0, <1>2, <2>2, JobReleaseOwners
  <2>3. CASE ~JobRelease(j)
    BY <1>0, <1>1, <2>1, <2>3, JobKeepsOwners
  <2> QED BY <2>2, <2>3
<1>5. CASE UNCHANGED <<held, req, job>>
  BY <1>1, <1>5 DEF Owners, RequestsHolding, JobsHolding
<1>6. CASE AgentRestart
  BY <1>6 DEF AgentRestart, LockHasOneOwner, Owners, RequestsHolding, JobsHolding, Idle,
              NoJob, LockedRequest, LockedJob
<1> QED BY <1>3, <1>4, <1>5, <1>6 DEF Next, ServiceChanges, vars

\* The inductive invariant holds in every reachable state.
LEMMA AlwaysIInv == Spec => []IInv
  BY InitIInv, StepIInv, PTL DEF Spec

\* A project's lock always has exactly one owner while it is held, and nobody works
\* on a project whose lock is free.
THEOREM LockOwnership == Spec => []LockHasOneOwner
<1>1. IInv => LockHasOneOwner
  BY DEF IInv
<1> QED BY <1>1, AlwaysIInv, PTL

-----------------------------------------------------------------------------
(* What the owner of a project's lock can rely on *)

\* A handler changes files, overlays and containers only of a project it owns.
LEMMA RequestWork ==
    ASSUME Typed, NEW r \in Requests, ClientStep(r) \/ RequestStep(r)
    PROVE  /\ UNCHANGED overlay
           /\ \/ UNCHANGED <<files, stack>>
              \/ \E p \in Projects :
                   /\ r \in Owners(p) /\ ~LockStep(r)
                   /\ \A q \in Projects \ {p} :
                        files'[q] = files[q] /\ stack'[q] = stack[q]
<1>1. UNCHANGED overlay
  BY DEF ClientStep, RequestStep, Call, ReceiveBody, RequireRow, Acquire, Release,
         CreateCheck, CreateInsert, CreateReread, GetProject, ListProjects,
         PayloadExists, PayloadRead, PayloadProbe, PayloadClear, ExtractArchive,
         ExtractMember, ReplaceFile, StatFile, IsFile, UnlinkFile, DeleteDown,
         DeleteRow, UpExists, UpRead, Submit, SubmitFails
<1>2. CASE ExtractArchive(r) \/ ExtractMember(r) \/ ReplaceFile(r) \/ UnlinkFile(r)
           \/ DeleteDown(r)
  <2>1. /\ req[r].pc \in {"extract", "writing", "replace", "unlink", "down"}
        /\ req[r].pc \notin {"lock", "release", "submit"}
    BY <1>2 DEF ExtractArchive, ExtractMember, ReplaceFile, UnlinkFile, DeleteDown
  <2>2. PICK p \in Projects : p = req[r].proj
    BY <2>1 DEF Typed, WellFormed
  <2>3. r \in Owners(p)
    BY <2>1, <2>2 DEF Owners, RequestsHolding, LockedRequest
  <2>4. ~LockStep(r)
    BY <2>1 DEF LockStep, Acquire, Release, Submit, SubmitFails
  <2>5. files \in [Projects -> Contents] /\ stack \in [Projects -> Stack]
    BY DEF Typed, TypeOK
  <2>6. \A q \in Projects \ {p} : files'[q] = files[q] /\ stack'[q] = stack[q]
    BY <1>2, <2>2, <2>5
       DEF ExtractArchive, ExtractMember, ReplaceFile, UnlinkFile, DeleteDown, ComposeDown
  <2> QED BY <1>1, <2>3, <2>4, <2>6
<1>3. CASE ~(ExtractArchive(r) \/ ExtractMember(r) \/ ReplaceFile(r) \/ UnlinkFile(r)
             \/ DeleteDown(r))
  <2>1. UNCHANGED <<files, stack>>
    BY <1>3
       DEF ClientStep, RequestStep, Call, ReceiveBody, RequireRow, Acquire, Release,
           CreateCheck, CreateInsert, CreateReread, GetProject, ListProjects,
           PayloadExists, PayloadRead, PayloadProbe, PayloadClear, StatFile, IsFile,
           DeleteRow, UpExists, UpRead, Submit, SubmitFails
  <2> QED BY <1>1, <2>1
<1> QED BY <1>2, <1>3

\* A job changes the overlay and the containers only of the project it owns.
LEMMA JobWork ==
    ASSUME Typed, NEW j \in Jobs, JobStep(j)
    PROVE  /\ UNCHANGED files
           /\ \/ UNCHANGED <<overlay, stack>>
              \/ \E p \in Projects :
                   /\ j \in Owners(p) /\ ~JobRelease(j)
                   /\ \A q \in Projects \ {p} :
                        overlay'[q] = overlay[q] /\ stack'[q] = stack[q]
<1>1. UNCHANGED files
  BY DEF JobStep, WriteOverlay, JobComposeUp, Diagnose, JobComposeDown, SetStatus,
         SetProblem, JobRelease, JobFinish
<1>2. CASE WriteOverlay(j) \/ JobComposeUp(j) \/ JobComposeDown(j)
  <2>1. job[j].pc \in {"overlay", "compose", "down"}
    BY <1>2 DEF WriteOverlay, JobComposeUp, JobComposeDown
  <2>2. PICK p \in Projects : p = job[j].proj
    BY <2>1 DEF Typed, WellFormed
  <2>3. j \in Owners(p)
    BY <2>1, <2>2 DEF Owners, JobsHolding, LockedJob, JobPC
  <2>4. ~JobRelease(j)
    BY <2>1 DEF JobRelease
  <2>5. overlay \in [Projects -> Contents] /\ stack \in [Projects -> Stack]
    BY DEF Typed, TypeOK
  <2>6. \A q \in Projects \ {p} : overlay'[q] = overlay[q] /\ stack'[q] = stack[q]
    <3>1. CASE WriteOverlay(j)
      BY <2>2, <2>5, <3>1 DEF WriteOverlay
    <3>2. CASE JobComposeUp(j)
      <4>1. PICK ok \in BOOLEAN : ComposeUp(p, ok)
        BY <2>2, <3>2 DEF JobComposeUp
      <4> QED BY <2>5, <3>2, <4>1 DEF JobComposeUp, ComposeUp
    <3>3. CASE JobComposeDown(j)
      <4>1. PICK ok \in BOOLEAN : ComposeDown(p, ok)
        BY <2>2, <3>3 DEF JobComposeDown
      <4> QED BY <2>5, <3>3, <4>1 DEF JobComposeDown, ComposeDown
    <3> QED BY <1>2, <3>1, <3>2, <3>3
  <2> QED BY <1>1, <2>3, <2>4, <2>6
<1>3. CASE ~(WriteOverlay(j) \/ JobComposeUp(j) \/ JobComposeDown(j))
  <2>1. UNCHANGED <<overlay, stack>>
    BY <1>3 DEF JobStep, Diagnose, SetStatus, SetProblem, JobRelease, JobFinish
  <2> QED BY <1>1, <2>1
<1> QED BY <1>2, <1>3

\* A project owned by a handler has no job at work on it.
LEMMA HandlerExcludesJobs ==
    ASSUME LockHasOneOwner, NEW p \in Projects, NEW r \in Requests, r \in Owners(p)
    PROVE  JobsHolding(p) = {}
<1>1. Owners(p) = {r}
  BY OneOwner
<1> QED BY <1>1, SlotsAssumption DEF Owners, JobsHolding

\* No file of a project changes while one of its jobs is at work.
THEOREM FilesStable == Spec => FilesKeptUnderJob
<1>1. ASSUME IInv, [Next]_vars, NEW p \in Projects, files'[p] # files[p]
      PROVE  JobsHolding(p) = {}
  <2>0. Typed /\ LockHasOneOwner
    BY <1>1 DEF IInv
  <2>1. PICK r \in Requests : ClientStep(r) \/ RequestStep(r)
    <3>1. ASSUME NEW j \in Jobs, JobStep(j) PROVE UNCHANGED files
      BY <2>0, <3>1, JobWork
    <3> QED BY <1>1, <3>1 DEF Next, ServiceChanges, AgentRestart, vars
  <2>2. r \in Owners(p)
    BY <1>1, <2>0, <2>1, RequestWork
  <2> QED BY <2>0, <2>2, HandlerExcludesJobs
<1>2. IInv /\ [Next]_vars
        => [\A p \in Projects : files'[p] # files[p] => JobsHolding(p) = {}]_vars
  BY <1>1
<1> QED BY <1>2, AlwaysIInv, PTL DEF Spec, FilesKeptUnderJob

\* Only delete_project removes a row.
LEMMA RowRemoval ==
    ASSUME Typed, [Next]_vars, NEW p \in Projects, rows[p] # NoRow, rows'[p] = NoRow
    PROVE  \E r \in Requests : DeleteRow(r) /\ req[r].proj = p
<1>0. rows \in [Projects -> Row]
  BY DEF Typed, TypeOK
<1>1. PICK r \in Requests : CreateInsert(r) \/ PayloadClear(r) \/ DeleteRow(r)
  <2>1. ASSUME NEW j \in Jobs, SetStatus(j) PROVE FALSE
    <3>1. job[j].status # "absent" /\ job[j].proj \in Projects
      BY <2>1 DEF SetStatus, Typed, TypeOK, WellFormed, Job, RowStatus
    <3>2. job[j].proj = p /\ rows'[p] = [rows[p] EXCEPT !.status = job[j].status]
      BY <1>0, <2>1, <3>1 DEF SetStatus
    <3>3. rows[p] \in [status : RowStatus, problem : Versions \cup {None}]
      BY <1>0 DEF Row
    <3>4. rows'[p].status = job[j].status
      BY <3>2, <3>3
    <3> QED BY <3>1, <3>4 DEF NoRow
  <2>2. ASSUME NEW j \in Jobs, SetProblem(j) PROVE FALSE
    <3>1. job[j].proj \in Projects
      BY <2>2 DEF SetProblem, Typed, WellFormed
    <3>2. job[j].proj = p /\ rows'[p] = [rows[p] EXCEPT !.problem = job[j].diag]
      BY <1>0, <2>2, <3>1 DEF SetProblem
    <3>3. rows[p] \in [status : RowStatus, problem : Versions \cup {None}]
      BY <1>0 DEF Row
    <3>4. rows'[p].status = rows[p].status /\ rows[p].status # "absent"
      BY <3>2, <3>3 DEF RowStatus
    <3> QED BY <3>4 DEF NoRow
  <2>3. ASSUME NEW j \in Jobs, JobStep(j) PROVE FALSE
    BY <2>1, <2>2, <2>3 DEF JobStep, WriteOverlay, JobComposeUp, Diagnose,
       JobComposeDown, JobRelease, JobFinish
  <2>4. PICK r \in Requests : ClientStep(r) \/ RequestStep(r)
    BY <2>3 DEF Next, ServiceChanges, AgentRestart, vars
  <2> QED BY <2>4
          DEF ClientStep, RequestStep, Call, ReceiveBody, RequireRow, Acquire, Release,
              CreateCheck, CreateReread, GetProject, ListProjects, PayloadExists,
              PayloadRead, PayloadProbe, ExtractArchive, ExtractMember, ReplaceFile,
              StatFile, IsFile, UnlinkFile, DeleteDown, UpExists, UpRead, Submit,
              SubmitFails
<1>2. req[r].proj \in Projects
  BY <1>1 DEF CreateInsert, PayloadClear, DeleteRow, Typed, WellFormed
<1>3. CASE CreateInsert(r)
  BY <1>0, <1>2, <1>3 DEF CreateInsert, NoRow
<1>4. CASE PayloadClear(r)
  <2>1. req[r].proj = p /\ rows'[p] = [rows[p] EXCEPT !.problem = None]
    BY <1>0, <1>2, <1>4 DEF PayloadClear
  <2>2. rows[p] \in [status : RowStatus, problem : Versions \cup {None}]
    BY <1>0 DEF Row
  <2>3. rows'[p].status = rows[p].status /\ rows[p].status # "absent"
    BY <2>1, <2>2 DEF RowStatus
  <2> QED BY <2>3 DEF NoRow
<1>5. CASE DeleteRow(r)
  BY <1>0, <1>2, <1>5 DEF DeleteRow
<1> QED BY <1>1, <1>3, <1>4, <1>5

\* The row of a project is never removed while one of its jobs is at work.
THEOREM RowStable == Spec => RowKeptUnderJob
<1>1. ASSUME IInv, [Next]_vars, NEW p \in Projects, rows[p] # NoRow, rows'[p] = NoRow
      PROVE  JobsHolding(p) = {}
  <2>1. PICK r \in Requests : DeleteRow(r) /\ req[r].proj = p
    BY <1>1, RowRemoval DEF IInv
  <2>2. r \in Owners(p)
    BY <2>1 DEF DeleteRow, Owners, RequestsHolding, LockedRequest
  <2> QED BY <1>1, <2>2, HandlerExcludesJobs DEF IInv
<1>2. IInv /\ [Next]_vars
        => [\A p \in Projects :
              rows[p] # NoRow /\ rows'[p] = NoRow => JobsHolding(p) = {}]_vars
  BY <1>1
<1> QED BY <1>2, AlwaysIInv, PTL DEF Spec, RowKeptUnderJob

-----------------------------------------------------------------------------
(* Two `up` jobs never race on the same overlay *)

\* Only the owner of a project writes its overlay, so no step comes between a job's
\* overlay and its compose command.
LEMMA StepOverlay ==
    ASSUME IInv, [Next]_vars, OverlayIsOwn
    PROVE  OverlayIsOwn'
<1>0. Typed /\ LockHasOneOwner /\ overlay \in [Projects -> Contents] /\ job \in [Jobs -> Job]
  BY DEF IInv, Typed, TypeOK
<1> SUFFICES ASSUME NEW k \in Jobs, job'[k].pc = "compose"
             PROVE  overlay'[job'[k].proj] = job'[k].ver
  BY DEF OverlayIsOwn
<1>1. CASE UNCHANGED <<overlay, job>>
  BY <1>1 DEF OverlayIsOwn
<1>2. ASSUME NEW r \in Requests, ClientStep(r) \/ RequestStep(r)
      PROVE  overlay'[job'[k].proj] = job'[k].ver
  <2>1. UNCHANGED overlay
    BY <1>0, <1>2, RequestWork
  <2>2. CASE Submit(r)
    <3> DEFINE y == [state |-> "running", op |-> req[r].op, proj |-> req[r].proj,
                     pc |-> IF req[r].op = "up" THEN "overlay" ELSE "down",
                     ver |-> req[r].ver, status |-> "none", diag |-> None]
    <3>1. PICK j \in Jobs : job' = [job EXCEPT ![j] = y]
      BY <2>2 DEF Submit
    <3>2. y.pc # "compose"
      OBVIOUS
    <3> HIDE DEF y
    <3>3. k # j /\ job'[k] = job[k]
      BY <1>0, <3>1, <3>2
    <3> QED BY <2>1, <3>3 DEF OverlayIsOwn
  <2>3. CASE ~Submit(r)
    <3>1. UNCHANGED job
      BY <1>0, <1>2, <2>3, RequestKeepsOwners
         DEF LockStep, Acquire, Release, SubmitFails
    <3> QED BY <1>1, <2>1, <3>1
  <2> QED BY <2>2, <2>3
<1>3. ASSUME NEW j \in Jobs, JobStep(j)
      PROVE  overlay'[job'[k].proj] = job'[k].ver
  <2>0. job[j] \in Job
    BY <1>0
  <2>1. CASE WriteOverlay(j)
    <3>0. PICK p \in Projects : p = job[j].proj
      BY <1>0, <2>1 DEF WriteOverlay, Typed, WellFormed
    <3>1. j \in Owners(p)
      BY <2>1, <3>0 DEF WriteOverlay, Owners, JobsHolding, LockedJob, JobPC
    <3>2. CASE k = j
      <4>1. overlay' = [overlay EXCEPT ![p] = job[j].ver] /\ JobGoTo(j, "compose")
        <5>1. ASSUME job' = [job EXCEPT ![j].status = "failed_to_start", ![j].pc = "status"]
              PROVE  FALSE
          BY <1>0, <2>0, <3>2, <5>1 DEF Job
        <5> QED BY <2>1, <3>0, <5>1 DEF WriteOverlay
      <4>2. job'[k].proj = p /\ job'[k].ver = job[j].ver
        BY <1>0, <2>0, <3>0, <3>2, <4>1 DEF JobGoTo, Job
      <4> QED BY <1>0, <4>1, <4>2
    <3>3. CASE k # j
      <4>1. job'[k] = job[k]
        BY <1>0, <2>1, <3>3 DEF WriteOverlay, JobGoTo
      <4>2. k \in Owners(job[k].proj) /\ job[k].proj \in Projects
        BY <1>0, <4>1 DEF Owners, JobsHolding, LockedJob, JobPC, Typed, WellFormed
      <4>3. job[k].proj # p
        BY <1>0, <3>1, <3>3, <4>2, OneOwner
      <4>4. overlay'[job[k].proj] = overlay[job[k].proj]
        BY <1>0, <2>1, <3>0, <4>2, <4>3 DEF WriteOverlay
      <4> QED BY <4>1, <4>4 DEF OverlayIsOwn
    <3> QED BY <3>2, <3>3
  <2>2. CASE ~WriteOverlay(j)
    <3>1. UNCHANGED overlay
      BY <1>3, <2>2 DEF JobStep, JobComposeUp, Diagnose, JobComposeDown, SetStatus,
                        SetProblem, JobRelease, JobFinish
    <3>2. CASE k # j
      <4>1. job'[k] = job[k]
        BY <1>0, <1>3, <2>2, <3>2
           DEF JobStep, JobComposeUp, Diagnose, JobComposeDown, SetStatus, SetProblem,
               JobRelease, JobFinish, JobGoTo
      <4> QED BY <3>1, <4>1 DEF OverlayIsOwn
    <3>3. CASE k = j
      <4>1. ASSUME JobComposeUp(j) \/ Diagnose(j) PROVE job'[j].pc # "compose"
        BY <1>0, <2>0, <4>1 DEF JobComposeUp, Diagnose, JobGoTo, Job
      <4>2. ASSUME JobComposeDown(j) PROVE job'[j].pc # "compose"
        BY <1>0, <2>0, <4>2 DEF JobComposeDown, JobGoTo, Job
      <4>3. ASSUME SetStatus(j) \/ SetProblem(j) \/ JobRelease(j) \/ JobFinish(j)
            PROVE  job'[j].pc # "compose"
        BY <1>0, <2>0, <4>3 DEF SetStatus, SetProblem, JobRelease, JobFinish, JobGoTo, Job
      <4>4. job'[j].pc # "compose"
        BY <1>3, <2>2, <4>1, <4>2, <4>3 DEF JobStep
      <4> QED BY <3>3, <4>4
    <3> QED BY <3>2, <3>3
  <2> QED BY <2>1, <2>2
<1>4. CASE AgentRestart
  BY <1>4 DEF AgentRestart, NoJob
<1> QED BY <1>1, <1>2, <1>3, <1>4 DEF Next, ServiceChanges, vars

\* The overlay compose reads is always the one its own job wrote.
THEOREM OverlayOwnership == Spec => []OverlayIsOwn
<1>1. Init => OverlayIsOwn
  BY DEF Init, OverlayIsOwn, NoJob
<1>2. IInv /\ OverlayIsOwn /\ [Next]_vars => OverlayIsOwn'
  BY StepOverlay
<1> QED BY <1>1, <1>2, AlwaysIInv, PTL DEF Spec

-----------------------------------------------------------------------------
(* The agent implements ProjectOwner *)

\* What ProjectOwner calls a project's world.
World == [p \in Projects |-> <<files[p], overlay[p], stack[p].compose, stack[p].overlay>>]
OwnerMap == [p \in Projects |-> Owners(p)]

\* The initial states of the agent are initial states of ProjectOwner.
LEMMA OwnerInit == Init => Owner!Init
<1> SUFFICES ASSUME Init PROVE \A p \in Projects : Owners(p) = {}
  BY DEF Owner!Init
<1>1. (\A r \in Requests : req[r].pc \notin LockedRequest)
      /\ \A j \in Jobs : job[j].pc \notin LockedJob
  BY DEF Init, Idle, NoJob, LockedRequest, LockedJob
<1> QED BY <1>1 DEF Owners, RequestsHolding, JobsHolding

\* Every step of the agent is a step of ProjectOwner, or changes nothing it sees.
LEMMA OwnerStep == IInv /\ [Next]_vars => [Owner!Next]_<<OwnerMap, World>>
<1> SUFFICES ASSUME IInv, [Next]_vars PROVE Owner!Next \/ UNCHANGED <<OwnerMap, World>>
  OBVIOUS
<1>0. Typed /\ LockHasOneOwner
  BY DEF IInv
<1>1. CASE (\A q \in Projects : Owners(q)' = Owners(q)) /\ UNCHANGED <<files, overlay, stack>>
  BY <1>1 DEF OwnerMap, World
<1>2. ASSUME NEW p \in Projects, Owners(p) # {},
             \A q \in Projects : Owners(q)' = Owners(q),
             \A q \in Projects \ {p} : files'[q] = files[q] /\ overlay'[q] = overlay[q]
                                       /\ stack'[q] = stack[q]
      PROVE  Owner!Work(p)
  BY <1>2 DEF Owner!Work
<1>3. ASSUME NEW p \in Projects, NEW s, UNCHANGED <<files, overlay, stack>>, Owners(p)' = s,
             \A q \in Projects \ {p} : Owners(q)' = Owners(q)
      PROVE  /\ OwnerMap' = [OwnerMap EXCEPT ![p] = s]
             /\ World' = World
  BY <1>3 DEF OwnerMap, World
<1>4. ASSUME NEW r \in Requests, ClientStep(r) \/ RequestStep(r)
      PROVE  Owner!Next \/ UNCHANGED <<OwnerMap, World>>
  <2>1. CASE LockStep(r)
    <3>1. UNCHANGED <<files, overlay, stack>>
      BY <2>1 DEF LockStep, Acquire, Release, Submit, SubmitFails
    <3>2. CASE Acquire(r)
      <4>1. CASE \A q \in Projects : Owners(q)' = Owners(q)
        BY <1>1, <3>1, <4>1
      <4>2. CASE \E p \in Projects :
                   /\ p \notin held /\ held' = held \cup {p}
                   /\ Owners(p)' = {r}
                   /\ \A q \in Projects \ {p} : Owners(q)' = Owners(q)
        <5>1. PICK p \in Projects :
                   /\ p \notin held /\ Owners(p)' = {r}
                   /\ \A q \in Projects \ {p} : Owners(q)' = Owners(q)
          BY <4>2
        <5>2. Owners(p) = {}
          BY <1>0, <5>1 DEF LockHasOneOwner
        <5>3. Owner!Take(p, r)
          BY <1>3, <3>1, <5>1, <5>2 DEF Owner!Take, OwnerMap, World
        <5> QED BY <5>3 DEF Owner!Next
      <4> QED BY <1>0, <3>2, <4>1, <4>2, AcquireOwners
    <3>3. CASE Release(r) \/ SubmitFails(r)
      <4>1. PICK p \in Projects :
              /\ Owners(p) # {} /\ Owners(p)' = {}
              /\ \A q \in Projects \ {p} : Owners(q)' = Owners(q)
        BY <1>0, <3>3, ReleaseOwners
      <4>2. Owner!PutDown(p)
        BY <1>3, <3>1, <4>1 DEF Owner!PutDown, OwnerMap, World
      <4> QED BY <4>2 DEF Owner!Next
    <3>4. CASE Submit(r)
      <4>1. PICK p \in Projects, j \in Jobs :
              /\ Owners(p) # {} /\ Owners(p)' = {j}
              /\ \A q \in Projects \ {p} : Owners(q)' = Owners(q)
        BY <1>0, <3>4, SubmitOwners
      <4>2. Owner!HandOver(p, j)
        BY <1>3, <3>1, <4>1 DEF Owner!HandOver, OwnerMap, World
      <4> QED BY <4>2 DEF Owner!Next
    <3> QED BY <2>1, <3>2, <3>3, <3>4 DEF LockStep
  <2>2. CASE ~LockStep(r)
    <3>1. \A q \in Projects : Owners(q)' = Owners(q)
      BY <1>0, <1>4, <2>2, RequestKeepsOwners
    <3>2. CASE UNCHANGED <<files, stack>>
      BY <1>0, <1>1, <1>4, <3>1, <3>2, RequestWork
    <3>3. CASE \E p \in Projects :
                 /\ r \in Owners(p) /\ ~LockStep(r)
                 /\ \A q \in Projects \ {p} : files'[q] = files[q] /\ stack'[q] = stack[q]
      <4>1. PICK p \in Projects :
                 /\ r \in Owners(p)
                 /\ \A q \in Projects \ {p} : files'[q] = files[q] /\ stack'[q] = stack[q]
        BY <3>3
      <4>2. UNCHANGED overlay
        BY <1>0, <1>4, RequestWork
      <4>3. Owner!Work(p)
        BY <1>2, <3>1, <4>1, <4>2
      <4> QED BY <4>3 DEF Owner!Next
    <3> QED BY <1>0, <1>4, <3>2, <3>3, RequestWork
  <2> QED BY <2>1, <2>2
<1>5. ASSUME NEW j \in Jobs, JobStep(j)
      PROVE  Owner!Next \/ UNCHANGED <<OwnerMap, World>>
  <2>1. CASE JobRelease(j)
    <3>1. UNCHANGED <<files, overlay, stack>>
      BY <2>1 DEF JobRelease
    <3>2. PICK p \in Projects :
            /\ Owners(p) # {} /\ Owners(p)' = {}
            /\ \A q \in Projects \ {p} : Owners(q)' = Owners(q)
      BY <1>0, <2>1, JobReleaseOwners
    <3>3. Owner!PutDown(p)
      BY <1>3, <3>1, <3>2 DEF Owner!PutDown, OwnerMap, World
    <3> QED BY <3>3 DEF Owner!Next
  <2>2. CASE ~JobRelease(j)
    <3>1. \A q \in Projects : Owners(q)' = Owners(q)
      BY <1>0, <1>5, <2>2, JobKeepsOwners
    <3>2. UNCHANGED files
      BY <1>0, <1>5, JobWork
    <3>3. CASE UNCHANGED <<overlay, stack>>
      BY <1>1, <3>1, <3>2, <3>3
    <3>4. CASE \E p \in Projects :
                 /\ j \in Owners(p)
                 /\ \A q \in Projects \ {p} : overlay'[q] = overlay[q] /\ stack'[q] = stack[q]
      <4>1. PICK p \in Projects :
                 /\ j \in Owners(p)
                 /\ \A q \in Projects \ {p} : overlay'[q] = overlay[q] /\ stack'[q] = stack[q]
        BY <3>4
      <4>2. Owner!Work(p)
        BY <1>2, <3>1, <3>2, <4>1
      <4> QED BY <4>2 DEF Owner!Next
    <3> QED BY <1>0, <1>5, <3>3, <3>4, JobWork
  <2> QED BY <2>1, <2>2
<1>6. ASSUME NEW p \in Projects, ServiceChanges(p)
      PROVE  UNCHANGED <<OwnerMap, World>>
  <2>1. stack \in [Projects -> Stack]
    BY <1>0 DEF Typed, TypeOK
  <2>2. \A q \in Projects : stack'[q].compose = stack[q].compose
                            /\ stack'[q].overlay = stack[q].overlay
    BY <1>6, <2>1 DEF ServiceChanges, Stack
  <2> QED BY <1>6, <2>2
          DEF ServiceChanges, OwnerMap, World, Owners, RequestsHolding, JobsHolding
<1>7. CASE AgentRestart
  <2>1. (\A r \in Requests : req'[r].pc \notin LockedRequest)
        /\ \A j \in Jobs : job'[j].pc \notin LockedJob
    BY <1>7 DEF AgentRestart, Idle, NoJob, LockedRequest, LockedJob
  <2>2. \A p \in Projects : Owners(p)' = {}
    BY <2>1 DEF Owners, RequestsHolding, JobsHolding
  <2>3. Owner!Restart
    BY <1>7, <2>2 DEF AgentRestart, Owner!Restart
  <2> QED BY <2>3 DEF Owner!Next
<1>8. CASE UNCHANGED vars
  BY <1>8 DEF vars, OwnerMap, World, Owners, RequestsHolding, JobsHolding
<1> QED BY <1>4, <1>5, <1>6, <1>7, <1>8 DEF Next

\* The agent implements ProjectOwner: one thread at a time works on a project, and
\* nobody but that thread changes its files, its overlay or its containers.
THEOREM Implementation == Spec => OneOwnerAtWork
  BY OwnerInit, OwnerStep, AlwaysIInv, PTL
     DEF Spec, OneOwnerAtWork, Owner!Spec, Owner!ownerVars, OwnerMap, World

-----------------------------------------------------------------------------
(* The stored diagnosis *)

\* A row whose diagnosis is of the version that was started last.
Tells(p) == rows[p].problem # None =>
              /\ overlay[p] = rows[p].problem
              /\ rows[p].status \in {"started_ok", "stopped"}

\* What a job has found out, and what its project's row says when it is about to store it.
JobTells(j) ==
    /\ job[j].pc \in {"overlay", "compose", "diagnose", "down"} => job[j].diag = None
    /\ job[j].pc \in {"compose", "diagnose"} => overlay[job[j].proj] = job[j].ver
    /\ job[j].pc = "diagnose" => job[j].status = "started_ok"
    /\ job[j].pc \in {"overlay", "compose", "diagnose", "problem"} => job[j].op = "up"
    /\ job[j].pc = "down" => job[j].op = "down"
    /\ job[j].pc = "status" /\ job[j].op # "up" => job[j].status = "stopped"
    /\ job[j].pc \in {"status", "problem"} /\ job[j].diag # None =>
         /\ job[j].status = "started_ok"
         /\ overlay[job[j].proj] = job[j].diag
    /\ job[j].pc = "problem" /\ job[j].diag # None =>
         rows[job[j].proj] = NoRow \/ rows[job[j].proj].status \in {"started_ok", "stopped"}

DInv ==
    /\ \A p \in Projects : \/ Tells(p)
                          \/ p \in cut
                          \/ \E j \in JobsHolding(p) : Starting(j)
    /\ \A j \in Jobs : JobTells(j)

\* A request leaves the overlay alone, and a row as it is, or without a diagnosis and
\* with a status that goes with one.
LEMMA RequestRows ==
    ASSUME Typed, NEW r \in Requests, ClientStep(r) \/ RequestStep(r), NEW p \in Projects
    PROVE  /\ UNCHANGED overlay
           /\ \/ rows'[p] = rows[p]
              \/ /\ rows'[p].problem = None
                 /\ rows'[p] = NoRow \/ rows'[p].status \in {rows[p].status, "stopped"}
<1>0. rows \in [Projects -> Row]
  BY DEF Typed, TypeOK
<1>1. UNCHANGED overlay
  BY RequestWork
<1>2. CASE CreateInsert(r)
  BY <1>0, <1>1, <1>2 DEF CreateInsert
<1>3. CASE DeleteRow(r)
  BY <1>0, <1>1, <1>3 DEF DeleteRow, NoRow
<1>4. CASE PayloadClear(r)
  <2>1. CASE req[r].proj = p
    <3>1. rows'[p] = [rows[p] EXCEPT !.problem = None]
      BY <1>0, <1>4, <2>1 DEF PayloadClear
    <3>2. rows[p] \in [status : RowStatus, problem : Versions \cup {None}] \/ rows[p] = NoRow
      BY <1>0 DEF Row
    <3>3. rows'[p].problem = None /\ rows'[p].status = rows[p].status
      BY <3>1, <3>2 DEF NoRow
    <3> QED BY <1>1, <3>3
  <2>2. CASE req[r].proj # p
    BY <1>0, <1>1, <1>4, <2>2 DEF PayloadClear
  <2> QED BY <2>1, <2>2
<1>5. CASE ~(CreateInsert(r) \/ DeleteRow(r) \/ PayloadClear(r))
  <2>1. UNCHANGED rows
    BY <1>5
       DEF ClientStep, RequestStep, Call, ReceiveBody, RequireRow, Acquire, Release,
           CreateCheck, CreateReread, GetProject, ListProjects, PayloadExists,
           PayloadRead, PayloadProbe, ExtractArchive, ExtractMember, ReplaceFile,
           StatFile, IsFile, UnlinkFile, DeleteDown, UpExists, UpRead, Submit,
           SubmitFails
  <2> QED BY <1>1, <2>1
<1> QED BY <1>2, <1>3, <1>4, <1>5

\* A request leaves the jobs alone, or starts one.
LEMMA RequestJobs ==
    ASSUME Typed, NEW r \in Requests, ClientStep(r) \/ RequestStep(r)
    PROVE  \/ UNCHANGED job
           \/ \E j \in Jobs :
                /\ job[j].state # "running" /\ \A k \in Jobs \ {j} : job'[k] = job[k]
                /\ job'[j].diag = None
                /\ \/ job'[j].op = "up"   /\ job'[j].pc = "overlay"
                   \/ job'[j].op = "down" /\ job'[j].pc = "down"
<1>1. CASE Submit(r)
  <2> DEFINE y == [state |-> "running", op |-> req[r].op, proj |-> req[r].proj,
                   pc |-> IF req[r].op = "up" THEN "overlay" ELSE "down",
                   ver |-> req[r].ver, status |-> "none", diag |-> None]
  <2>1. PICK j \in Jobs : job[j].state # "running" /\ job' = [job EXCEPT ![j] = y]
    BY <1>1 DEF Submit
  <2>2. req[r].op \in {"up", "down"}
    BY <1>1 DEF Submit, Typed, WellFormed
  <2>3. y.diag = None /\ \/ y.op = "up"   /\ y.pc = "overlay"
                         \/ y.op = "down" /\ y.pc = "down"
    BY <2>2
  <2> HIDE DEF y
  <2>4. job'[j] = y /\ \A k \in Jobs \ {j} : job'[k] = job[k]
    BY <2>1 DEF Typed, TypeOK
  <2> QED BY <2>1, <2>3, <2>4
<1>2. CASE ~Submit(r)
  BY <1>2, RequestKeepsOwners DEF LockStep, Acquire, Release, SubmitFails
<1> QED BY <1>1, <1>2

LEMMA RequestKeepsDiagnosis ==
    ASSUME Typed, DInv, NEW r \in Requests, ClientStep(r) \/ RequestStep(r),
           cut \subseteq cut'
    PROVE  DInv'
<1>1. \A k \in Jobs : job[k].pc # "idle" => job[k].state = "running"
                                             /\ job[k].proj \in Projects
  BY DEF Typed, WellFormed
<1>2. \A k \in Jobs : \/ job'[k] = job[k]
                      \/ /\ job[k].state # "running" /\ job'[k].diag = None
                         /\ \/ job'[k].op = "up"   /\ job'[k].pc = "overlay"
                            \/ job'[k].op = "down" /\ job'[k].pc = "down"
  BY RequestJobs
<1>3. ASSUME NEW p \in Projects, Tells(p) PROVE Tells(p)'
  BY <1>3, RequestRows DEF Tells
<1>4. ASSUME NEW p \in Projects, NEW k \in JobsHolding(p), Starting(k)
      PROVE  k \in JobsHolding(p)' /\ Starting(k)'
  <2>1. job[k].pc # "idle" /\ k \in Jobs
    BY <1>4 DEF Starting, JobsHolding
  <2>2. job'[k] = job[k]
    BY <1>1, <1>2, <2>1
  <2> QED BY <1>4, <2>1, <2>2 DEF Starting, JobsHolding
<1>5. ASSUME NEW k \in Jobs PROVE JobTells(k)'
  <2>1. CASE job'[k] = job[k]
    <3>1. JobTells(k) /\ UNCHANGED overlay
      BY RequestWork DEF DInv
    <3>2. job[k].pc = "problem" /\ job[k].diag # None =>
            \/ rows'[job[k].proj] = NoRow
            \/ rows'[job[k].proj].status \in {"started_ok", "stopped"}
      <4> SUFFICES ASSUME job[k].pc = "problem", job[k].diag # None
                   PROVE  \/ rows'[job[k].proj] = NoRow
                          \/ rows'[job[k].proj].status \in {"started_ok", "stopped"}
        OBVIOUS
      <4>1. PICK p \in Projects : p = job[k].proj
        BY <1>1
      <4>2. rows[p] = NoRow \/ rows[p].status \in {"started_ok", "stopped"}
        BY <3>1, <4>1 DEF JobTells
      <4>3. \/ rows'[p] = rows[p]
            \/ rows'[p] = NoRow \/ rows'[p].status \in {rows[p].status, "stopped"}
        BY RequestRows
      <4>4. rows[p] = NoRow /\ rows'[p].status = rows[p].status => rows'[p] = NoRow
        <5>1. rows' \in [Projects -> Row]
          BY StepTyped DEF Typed, TypeOK, Next
        <5>2. rows'[p] \in [status : RowStatus, problem : Versions \cup {None}]
              \/ rows'[p] = NoRow
          BY <5>1 DEF Row
        <5> QED BY <5>2 DEF RowStatus, NoRow
      <4> QED BY <4>1, <4>2, <4>3, <4>4
    <3> QED BY <2>1, <3>1, <3>2 DEF JobTells
  <2>2. CASE job'[k] # job[k]
    <3>1. /\ job'[k].diag = None
          /\ \/ job'[k].op = "up"   /\ job'[k].pc = "overlay"
             \/ job'[k].op = "down" /\ job'[k].pc = "down"
      BY <1>2, <2>2
    <3> QED BY <3>1 DEF JobTells
  <2> QED BY <2>1, <2>2
<1> QED BY <1>3, <1>4, <1>5 DEF DInv

\* The steps of a job, as far as a diagnosis is concerned.
LEMMA JobMoves ==
    ASSUME Typed, NEW j \in Jobs, JobStep(j), JobTells(j), NEW p \in Projects,
           p = job[j].proj
    PROVE  /\ \A k \in Jobs \ {j} : job'[k] = job[k]
           /\ job'[j].proj = p /\ job'[j].op = job[j].op /\ job'[j].ver = job[j].ver
           /\ \A q \in Projects \ {p} : rows'[q] = rows[q] /\ overlay'[q] = overlay[q]
           /\ \/ /\ job[j].pc = "overlay" /\ UNCHANGED rows /\ job'[j].diag = None
                 /\ \/ job'[j].pc = "compose" /\ overlay'[p] = job[j].ver
                    \/ job'[j].pc = "status"
              \/ /\ job[j].pc = "compose" /\ UNCHANGED <<rows, overlay>>
                 /\ job'[j].diag = None
                 /\ \/ job'[j].pc = "diagnose" /\ job'[j].status = "started_ok"
                    \/ job'[j].pc = "status"
              \/ /\ job[j].pc = "diagnose" /\ UNCHANGED <<rows, overlay>>
                 /\ job'[j].pc = "status" /\ job'[j].status = job[j].status
                 /\ job'[j].diag \in {None, job[j].ver}
              \/ /\ job[j].pc = "down" /\ UNCHANGED <<rows, overlay>>
                 /\ job'[j].diag = None
                 /\ \/ job'[j].pc = "status" /\ job'[j].status = "stopped"
                    \/ job'[j].pc = "release"
              \/ /\ job[j].pc = "status" /\ UNCHANGED overlay
                 /\ rows[p] = NoRow => rows'[p] = NoRow
                 /\ rows[p] # NoRow => /\ rows'[p].status = job[j].status
                                       /\ rows'[p].problem = rows[p].problem
                 /\ job[j].op = "up" => job'[j].pc = "problem"
                 /\ job[j].op # "up" => job'[j].pc = "release"
                 /\ job'[j].diag = job[j].diag /\ job'[j].status = job[j].status
              \/ /\ job[j].pc = "problem" /\ UNCHANGED overlay
                 /\ rows[p] = NoRow => rows'[p] = NoRow
                 /\ rows[p] # NoRow => /\ rows'[p].status = rows[p].status
                                       /\ rows'[p].problem = job[j].diag
                 /\ job'[j].pc = "release"
              \/ /\ job[j].pc \in {"release", "finish"} /\ UNCHANGED <<rows, overlay>>
                 /\ job'[j].pc \in {"finish", "idle"}
<1>0. /\ job \in [Jobs -> Job] /\ job[j] \in Job
      /\ rows \in [Projects -> Row] /\ overlay \in [Projects -> Contents]
  BY DEF Typed, TypeOK
<1>1. CASE WriteOverlay(j)
  BY <1>0, <1>1 DEF WriteOverlay, JobGoTo, Job, JobTells
<1>2. CASE JobComposeUp(j)
  <2>1. job[j].pc = "compose" /\ UNCHANGED <<rows, overlay>>
    BY <1>2 DEF JobComposeUp
  <2>2. job[j].diag = None
    BY <2>1 DEF JobTells
  <2>3. PICK status \in RowStatus, pc \in {"diagnose", "status"} :
             /\ job' = [job EXCEPT ![j].status = status, ![j].pc = pc]
             /\ pc = "diagnose" => status = "started_ok"
    BY <1>2 DEF JobComposeUp, RowStatus
  <2>4. /\ \A k \in Jobs \ {j} : job'[k] = job[k]
        /\ job'[j].proj = p /\ job'[j].op = job[j].op /\ job'[j].ver = job[j].ver
        /\ job'[j].diag = job[j].diag /\ job'[j].pc = pc /\ job'[j].status = status
    BY <1>0, <2>3 DEF Job
  <2> QED BY <2>1, <2>2, <2>3, <2>4
<1>3. CASE Diagnose(j)
  BY <1>0, <1>3 DEF Diagnose, JobGoTo, Job, JobTells
<1>4. CASE JobComposeDown(j)
  <2>1. job[j].pc = "down" /\ UNCHANGED <<rows, overlay>>
    BY <1>4 DEF JobComposeDown
  <2>2. job[j].diag = None
    BY <2>1 DEF JobTells
  <2>3. CASE job' = [job EXCEPT ![j].status = "stopped", ![j].pc = "status"]
    BY <1>0, <2>1, <2>2, <2>3 DEF Job
  <2>4. CASE job' = [job EXCEPT ![j].pc = "release"]
    BY <1>0, <2>1, <2>2, <2>4 DEF Job
  <2> QED BY <1>4, <2>3, <2>4 DEF JobComposeDown, JobGoTo
<1>5. CASE SetStatus(j)
  <2>1. rows[p] \in [status : RowStatus, problem : Versions \cup {None}] \/ rows[p] = NoRow
    BY <1>0 DEF Row
  <2>2. /\ rows[p] = NoRow => rows'[p] = NoRow
        /\ rows[p] # NoRow => /\ rows'[p].status = job[j].status
                              /\ rows'[p].problem = rows[p].problem
    BY <1>0, <1>5, <2>1 DEF SetStatus
  <2> QED BY <1>0, <1>5, <2>2 DEF SetStatus, JobGoTo, Job
<1>6. CASE SetProblem(j)
  <2>1. rows[p] \in [status : RowStatus, problem : Versions \cup {None}] \/ rows[p] = NoRow
    BY <1>0 DEF Row
  <2>2. /\ rows[p] = NoRow => rows'[p] = NoRow
        /\ rows[p] # NoRow => /\ rows'[p].status = rows[p].status
                              /\ rows'[p].problem = job[j].diag
    BY <1>0, <1>6, <2>1 DEF SetProblem
  <2> QED BY <1>0, <1>6, <2>2 DEF SetProblem, JobGoTo, Job
<1>7. CASE JobRelease(j) \/ JobFinish(j)
  BY <1>0, <1>7 DEF JobRelease, JobFinish, JobGoTo, Job
<1> QED BY <1>1, <1>2, <1>3, <1>4, <1>5, <1>6, <1>7 DEF JobStep

LEMMA JobKeepsDiagnosis ==
    ASSUME IInv, DInv, NEW j \in Jobs, JobStep(j),
           \A q \in cut : q # job[j].proj \/ job[j].pc # "problem" => q \in cut'
    PROVE  DInv'
<1>0. Typed /\ LockHasOneOwner /\ JobTells(j)
  BY DEF IInv, DInv
<1>1. PICK p \in Projects : p = job[j].proj
  <2>1. job[j].pc # "idle"
    BY DEF JobStep, WriteOverlay, JobComposeUp, Diagnose, JobComposeDown, SetStatus,
           SetProblem, JobRelease, JobFinish
  <2> QED BY <1>0, <2>1 DEF Typed, WellFormed
<1> DEFINE Lemma ==
           /\ \A k \in Jobs \ {j} : job'[k] = job[k]
           /\ job'[j].proj = p /\ job'[j].op = job[j].op /\ job'[j].ver = job[j].ver
           /\ \A q \in Projects \ {p} : rows'[q] = rows[q] /\ overlay'[q] = overlay[q]
<1>2. Lemma
  BY <1>0, <1>1, JobMoves
<1>3. rows[p] \in [status : RowStatus, problem : Versions \cup {None}] \/ rows[p] = NoRow
  BY <1>0 DEF Typed, TypeOK, Row
\* Another job has another project, as long as it is at work.
<1>4. ASSUME NEW k \in Jobs, k # j, job[k].pc \in LockedJob
      PROVE  /\ job'[k] = job[k] /\ job[k].proj \in Projects
             /\ job[j].pc \in LockedJob => job[k].proj # p
  <2>1. job'[k] = job[k] /\ job[k].proj \in Projects
    BY <1>0, <1>2, <1>4 DEF LockedJob, Typed, WellFormed
  <2>2. k \in Owners(job[k].proj)
    BY <1>4 DEF Owners, JobsHolding
  <2>3. job[j].pc \in LockedJob => j \in Owners(p)
    BY <1>1 DEF Owners, JobsHolding
  <2> QED BY <1>0, <1>4, <2>1, <2>2, <2>3, OneOwner
<1>5. {"overlay", "compose", "diagnose", "down", "status", "problem", "release"}
        \subseteq LockedJob
  BY DEF LockedJob, JobPC
<1>6. ASSUME NEW q \in Projects, q # p
      PROVE  Tells(q)' \/ q \in cut' \/ \E k \in JobsHolding(q)' : Starting(k)'
  <2>1. rows'[q] = rows[q] /\ overlay'[q] = overlay[q]
    BY <1>2, <1>6
  <2>2. CASE Tells(q)
    BY <2>1, <2>2 DEF Tells
  <2>3. CASE ~Tells(q) /\ q \notin cut
    <3>1. PICK k \in JobsHolding(q) : Starting(k)
      BY <2>3 DEF DInv
    <3>2. k \in Jobs /\ k # j /\ job'[k] = job[k]
      BY <1>1, <1>2, <1>6, <3>1 DEF JobsHolding
    <3>3. k \in JobsHolding(q)' /\ Starting(k)'
      BY <3>1, <3>2 DEF JobsHolding, Starting
    <3> QED BY <3>3
  <2>4. CASE q \in cut
    BY <1>1, <1>6, <2>4
  <2> QED BY <2>2, <2>3, <2>4
\* The job's own project has a row that tells, unless the job is starting it, or a start
\* before was cut short.
<1>7. job[j].pc \in LockedJob /\ ~Starting(j) => Tells(p) \/ p \in cut
  <2> SUFFICES ASSUME job[j].pc \in LockedJob, ~Starting(j), ~Tells(p), p \notin cut
               PROVE  FALSE
    OBVIOUS
  <2>1. PICK k \in JobsHolding(p) : Starting(k)
    BY DEF DInv
  <2>2. k \in Jobs /\ job[k].pc \in LockedJob /\ job[k].proj = p
    BY <2>1 DEF JobsHolding
  <2> QED BY <1>4, <2>1, <2>2
<1>8. ASSUME job'[j].pc \in {"compose", "diagnose", "status", "problem"}, job[j].op = "up"
      PROVE  j \in JobsHolding(p)' /\ Starting(j)'
  BY <1>2, <1>5, <1>8 DEF JobsHolding, Starting
<1>9. Tells(p)' \/ p \in cut' \/ \E k \in JobsHolding(p)' : Starting(k)'
  <2>1. CASE job[j].pc \in {"overlay", "compose", "diagnose"}
    <3>1. job'[j].pc \in {"compose", "diagnose", "status"} /\ job[j].op = "up"
      BY <1>0, <1>1, <2>1, JobMoves DEF JobTells
    <3> QED BY <1>8, <3>1
  <2>2. CASE job[j].pc = "down"
    <3>1. (Tells(p) \/ p \in cut) /\ UNCHANGED <<rows, overlay>>
      BY <1>0, <1>1, <1>5, <1>7, <2>2, JobMoves DEF Starting
    <3> QED BY <1>1, <2>2, <3>1 DEF Tells
  <2>3. CASE job[j].pc = "status"
    <3>1. /\ UNCHANGED overlay
          /\ rows[p] = NoRow => rows'[p] = NoRow
          /\ rows[p] # NoRow => /\ rows'[p].status = job[j].status
                                /\ rows'[p].problem = rows[p].problem
          /\ job[j].op = "up" => job'[j].pc = "problem"
      BY <1>0, <1>1, <2>3, JobMoves
    <3>2. CASE job[j].op = "up"
      BY <1>8, <3>1, <3>2
    <3>3. CASE job[j].op # "up"
      <4>1. (Tells(p) \/ p \in cut) /\ job[j].status = "stopped"
        BY <1>0, <1>5, <1>7, <2>3, <3>3 DEF Starting, JobTells
      <4>2. rows'[p] = NoRow \/ (rows'[p].problem = rows[p].problem
                                   /\ rows'[p].status = "stopped")
        BY <1>3, <3>1, <4>1
      <4>3. p \in cut => p \in cut'
        BY <2>3
      <4> QED BY <3>1, <4>1, <4>2, <4>3 DEF Tells, NoRow
    <3> QED BY <3>2, <3>3
  <2>4. CASE job[j].pc = "problem"
    <3>1. /\ UNCHANGED overlay
          /\ rows[p] = NoRow => rows'[p] = NoRow
          /\ rows[p] # NoRow => /\ rows'[p].status = rows[p].status
                                /\ rows'[p].problem = job[j].diag
      BY <1>0, <1>1, <2>4, JobMoves
    <3>2. CASE rows[p] = NoRow
      BY <3>1, <3>2 DEF Tells, NoRow
    <3>3. CASE rows[p] # NoRow
      <4>1. rows'[p].problem = job[j].diag /\ rows'[p].status = rows[p].status
        BY <3>1, <3>3
      <4>2. job[j].diag # None => /\ overlay[p] = job[j].diag
                                  /\ rows[p].status \in {"started_ok", "stopped"}
        BY <1>0, <1>1, <2>4, <3>3 DEF JobTells
      <4> QED BY <3>1, <4>1, <4>2 DEF Tells
    <3> QED BY <3>2, <3>3
  <2>5. CASE job[j].pc \in {"release", "finish"}
    <3>1. UNCHANGED <<rows, overlay>>
      BY <1>0, <1>1, <2>5, JobMoves
    <3>2. CASE Tells(p)
      BY <3>1, <3>2 DEF Tells
    <3>3. CASE p \in cut
      BY <2>5, <3>3
    <3>4. CASE ~Tells(p) /\ p \notin cut
      <4>1. PICK k \in JobsHolding(p) : Starting(k)
        BY <3>4 DEF DInv
      <4>2. k \in Jobs /\ k # j /\ job'[k] = job[k]
        BY <1>2, <2>5, <4>1 DEF JobsHolding, Starting
      <4>3. k \in JobsHolding(p)' /\ Starting(k)'
        BY <4>1, <4>2 DEF JobsHolding, Starting
      <4> QED BY <4>3
    <3> QED BY <3>2, <3>3, <3>4
  <2> QED BY <1>0, <1>1, <2>1, <2>2, <2>3, <2>4, <2>5, JobMoves
<1>10. ASSUME NEW k \in Jobs, k # j
       PROVE  JobTells(k)'
  <2>1. job'[k] = job[k] /\ JobTells(k)
    BY <1>2, <1>10 DEF DInv
  <2>2. CASE job[k].pc \in LockedJob /\ job[j].pc \in LockedJob
    <3>1. job[k].proj \in Projects \ {p}
      BY <1>4, <1>10, <2>2
    <3>2. rows'[job[k].proj] = rows[job[k].proj] /\ overlay'[job[k].proj] = overlay[job[k].proj]
      BY <1>2, <3>1
    <3> QED BY <2>1, <3>2 DEF JobTells
  <2>3. CASE job[k].pc \notin LockedJob
    BY <1>5, <2>1, <2>3 DEF JobTells
  <2>4. CASE job[j].pc \notin LockedJob
    <3>1. UNCHANGED <<rows, overlay>>
      BY <1>0, <1>1, <1>5, <2>4, JobMoves
    <3> QED BY <2>1, <3>1 DEF JobTells
  <2> QED BY <2>2, <2>3, <2>4
<1>11. JobTells(j)'
  <2>1. CASE job[j].pc = "overlay"
    <3>1. /\ job'[j].diag = None /\ job'[j].op = "up" /\ job'[j].proj = p
          /\ \/ job'[j].pc = "compose" /\ overlay'[p] = job'[j].ver
             \/ job'[j].pc = "status"
      BY <1>0, <1>1, <2>1, JobMoves DEF JobTells
    <3> QED BY <3>1 DEF JobTells
  <2>2. CASE job[j].pc = "compose"
    <3>1. /\ job'[j].diag = None /\ job'[j].op = "up" /\ job'[j].proj = p
          /\ overlay'[p] = job'[j].ver
          /\ \/ job'[j].pc = "diagnose" /\ job'[j].status = "started_ok"
             \/ job'[j].pc = "status"
      BY <1>0, <1>1, <2>2, JobMoves DEF JobTells
    <3> QED BY <3>1 DEF JobTells
  <2>3. CASE job[j].pc = "diagnose"
    <3>1. /\ job'[j].diag \in {None, job'[j].ver} /\ job'[j].op = "up" /\ job'[j].proj = p
          /\ overlay'[p] = job'[j].ver
          /\ job'[j].pc = "status" /\ job'[j].status = "started_ok"
      BY <1>0, <1>1, <2>3, JobMoves DEF JobTells
    <3> QED BY <3>1 DEF JobTells
  <2>4. CASE job[j].pc = "down"
    <3>1. /\ job'[j].diag = None /\ job'[j].op = "down"
          /\ \/ job'[j].pc = "status" /\ job'[j].status = "stopped"
             \/ job'[j].pc = "release"
      BY <1>0, <1>1, <2>4, JobMoves DEF JobTells
    <3> QED BY <3>1 DEF JobTells
  <2>5. CASE job[j].pc = "status"
    <3>1. /\ UNCHANGED overlay /\ job'[j].op = job[j].op /\ job'[j].proj = p
          /\ rows'[p] = NoRow \/ rows'[p].status = job[j].status
          /\ (job'[j].pc = "problem" /\ job[j].op = "up") \/ job'[j].pc = "release"
          /\ job'[j].diag = job[j].diag /\ job'[j].status = job[j].status
      BY <1>0, <1>1, <2>5, JobMoves
    <3>2. job[j].diag # None => overlay[p] = job[j].diag /\ job[j].status = "started_ok"
      BY <1>0, <1>1, <2>5 DEF JobTells
    <3> QED BY <3>1, <3>2 DEF JobTells
  <2>6. CASE job[j].pc \in {"problem", "release", "finish"}
    <3>1. job'[j].pc \in {"release", "finish", "idle"}
      BY <1>0, <1>1, <2>6, JobMoves
    <3> QED BY <3>1 DEF JobTells
  <2> QED BY <1>0, <1>1, <2>1, <2>2, <2>3, <2>4, <2>5, <2>6, JobMoves
<1> QED BY <1>6, <1>9, <1>10, <1>11 DEF DInv

\* While nobody works on a project, the diagnosis its row carries is of the version it
\* was started with last, and of one whose containers stayed up: the two transactions of
\* an `up`, and reads that clear what they find, leave nothing else behind.  A project
\* whose start was lost in a restart of the agent is excepted until a start of it is over.
THEOREM DiagnosisStands == DiagnosisSpec => []DiagnosisIsOfLastUp
<1>1. DiagnosisInit => DInv
  BY DEF DiagnosisInit, Init, DInv, Tells, JobTells, NoSnap, NoRow, NoJob
<1>2. IInv /\ DInv /\ [DiagnosisNext]_<<vars, cut>> => DInv'
  <2> SUFFICES ASSUME IInv, DInv, [DiagnosisNext]_<<vars, cut>> PROVE DInv'
    OBVIOUS
  <2>1. Typed
    BY DEF IInv
\* A project whose start was cut short stays among them until a diagnosis is stored.
  <2>2. ASSUME \A k \in Jobs : job[k].pc = "problem" => job'[k].pc # "release"
        PROVE  Told = {} /\ cut \subseteq cut'
    <3>1. Told = {}
      <4>1. \A k \in Jobs : ~SetProblem(k)
        BY <2>1, <2>2 DEF SetProblem, JobGoTo, Typed, TypeOK, Job
      <4> QED BY <4>1 DEF Told, JobsHolding
    <3> QED BY <3>1 DEF DiagnosisNext, vars
  <2>3. CASE UNCHANGED <<rows, overlay, job>>
    <3>1. cut \subseteq cut'
      BY <2>2, <2>3
    <3> QED BY <2>3, <3>1 DEF DInv, Tells, Starting, JobTells, JobsHolding
  <2>4. CASE AgentRestart
    <3>1. UNCHANGED <<rows, overlay>> /\ \A k \in Jobs : job'[k] = NoJob
      BY <2>4 DEF AgentRestart
    <3>2. Told = {} /\ cut \subseteq cut'
      BY <2>2, <3>1 DEF NoJob
    <3>3. \A k \in Jobs : JobTells(k)'
      BY <3>1 DEF JobTells, NoJob
    <3>4. ASSUME NEW p \in Projects, NEW k \in JobsHolding(p), Starting(k)
          PROVE  p \in cut'
      <4>1. k \in Jobs /\ job'[k].state = "absent"
        BY <3>1, <3>4 DEF JobsHolding, NoJob
      <4>2. job'[k] # job[k]
        BY <3>1, <3>4, <4>1 DEF NoJob, Starting
      <4>3. p \in Lost
        BY <3>4, <4>1 DEF Lost
      <4> QED BY <3>2, <4>2, <4>3 DEF DiagnosisNext, vars
    <3> QED BY <3>1, <3>2, <3>3, <3>4 DEF DInv, Tells
  <2>5. CASE \E r \in Requests : ClientStep(r) \/ RequestStep(r)
    <3>1. PICK r \in Requests : ClientStep(r) \/ RequestStep(r)
      BY <2>5
    <3>2. \A k \in Jobs : job[k].pc = "problem" => job'[k].pc # "release"
      BY <2>1, <3>1, RequestJobs
    <3> QED BY <2>1, <2>2, <3>1, <3>2, RequestKeepsDiagnosis
  <2>6. CASE \E j \in Jobs : JobStep(j)
    <3>1. PICK j \in Jobs : JobStep(j)
      BY <2>6
    <3>2. JobTells(j)
      BY DEF DInv
    <3>3. job[j].proj \in Projects
      <4>1. job[j].pc # "idle"
        BY <3>1 DEF JobStep, WriteOverlay, JobComposeUp, Diagnose, JobComposeDown,
                    SetStatus, SetProblem, JobRelease, JobFinish
      <4> QED BY <2>1, <4>1 DEF Typed, WellFormed
    <3>4. \A k \in Jobs \ {j} : job'[k] = job[k]
      BY <2>1, <3>1, <3>2, <3>3, JobMoves
    <3>5. ASSUME NEW q \in cut, q # job[j].proj \/ job[j].pc # "problem"
          PROVE  q \in cut'
      <4>1. CASE job[j].pc # "problem"
        BY <2>2, <3>4, <4>1
      <4>2. CASE q # job[j].proj
        <5>1. q \notin Told
          <6> SUFFICES ASSUME NEW k \in JobsHolding(q), SetProblem(k) PROVE FALSE
            BY DEF Told
          <6>1. k \in Jobs /\ k # j /\ job[k].pc = "problem"
            BY <4>2 DEF JobsHolding, SetProblem
          <6>2. job'[k].pc = "release"
            BY <2>1, <6>1 DEF SetProblem, JobGoTo, Typed, TypeOK, Job
          <6> QED BY <3>4, <6>1, <6>2
        <5> QED BY <5>1 DEF DiagnosisNext, vars
      <4> QED BY <3>5, <4>1, <4>2
    <3> QED BY <3>1, <3>5, JobKeepsDiagnosis
  <2> QED BY <2>3, <2>4, <2>5, <2>6 DEF DiagnosisNext, Next, ServiceChanges, vars
<1>3. IInv /\ DInv => DiagnosisIsOfLastUp
  <2> SUFFICES ASSUME IInv, DInv, NEW p \in Projects, p \notin held, p \notin cut
               PROVE  Tells(p)
    BY DEF DiagnosisIsOfLastUp, Tells
  <2>1. JobsHolding(p) = {}
    BY DEF IInv, LockHasOneOwner, Owners
  <2> QED BY <2>1 DEF DInv
<1>4. DiagnosisInit => Init
  BY DEF DiagnosisInit
<1>5. [DiagnosisNext]_<<vars, cut>> => [Next]_vars
  BY DEF DiagnosisNext
<1>6. DiagnosisSpec => []IInv
  BY <1>4, <1>5, AlwaysIInv, PTL DEF DiagnosisSpec, Spec
<1> QED BY <1>1, <1>2, <1>3, <1>6, PTL DEF DiagnosisSpec

=============================================================================
