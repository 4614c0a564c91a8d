------------------------- MODULE ClientSeam_proofs -------------------------
(***************************************************************************)
(* Proofs about ClientSeam: for any clients, commands, jobs and faults, a  *)
(* command starts at most one job, succeeds only on a job or a delete of   *)
(* its own, and tells the failure that came first, whatever is lost, late  *)
(* or served after its client has gone.                                    *)
(***************************************************************************)
EXTENDS ClientSeam, TLAPS

\* The calls that start a job, and where a command makes one.
Submits == {"up", "down"}

SubmitAt == [up |-> 4, up_here |-> 2, down |-> 1, destroy |-> 0, verify |-> 4]

\* A command that has not asked for its job yet, or asks for it now.
Unsubmitted(c) == Running(c) /\ cmd[c].at <= SubmitAt[cmd[c].op]

CmdRec == [op : Ops \cup {None}, no : 0 .. MaxCommands, at : Nat, served : BOOLEAN,
           job : Jobs \cup {None}, first : Calls \cup {None}, told : Calls \cup {None},
           result : {"none", "running", "ok", "failed", "killed"}]

Commands == Clients \X (0 .. MaxCommands)

ReqRec == [kind : Calls, by : Commands, served : BOOLEAN, left : BOOLEAN]

JobRec == [state : {"new", "running", "worked", "broke", "done", "failed", "lost"},
           op : Submits \cup {None}, by : Commands \cup {None}]

Types ==
    /\ cmd \in [Clients -> CmdRec]
    /\ strays \subseteq ReqRec /\ \A q \in strays : q.left
    /\ row \in BOOLEAN /\ stack \in {"up", "down"}
    /\ lock \in {"request", "job", None}
    /\ job \in [Jobs -> JobRec] /\ \A j \in Jobs : job[j].state # "new" => job[j].op \in Submits
    /\ faults \in 0 .. MaxFaults

\* A command that runs is in its plan; one that fails already is at its teardown.
Planned ==
    \A c \in Clients : Running(c) =>
        /\ cmd[c].op \in Ops /\ cmd[c].at \in 1 .. Len(Plan[cmd[c].op])
        /\ cmd[c].first # None => cmd[c].op = "verify" /\ AtEnd(c)

\* The lock has one holder: the request that is served, of a client or of one that has
\* gone, or the job that runs.
OneHolder ==
    /\ lock = "request" <=> \/ \E c \in Clients : cmd[c].served
                            \/ \E q \in strays : q.served
    /\ lock = "job"     <=> \E j \in Jobs : job[j].state = "running"
    /\ \A c, d \in Clients : cmd[c].served /\ cmd[d].served => c = d
    /\ \A q, r \in strays : q.served /\ r.served => q = r
    /\ \A c \in Clients, q \in strays : ~(cmd[c].served /\ q.served)
    /\ \A i, j \in Jobs : job[i].state = "running" /\ job[j].state = "running" => i = j
    /\ \A c \in Clients : cmd[c].served => Running(c) /\ CallOf(c) \in {"upload", "delete"}
    /\ \A q \in strays : q.served => q.kind \in {"upload", "delete"}

\* Nothing is known of a command before it is given.
Numbered ==
    /\ \A q \in strays, c \in Clients : q.by[1] = c => q.by[2] <= cmd[c].no
    /\ \A j \in Jobs, c \in Clients : job[j].by # None /\ job[j].by[1] = c
                                        => job[j].by[2] <= cmd[c].no

\* A command asks for its job once: until then nobody has, and after that one request
\* at most is on its way, which is the only one that may start it.
AsksOnce ==
    /\ \A c \in Clients : Unsubmitted(c) =>
         /\ \A j \in Jobs : job[j].by # By(c)
         /\ \A q \in strays : q.kind \in Submits => q.by # By(c)
    /\ \A q \in strays : q.kind \in Submits =>
         /\ \A j \in Jobs : job[j].by # q.by
         /\ \A r \in strays : r.kind \in Submits /\ r.by = q.by => r = q

\* The job that a command polls is its own.
PollsItsOwn ==
    \A c \in Clients : Running(c) /\ CallOf(c) = "poll" =>
        /\ cmd[c].job \in Jobs
        /\ job[cmd[c].job].state # "new"
        /\ job[cmd[c].job].by = By(c)
        /\ job[cmd[c].job].op = IF cmd[c].op = "down" THEN "down" ELSE "up"

IInv == /\ Types /\ Planned /\ OneHolder /\ Numbered /\ AsksOnce /\ PollsItsOwn
        /\ OneJobPerCommand /\ OkIsDeleted /\ FirstFailureIsTold

USE BoundAssumption, OpsAssumption, NoneAssumption DEF Jobs, Ops

-----------------------------------------------------------------------------
(* The plans of the commands *)

\* How long each plan is, and what it calls when.
LEMMA PlanTable ==
  /\ Len(Plan["up"]) = 5
  /\ Plan["up"][1] = "create"  /\ Plan["up"][2] = "get"  /\ Plan["up"][3] = "upload"
  /\ Plan["up"][4] = "up"  /\ Plan["up"][5] = "poll"
  /\ Len(Plan["up_here"]) = 3
  /\ Plan["up_here"][1] = "create"  /\ Plan["up_here"][2] = "up"  /\ Plan["up_here"][3] = "poll"
  /\ Len(Plan["down"]) = 2
  /\ Plan["down"][1] = "down"  /\ Plan["down"][2] = "poll"
  /\ Len(Plan["destroy"]) = 1
  /\ Plan["destroy"][1] = "delete"
  /\ Len(Plan["verify"]) = 7
  /\ Plan["verify"][1] = "create"  /\ Plan["verify"][2] = "get"  /\ Plan["verify"][3] = "upload"
  /\ Plan["verify"][4] = "up"  /\ Plan["verify"][5] = "poll"  /\ Plan["verify"][6] = "probe"
  /\ Plan["verify"][7] = "delete"
<1> USE DEF Plan
<1>1. Plan["up"] = UpCalls
  OBVIOUS
<1>2. Plan["up_here"] = UpHereCalls
  OBVIOUS
<1>3. Plan["down"] = DownCalls
  OBVIOUS
<1>4. Plan["destroy"] = DestroyCalls
  OBVIOUS
<1>5. Plan["verify"] = VerifyCalls
  OBVIOUS
<1>6. /\ Len(UpCalls) = 5
      /\ UpCalls[1] = "create"
      /\ UpCalls[2] = "get"
      /\ UpCalls[3] = "upload"
      /\ UpCalls[4] = "up"
      /\ UpCalls[5] = "poll"
  BY DEF UpCalls
<1>7. /\ Len(UpHereCalls) = 3
      /\ UpHereCalls[1] = "create"
      /\ UpHereCalls[2] = "up"
      /\ UpHereCalls[3] = "poll"
  BY DEF UpHereCalls
<1>8. /\ Len(DownCalls) = 2
      /\ DownCalls[1] = "down"
      /\ DownCalls[2] = "poll"
  BY DEF DownCalls
<1>9. /\ Len(DestroyCalls) = 1
      /\ DestroyCalls[1] = "delete"
  BY DEF DestroyCalls
<1>10. /\ Len(VerifyCalls) = 7
       /\ VerifyCalls[1] = "create"
       /\ VerifyCalls[2] = "get"
       /\ VerifyCalls[3] = "upload"
       /\ VerifyCalls[4] = "up"
       /\ VerifyCalls[5] = "poll"
       /\ VerifyCalls[6] = "probe"
       /\ VerifyCalls[7] = "delete"
  BY DEF VerifyCalls
<1> HIDE DEF Plan
<1> QED
  BY <1>1, <1>2, <1>3, <1>4, <1>5, <1>6, <1>7, <1>8, <1>9, <1>10

LEMMA CallTypes == Calls = {"create", "get", "upload", "up", "poll", "probe", "delete", "down"}
<1>1. DOMAIN VerifyCalls = 1 .. 7
  BY DEF VerifyCalls
<1>2. {VerifyCalls[n] : n \in 1 .. 7}
        = {"create", "get", "upload", "up", "poll", "probe", "delete"}
  BY DEF VerifyCalls
<1> QED
  BY <1>1, <1>2 DEF Calls

\* A command makes its last call, and the one for its job, at their places only.
LEMMA PlanFacts ==
  ASSUME NEW op \in Ops, NEW at \in 1 .. Len(Plan[op])
  PROVE  /\ Len(Plan[op]) \in Nat /\ at \in Nat /\ SubmitAt[op] \in Nat
         /\ Plan[op][at] \in Calls
         /\ Plan[op][at] \in Submits <=> at = SubmitAt[op]
         /\ Plan[op][at] = "down" => op = "down"
         /\ Plan[op][at] = "up" => op # "down"
         /\ Plan[op][at] = "poll" => at = SubmitAt[op] + 1
         /\ Plan[op][at] = "probe" => op = "verify" /\ at < Len(Plan[op])
         /\ Plan[op][at] = "create" => at < Len(Plan[op])
         /\ Plan[op][at] = "create" /\ Plan[op][at + 1] = "get"
              => at + 2 <= Len(Plan[op]) /\ at + 2 <= SubmitAt[op]
         /\ at = Len(Plan[op]) => Plan[op][at] = IF op \in {"destroy", "verify"}
                                                  THEN "delete" ELSE "poll"
         /\ Len(Plan["verify"]) = 7 /\ Plan["verify"][7] = "delete"
<1>0. Len(Plan["verify"]) = 7 /\ Plan["verify"][7] = "delete"
  BY PlanTable
<1>1. CASE op = "up"
  <2>0. Len(Plan[op]) = 5 /\ SubmitAt[op] = 4 /\ at \in 1 .. 5
    BY <1>1, PlanTable DEF SubmitAt
  <2>1. CASE at = 1
    <3>1. Plan[op][at] = "create"
      BY <1>1, <2>1, PlanTable
    <3>2. Plan[op][at + 1] = "get"
      BY <1>1, <2>1, PlanTable
    <3> QED
      BY <1>0, <1>1, <2>0, <2>1, <3>1, <3>2, CallTypes DEF Submits
  <2>2. CASE at = 2
    <3>1. Plan[op][at] = "get"
      BY <1>1, <2>2, PlanTable
    <3> QED
      BY <1>0, <1>1, <2>0, <2>2, <3>1, CallTypes DEF Submits
  <2>3. CASE at = 3
    <3>1. Plan[op][at] = "upload"
      BY <1>1, <2>3, PlanTable
    <3> QED
      BY <1>0, <1>1, <2>0, <2>3, <3>1, CallTypes DEF Submits
  <2>4. CASE at = 4
    <3>1. Plan[op][at] = "up"
      BY <1>1, <2>4, PlanTable
    <3> QED
      BY <1>0, <1>1, <2>0, <2>4, <3>1, CallTypes DEF Submits
  <2>5. CASE at = 5
    <3>1. Plan[op][at] = "poll"
      BY <1>1, <2>5, PlanTable
    <3> QED
      BY <1>0, <1>1, <2>0, <2>5, <3>1, CallTypes DEF Submits
  <2> QED
    BY <2>0, <2>1, <2>2, <2>3, <2>4, <2>5
<1>2. CASE op = "up_here"
  <2>0. Len(Plan[op]) = 3 /\ SubmitAt[op] = 2 /\ at \in 1 .. 3
    BY <1>2, PlanTable DEF SubmitAt
  <2>1. CASE at = 1
    <3>1. Plan[op][at] = "create"
      BY <1>2, <2>1, PlanTable
    <3>2. Plan[op][at + 1] = "up"
      BY <1>2, <2>1, PlanTable
    <3> QED
      BY <1>0, <1>2, <2>0, <2>1, <3>1, <3>2, CallTypes DEF Submits
  <2>2. CASE at = 2
    <3>1. Plan[op][at] = "up"
      BY <1>2, <2>2, PlanTable
    <3> QED
      BY <1>0, <1>2, <2>0, <2>2, <3>1, CallTypes DEF Submits
  <2>3. CASE at = 3
    <3>1. Plan[op][at] = "poll"
      BY <1>2, <2>3, PlanTable
    <3> QED
      BY <1>0, <1>2, <2>0, <2>3, <3>1, CallTypes DEF Submits
  <2> QED
    BY <2>0, <2>1, <2>2, <2>3
<1>3. CASE op = "down"
  <2>0. Len(Plan[op]) = 2 /\ SubmitAt[op] = 1 /\ at \in 1 .. 2
    BY <1>3, PlanTable DEF SubmitAt
  <2>1. CASE at = 1
    <3>1. Plan[op][at] = "down"
      BY <1>3, <2>1, PlanTable
    <3> QED
      BY <1>0, <1>3, <2>0, <2>1, <3>1, CallTypes DEF Submits
  <2>2. CASE at = 2
    <3>1. Plan[op][at] = "poll"
      BY <1>3, <2>2, PlanTable
    <3> QED
      BY <1>0, <1>3, <2>0, <2>2, <3>1, CallTypes DEF Submits
  <2> QED
    BY <2>0, <2>1, <2>2
<1>4. CASE op = "destroy"
  <2>0. Len(Plan[op]) = 1 /\ SubmitAt[op] = 0 /\ at \in 1 .. 1
    BY <1>4, PlanTable DEF SubmitAt
  <2>1. CASE at = 1
    <3>1. Plan[op][at] = "delete"
      BY <1>4, <2>1, PlanTable
    <3> QED
      BY <1>0, <1>4, <2>0, <2>1, <3>1, CallTypes DEF Submits
  <2> QED
    BY <2>0, <2>1
<1>5. CASE op = "verify"
  <2>0. Len(Plan[op]) = 7 /\ SubmitAt[op] = 4 /\ at \in 1 .. 7
    BY <1>5, PlanTable DEF SubmitAt
  <2>1. CASE at = 1
    <3>1. Plan[op][at] = "create"
      BY <1>5, <2>1, PlanTable
    <3>2. Plan[op][at + 1] = "get"
      BY <1>5, <2>1, PlanTable
    <3> QED
      BY <1>0, <1>5, <2>0, <2>1, <3>1, <3>2, CallTypes DEF Submits
  <2>2. CASE at = 2
    <3>1. Plan[op][at] = "get"
      BY <1>5, <2>2, PlanTable
    <3> QED
      BY <1>0, <1>5, <2>0, <2>2, <3>1, CallTypes DEF Submits
  <2>3. CASE at = 3
    <3>1. Plan[op][at] = "upload"
      BY <1>5, <2>3, PlanTable
    <3> QED
      BY <1>0, <1>5, <2>0, <2>3, <3>1, CallTypes DEF Submits
  <2>4. CASE at = 4
    <3>1. Plan[op][at] = "up"
      BY <1>5, <2>4, PlanTable
    <3> QED
      BY <1>0, <1>5, <2>0, <2>4, <3>1, CallTypes DEF Submits
  <2>5. CASE at = 5
    <3>1. Plan[op][at] = "poll"
      BY <1>5, <2>5, PlanTable
    <3> QED
      BY <1>0, <1>5, <2>0, <2>5, <3>1, CallTypes DEF Submits
  <2>6. CASE at = 6
    <3>1. Plan[op][at] = "probe"
      BY <1>5, <2>6, PlanTable
    <3> QED
      BY <1>0, <1>5, <2>0, <2>6, <3>1, CallTypes DEF Submits
  <2>7. CASE at = 7
    <3>1. Plan[op][at] = "delete"
      BY <1>5, <2>7, PlanTable
    <3> QED
      BY <1>0, <1>5, <2>0, <2>7, <3>1, CallTypes DEF Submits
  <2> QED
    BY <2>0, <2>1, <2>2, <2>3, <2>4, <2>5, <2>6, <2>7
<1> QED
  BY <1>1, <1>2, <1>3, <1>4, <1>5

-----------------------------------------------------------------------------
(* What a client makes of an answer *)

\* The same, of the command that a client runs.
LEMMA CallFacts ==
  ASSUME Types, Planned, NEW c \in Clients, Running(c)
  PROVE  /\ cmd[c].op \in Ops /\ cmd[c].at \in 1 .. Len(Plan[cmd[c].op])
         /\ cmd[c].at \in Nat /\ Len(Plan[cmd[c].op]) \in Nat /\ SubmitAt[cmd[c].op] \in Nat
         /\ cmd[c].first # None => cmd[c].op = "verify" /\ AtEnd(c)
         /\ cmd[c] \in CmdRec /\ cmd[c].result = "running"
         /\ CallOf(c) \in Calls
         /\ CallOf(c) \in Submits <=> cmd[c].at = SubmitAt[cmd[c].op]
         /\ CallOf(c) = "down" => cmd[c].op = "down"
         /\ CallOf(c) = "up" => cmd[c].op # "down"
         /\ CallOf(c) = "poll" => cmd[c].at = SubmitAt[cmd[c].op] + 1
         /\ CallOf(c) = "probe" => cmd[c].op = "verify" /\ ~AtEnd(c)
         /\ CallOf(c) = "create" => ~AtEnd(c)
         /\ CallOf(c) = "create" /\ Plan[cmd[c].op][cmd[c].at + 1] = "get"
              => /\ cmd[c].at + 2 <= Len(Plan[cmd[c].op])
                 /\ cmd[c].at + 2 <= SubmitAt[cmd[c].op]
         /\ AtEnd(c) => CallOf(c) = IF cmd[c].op \in {"destroy", "verify"}
                                     THEN "delete" ELSE "poll"
<1> DEFINE op == cmd[c].op
           at == cmd[c].at
<1>1. /\ op \in Ops /\ at \in 1 .. Len(Plan[op])
      /\ cmd[c].first # None => op = "verify" /\ AtEnd(c)
      /\ cmd[c] \in CmdRec /\ cmd[c].result = "running"
      /\ CallOf(c) = Plan[op][at]
      /\ AtEnd(c) <=> at = Len(Plan[op])
  BY DEF Planned, Types, Running, CallOf, AtEnd
<1> HIDE DEF op, at, Ops
<1>2. /\ Len(Plan[op]) \in Nat /\ at \in Nat /\ SubmitAt[op] \in Nat
      /\ Plan[op][at] \in Calls
      /\ Plan[op][at] \in Submits <=> at = SubmitAt[op]
      /\ Plan[op][at] = "down" => op = "down"
      /\ Plan[op][at] = "up" => op # "down"
      /\ Plan[op][at] = "poll" => at = SubmitAt[op] + 1
      /\ Plan[op][at] = "probe" => op = "verify" /\ at < Len(Plan[op])
      /\ Plan[op][at] = "create" => at < Len(Plan[op])
      /\ Plan[op][at] = "create" /\ Plan[op][at + 1] = "get"
           => at + 2 <= Len(Plan[op]) /\ at + 2 <= SubmitAt[op]
      /\ at = Len(Plan[op]) => Plan[op][at] = IF op \in {"destroy", "verify"}
                                               THEN "delete" ELSE "poll"
  BY <1>1, PlanFacts
<1>3. /\ Plan[op][at] = "probe" => ~AtEnd(c)
      /\ Plan[op][at] = "create" => ~AtEnd(c)
  BY <1>1, <1>2
<1>4. /\ op \in Ops /\ at \in 1 .. Len(Plan[op])
      /\ at \in Nat /\ Len(Plan[op]) \in Nat /\ SubmitAt[op] \in Nat
      /\ cmd[c].first # None => op = "verify" /\ AtEnd(c)
      /\ cmd[c] \in CmdRec /\ cmd[c].result = "running"
      /\ CallOf(c) \in Calls
      /\ CallOf(c) \in Submits <=> at = SubmitAt[op]
      /\ CallOf(c) = "down" => op = "down"
      /\ CallOf(c) = "up" => op # "down"
      /\ CallOf(c) = "poll" => at = SubmitAt[op] + 1
      /\ CallOf(c) = "probe" => op = "verify" /\ ~AtEnd(c)
      /\ CallOf(c) = "create" => ~AtEnd(c)
      /\ CallOf(c) = "create" /\ Plan[op][at + 1] = "get"
           => at + 2 <= Len(Plan[op]) /\ at + 2 <= SubmitAt[op]
      /\ AtEnd(c) => CallOf(c) = IF op \in {"destroy", "verify"} THEN "delete" ELSE "poll"
  BY ONLY <1>1, <1>2, <1>3
<1> QED
  BY <1>4 DEF op, at

\* How a command ends.
LEMMA EndedFields ==
  ASSUME Types, NEW c \in Clients, NEW result \in {"ok", "failed", "killed"},
         NEW told \in Calls \cup {None}, CallOf(c) \in Calls
  PROVE  LET e == Ended(c, result, told)
         IN  /\ e \in CmdRec /\ e.no = cmd[c].no /\ e.op = cmd[c].op /\ ~e.served
             /\ e.result = result /\ e.told = told
             /\ e.first = IF cmd[c].first # None \/ result = "ok" THEN cmd[c].first
                                                                  ELSE CallOf(c)
<1> DEFINE e == Ended(c, result, told)
           first == IF cmd[c].first # None \/ result = "ok" THEN cmd[c].first ELSE CallOf(c)
<1>0. e = [Idle EXCEPT !.op = cmd[c].op, !.no = cmd[c].no, !.result = result,
                       !.told = told, !.first = first]
  BY DEF Ended
<1> HIDE DEF e, first
<1>1. e = [op |-> cmd[c].op, no |-> cmd[c].no, at |-> 1, served |-> FALSE, job |-> None,
           first |-> first, told |-> told, result |-> result]
  BY <1>0 DEF Idle
<1>2. cmd[c] \in CmdRec
  BY DEF Types
<1>3. first \in Calls \cup {None} /\ cmd[c].op \in Ops \cup {None}
      /\ cmd[c].no \in 0 .. MaxCommands
  BY <1>2 DEF CmdRec, first
<1>4. e \in CmdRec
  BY <1>1, <1>3 DEF CmdRec
<1> QED
  BY <1>1, <1>4 DEF e, first

\* An exception ends a command with its first failure, or begins the teardown.
LEMMA RaisedFields ==
  ASSUME Types, Planned, NEW c \in Clients, Running(c)
  PROVE  LET r == Raised(c)
         IN  /\ r \in CmdRec /\ r.no = cmd[c].no /\ r.op = cmd[c].op /\ ~r.served
             /\ \/ r.result = "failed" /\ r.told = r.first
                \/ r.result = "running" /\ r.op = "verify" /\ r.at = Len(Plan["verify"])
<1> DEFINE r == Raised(c)
<1>0. /\ cmd[c].op \in Ops /\ cmd[c].at \in 1 .. Len(Plan[cmd[c].op])
      /\ cmd[c].first # None => cmd[c].op = "verify" /\ AtEnd(c)
      /\ cmd[c] \in CmdRec /\ cmd[c].result = "running"
  BY CallFacts
<1>1. CallOf(c) \in Calls
  BY CallFacts
<1>2. CASE cmd[c].op = "verify" /\ ~AtEnd(c)
  <2>1. r = [cmd[c] EXCEPT !.at = Len(Plan["verify"]), !.served = FALSE,
                           !.first = CallOf(c)]
    BY <1>2 DEF Raised, TearDown
  <2>2. Len(Plan["verify"]) \in Nat
    BY PlanTable
  <2>3. r = [op |-> cmd[c].op, no |-> cmd[c].no, at |-> Len(Plan["verify"]),
             served |-> FALSE, job |-> cmd[c].job, first |-> CallOf(c),
             told |-> cmd[c].told, result |-> cmd[c].result]
    BY <1>0, <2>1 DEF CmdRec
  <2>4. r \in CmdRec
    BY <1>0, <1>1, <2>2, <2>3 DEF CmdRec
  <2> QED
    BY <1>0, <1>2, <2>3, <2>4
<1>3. CASE ~(cmd[c].op = "verify" /\ ~AtEnd(c))
  <2> DEFINE told == IF cmd[c].first # None THEN cmd[c].first ELSE CallOf(c)
  <2>1. r = Ended(c, "failed", told)
    BY <1>3 DEF Raised
  <2>2. told \in Calls \cup {None}
    BY <1>0, <1>1 DEF CmdRec
  <2>3. /\ Ended(c, "failed", told) \in CmdRec
        /\ Ended(c, "failed", told).no = cmd[c].no
        /\ Ended(c, "failed", told).op = cmd[c].op
        /\ ~Ended(c, "failed", told).served
        /\ Ended(c, "failed", told).result = "failed"
        /\ Ended(c, "failed", told).told = told
        /\ Ended(c, "failed", told).first = told
    BY <1>1, <2>2, EndedFields
  <2> QED
    BY <2>1, <2>3
<1> QED
  BY <1>2, <1>3

\* The next call of a plan, or its end.
LEMMA ProceedFields ==
  ASSUME Types, Planned, NEW c \in Clients, Running(c), NEW answer, NEW j \in Jobs \cup {None}
  PROVE  LET r == Proceed(c, answer, j)
         IN  /\ r \in CmdRec /\ r.no = cmd[c].no /\ r.op = cmd[c].op /\ ~r.served
             /\ AtEnd(c) => \/ r.result = "failed" /\ r.told = r.first
                            \/ /\ r.result = "ok"
                               /\ r.op = "destroy" => answer # "unstopped"
             /\ ~AtEnd(c) => /\ r.result = "running" /\ r.first = None
                             /\ r.at \in 1 .. Len(Plan[r.op])
                             /\ \/ r.at = cmd[c].at + 1
                                \/ r.at = cmd[c].at + 2 /\ r.at <= SubmitAt[r.op]
                             /\ CallOf(c) \in Submits => r.job = j
<1> DEFINE r == Proceed(c, answer, j)
<1>0. /\ cmd[c].op \in Ops /\ cmd[c].at \in 1 .. Len(Plan[cmd[c].op])
      /\ cmd[c].first # None => cmd[c].op = "verify" /\ AtEnd(c)
      /\ cmd[c] \in CmdRec /\ cmd[c].result = "running"
  BY CallFacts
<1>1. /\ CallOf(c) \in Calls /\ cmd[c].at \in Nat /\ Len(Plan[cmd[c].op]) \in Nat
      /\ AtEnd(c) /\ cmd[c].op \in {"destroy", "verify"} => CallOf(c) = "delete"
  BY CallFacts
<1>2. CASE AtEnd(c)
  <2>0. r = Complete(c, answer)
    BY <1>2 DEF Proceed
  <2>1. CASE cmd[c].op = "destroy" /\ answer = "unstopped"
    <3>1. r = Ended(c, "failed", "delete") /\ CallOf(c) = "delete" /\ cmd[c].first = None
      BY <1>0, <1>1, <1>2, <2>0, <2>1 DEF Complete
    <3>2. "delete" \in Calls
      BY CallTypes
    <3>3. /\ Ended(c, "failed", "delete") \in CmdRec
          /\ Ended(c, "failed", "delete").no = cmd[c].no
          /\ Ended(c, "failed", "delete").op = cmd[c].op
          /\ ~Ended(c, "failed", "delete").served
          /\ Ended(c, "failed", "delete").result = "failed"
          /\ Ended(c, "failed", "delete").told = "delete"
          /\ Ended(c, "failed", "delete").first = "delete"
      BY <1>1, <3>1, <3>2, EndedFields
    <3> QED
      BY <1>2, <3>1, <3>3
  <2>2. CASE ~(cmd[c].op = "destroy" /\ answer = "unstopped") /\ cmd[c].first # None
    <3>1. r = Ended(c, "failed", cmd[c].first)
      BY <2>0, <2>2 DEF Complete
    <3>2. cmd[c].first \in Calls \cup {None}
      BY <1>0 DEF CmdRec
    <3>3. /\ Ended(c, "failed", cmd[c].first) \in CmdRec
          /\ Ended(c, "failed", cmd[c].first).no = cmd[c].no
          /\ Ended(c, "failed", cmd[c].first).op = cmd[c].op
          /\ ~Ended(c, "failed", cmd[c].first).served
          /\ Ended(c, "failed", cmd[c].first).result = "failed"
          /\ Ended(c, "failed", cmd[c].first).told = cmd[c].first
          /\ Ended(c, "failed", cmd[c].first).first = cmd[c].first
      BY <1>1, <2>2, <3>2, EndedFields
    <3> QED
      BY <1>2, <3>1, <3>3
  <2>3. CASE ~(cmd[c].op = "destroy" /\ answer = "unstopped") /\ cmd[c].first = None
    <3>1. r = Ended(c, "ok", None)
      BY <2>0, <2>3 DEF Complete
    <3>2. /\ Ended(c, "ok", None) \in CmdRec
          /\ Ended(c, "ok", None).no = cmd[c].no
          /\ Ended(c, "ok", None).op = cmd[c].op
          /\ ~Ended(c, "ok", None).served
          /\ Ended(c, "ok", None).result = "ok"
      BY <1>1, EndedFields
    <3> QED
      BY <1>2, <2>3, <3>1, <3>2
  <2> QED
    BY <2>1, <2>2, <2>3
<1>3. CASE ~AtEnd(c)
  <2> DEFINE at == cmd[c].at + IF Skips(c, answer) THEN 2 ELSE 1
             jb == IF CallOf(c) \in Submits THEN j ELSE cmd[c].job
  <2>1. r = [cmd[c] EXCEPT !.at = at, !.served = FALSE, !.job = jb]
    BY <1>3 DEF Proceed, Submits
  <2>2. r = [op |-> cmd[c].op, no |-> cmd[c].no, at |-> at, served |-> FALSE,
             job |-> jb, first |-> cmd[c].first, told |-> cmd[c].told,
             result |-> cmd[c].result]
    BY <1>0, <2>1 DEF CmdRec
  <2>3. /\ at \in 1 .. Len(Plan[cmd[c].op])
        /\ at = cmd[c].at + 1 \/ (at = cmd[c].at + 2 /\ at <= SubmitAt[cmd[c].op])
    <3>1. CASE Skips(c, answer)
      <4>1. CallOf(c) = "create" /\ Plan[cmd[c].op][cmd[c].at + 1] = "get"
        BY <3>1 DEF Skips
      <4>2. /\ cmd[c].at + 2 <= Len(Plan[cmd[c].op])
            /\ cmd[c].at + 2 <= SubmitAt[cmd[c].op]
        BY <4>1, CallFacts
      <4> QED
        BY <1>1, <3>1, <4>2
    <3>2. CASE ~Skips(c, answer)
      BY <1>0, <1>1, <1>3, <3>2 DEF AtEnd
    <3> QED
      BY <3>1, <3>2
  <2>4. jb \in Jobs \cup {None}
    BY <1>0 DEF CmdRec
  <2> HIDE DEF at, jb
  <2>5. r \in CmdRec
    <3>1. at \in Nat
      BY <1>1, <2>3
    <3> QED
      BY <1>0, <2>2, <2>4, <3>1 DEF CmdRec
  <2> QED
    BY <1>0, <1>3, <2>2, <2>3, <2>5 DEF jb
<1> QED
  BY <1>2, <1>3

\* A client that reacts stays in its plan or ends, is served no longer, and does not
\* come back to the call for its job.
Moved(c) ==
    /\ Running(c)
    /\ cmd'[c].no = cmd[c].no /\ cmd'[c].op = cmd[c].op /\ ~cmd'[c].served
    /\ cmd'[c].result \in {"running", "ok", "failed", "killed"}
    /\ cmd'[c].result = "running" =>
         /\ cmd'[c].at \in 1 .. Len(Plan[cmd[c].op])
         /\ cmd'[c].first # None => cmd[c].op = "verify" /\ cmd'[c].at = Len(Plan["verify"])
         /\ cmd'[c].at <= SubmitAt[cmd[c].op] => cmd[c].at < cmd'[c].at
    /\ cmd'[c].result = "failed" => cmd'[c].told = cmd'[c].first

LEMMA RaisedMoves ==
  ASSUME Types, Planned, NEW c \in Clients, Running(c), cmd'[c] = Raised(c)
  PROVE  /\ Moved(c) /\ cmd'[c] \in CmdRec /\ cmd'[c].result # "ok"
         /\ cmd'[c].result = "running" => Plan[cmd'[c].op][cmd'[c].at] = "delete"
<1>1. /\ cmd'[c] \in CmdRec /\ cmd'[c].no = cmd[c].no /\ cmd'[c].op = cmd[c].op
      /\ ~cmd'[c].served
      /\ \/ cmd'[c].result = "failed" /\ cmd'[c].told = cmd'[c].first
         \/ /\ cmd'[c].result = "running" /\ cmd'[c].op = "verify"
            /\ cmd'[c].at = Len(Plan["verify"])
  BY RaisedFields
<1>2. /\ Len(Plan["verify"]) = 7 /\ Plan["verify"][7] = "delete" /\ SubmitAt["verify"] = 4
  BY PlanTable DEF SubmitAt
<1> QED
  BY <1>1, <1>2 DEF Moved

LEMMA ReactedMoves ==
  ASSUME Types, Planned, NEW c \in Clients, Running(c), NEW answer,
         NEW j \in Jobs \cup {None}, cmd'[c] = Reacted(c, answer, j)
  PROVE  /\ Moved(c) /\ cmd'[c] \in CmdRec
         /\ cmd'[c].result = "running" /\ Plan[cmd'[c].op][cmd'[c].at] = "poll"
              => /\ CallOf(c) \in Submits /\ answer \in {"ok", "done"}
                 /\ cmd'[c].job = j
         /\ cmd'[c].result = "ok" => /\ AtEnd(c) /\ Good(CallOf(c), answer)
                                     /\ cmd[c].op = "destroy" => answer # "unstopped"
<1>1. CASE ~Good(CallOf(c), answer)
  BY <1>1, RaisedMoves DEF Reacted
<1>2. CASE Good(CallOf(c), answer)
  <2>0. cmd'[c] = Proceed(c, answer, j)
    BY <1>2 DEF Reacted
  <2>1. /\ cmd'[c] \in CmdRec /\ cmd'[c].no = cmd[c].no /\ cmd'[c].op = cmd[c].op
        /\ ~cmd'[c].served
        /\ AtEnd(c) => \/ cmd'[c].result = "failed" /\ cmd'[c].told = cmd'[c].first
                       \/ /\ cmd'[c].result = "ok"
                          /\ cmd[c].op = "destroy" => answer # "unstopped"
        /\ ~AtEnd(c) => /\ cmd'[c].result = "running" /\ cmd'[c].first = None
                        /\ cmd'[c].at \in 1 .. Len(Plan[cmd[c].op])
                        /\ \/ cmd'[c].at = cmd[c].at + 1
                           \/ /\ cmd'[c].at = cmd[c].at + 2
                              /\ cmd'[c].at <= SubmitAt[cmd[c].op]
                        /\ CallOf(c) \in Submits => cmd'[c].job = j
    BY <2>0, ProceedFields
  <2>2. /\ cmd[c].op \in Ops /\ cmd[c].at \in Nat /\ SubmitAt[cmd[c].op] \in Nat
        /\ CallOf(c) \in Submits <=> cmd[c].at = SubmitAt[cmd[c].op]
    BY CallFacts
  <2>3. Moved(c)
    BY <2>1, <2>2 DEF Moved
  <2>4. ASSUME cmd'[c].result = "running", Plan[cmd'[c].op][cmd'[c].at] = "poll"
        PROVE  CallOf(c) \in Submits /\ answer \in {"ok", "done"} /\ cmd'[c].job = j
    <3>1. ~AtEnd(c)
      BY <2>1, <2>4
    <3>2. cmd'[c].at = SubmitAt[cmd[c].op] + 1
      <4> DEFINE op == cmd[c].op
                 at == cmd'[c].at
      <4>1. op \in Ops /\ at \in 1 .. Len(Plan[op]) /\ Plan[op][at] = "poll"
        BY <2>1, <2>2, <2>4, <3>1
      <4> HIDE DEF op, at, Ops
      <4>2. at = SubmitAt[op] + 1
        BY ONLY <4>1, PlanFacts
      <4> QED
        BY <4>2 DEF op, at
    <3>3. CallOf(c) \in Submits
      BY <2>1, <2>2, <3>1, <3>2
    <3> QED
      BY <1>2, <2>1, <3>1, <3>3 DEF Good, Submits
  <2> QED
    BY <1>2, <2>1, <2>3, <2>4
<1> QED
  BY <1>1, <1>2

-----------------------------------------------------------------------------
(* What a step keeps that only moves clients *)

\* Who has moved has not gone back to before its job.
LEMMA MovesOn ==
  ASSUME Types, Types', Planned, NEW c \in Clients, cmd'[c] = cmd[c] \/ Moved(c)
  PROVE  /\ By(c)' = By(c)
         /\ Unsubmitted(c)' => Unsubmitted(c)
         /\ Unsubmitted(c)' /\ Moved(c) => CallOf(c) \notin Submits
<1>1. By(c)' = By(c)
  BY DEF By, Moved
<1>2. CASE cmd'[c] = cmd[c] /\ ~Moved(c)
  BY <1>1, <1>2 DEF Unsubmitted, Running
<1>3. CASE Moved(c)
  <2>1. /\ cmd[c].op \in Ops /\ cmd[c].at \in Nat /\ SubmitAt[cmd[c].op] \in Nat
        /\ CallOf(c) \in Submits <=> cmd[c].at = SubmitAt[cmd[c].op]
    BY <1>3, CallFacts DEF Moved
  <2>2. cmd'[c].at \in Nat
    BY DEF Types, CmdRec
  <2> QED
    BY <1>1, <1>3, <2>1, <2>2 DEF Unsubmitted, Running, Moved
<1> QED
  BY <1>2, <1>3

LEMMA MovesStay ==
  ASSUME IInv, \A c \in Clients : cmd'[c] = cmd[c] \/ Moved(c)
  PROVE  Planned' /\ FirstFailureIsTold'
<1> USE DEF IInv
<1>1. Planned'
  BY DEF Planned, Moved, Running, AtEnd
<1>2. FirstFailureIsTold'
  BY DEF FirstFailureIsTold, Moved
<1> QED
  BY <1>1, <1>2

\* Some clients react; no request begins to be on its way, and no job.
LEMMA MovesKeep ==
  ASSUME IInv, Types', \A c \in Clients : cmd'[c] = cmd[c] \/ Moved(c),
         strays' \subseteq strays,
         \A j \in Jobs : job'[j].by = job[j].by
  PROVE  Planned' /\ Numbered' /\ AsksOnce' /\ OneJobPerCommand' /\ FirstFailureIsTold'
<1> USE DEF IInv
<1>1. Planned' /\ FirstFailureIsTold'
  BY MovesStay
<1>2. Numbered'
  BY DEF Numbered, Moved
<1>3. OneJobPerCommand'
  BY DEF OneJobPerCommand
<1>4. \A c \in Clients : Unsubmitted(c)' => Unsubmitted(c) /\ By(c)' = By(c)
  BY MovesOn
<1>5. AsksOnce'
  BY <1>4 DEF AsksOnce
<1> QED
  BY <1>1, <1>2, <1>3, <1>5

\* A client that does not come to its poll needs no job.
LEMMA PollsKept ==
  ASSUME IInv, NEW M \in SUBSET Clients,
         \A c \in Clients \ M : cmd'[c] = cmd[c],
         \A c \in M : cmd'[c].result = "running" => Plan[cmd'[c].op][cmd'[c].at] # "poll",
         \A j \in Jobs : /\ job'[j].by = job[j].by /\ job'[j].op = job[j].op
                         /\ job'[j].state = "new" => job[j].state = "new"
  PROVE  PollsItsOwn'
<1> SUFFICES ASSUME NEW c \in Clients, cmd'[c].result = "running",
                    Plan[cmd'[c].op][cmd'[c].at] = "poll"
             PROVE  /\ cmd'[c].job \in Jobs
                    /\ job'[cmd'[c].job].state # "new"
                    /\ job'[cmd'[c].job].by = By(c)'
                    /\ job'[cmd'[c].job].op = IF cmd'[c].op = "down" THEN "down" ELSE "up"
  BY DEF PollsItsOwn, Running, CallOf
<1>1. cmd'[c] = cmd[c] /\ By(c)' = By(c)
  BY DEF By
<1>2. /\ cmd[c].job \in Jobs /\ job[cmd[c].job].state # "new"
      /\ job[cmd[c].job].by = By(c)
      /\ job[cmd[c].job].op = IF cmd[c].op = "down" THEN "down" ELSE "up"
  BY <1>1 DEF IInv, PollsItsOwn, Running, CallOf
<1> QED
  BY <1>1, <1>2

\* Nor does one that does not succeed need a delete.
LEMMA DeletedKept ==
  ASSUME IInv, NEW M \in SUBSET Clients,
         \A c \in Clients \ M : cmd'[c] = cmd[c],
         \A c \in M : cmd'[c].result = "ok" => cmd'[c].op \notin {"destroy", "verify"},
         deleted \subseteq deleted'
  PROVE  OkIsDeleted'
  BY DEF IInv, OkIsDeleted, By

\* Who is served stays so, and no job begins to run or ends.
LEMMA HolderKept ==
  ASSUME IInv, lock' = lock,
         \A c \in Clients : /\ cmd'[c].served = cmd[c].served
                            /\ cmd[c].served => cmd'[c] = cmd[c],
         \A q \in strays : q.served => q \in strays',
         \A q \in strays' : q.served => q \in strays,
         \A j \in Jobs : job'[j].state = "running" <=> job[j].state = "running"
  PROVE  OneHolder'
<1> USE DEF IInv
<1>1. \/ \E c \in Clients : cmd'[c].served
      \/ \E q \in strays' : q.served
      <=> \/ \E c \in Clients : cmd[c].served
          \/ \E q \in strays : q.served
  OBVIOUS
<1>2. (\E j \in Jobs : job'[j].state = "running") <=> (\E j \in Jobs : job[j].state = "running")
  OBVIOUS
<1>3. \A c \in Clients : cmd'[c].served => Running(c)' /\ CallOf(c)' \in {"upload", "delete"}
  BY DEF OneHolder, Running, CallOf
<1> QED
  BY <1>1, <1>2, <1>3 DEF OneHolder

\* All of it: clients that are not served react to what they are told, and none comes to
\* its poll by that, nor succeeds with a delete.
LEMMA QuietKeeps ==
  ASSUME IInv, Types', NEW M \in SUBSET Clients,
         \A c \in Clients \ M : cmd'[c] = cmd[c],
         \A c \in M : /\ Moved(c) /\ ~cmd[c].served
                      /\ cmd'[c].result = "running" => Plan[cmd'[c].op][cmd'[c].at] # "poll"
                      /\ cmd'[c].result = "ok" => cmd'[c].op \notin {"destroy", "verify"},
         strays' \subseteq strays, \A q \in strays : q.served => q \in strays',
         UNCHANGED <<lock, job, deleted>>
  PROVE  IInv'
<1>1. Planned' /\ Numbered' /\ AsksOnce' /\ OneJobPerCommand' /\ FirstFailureIsTold'
  BY MovesKeep
<1>2. PollsItsOwn'
  BY PollsKept
<1>3. OkIsDeleted'
  BY DeletedKept
<1>4. \A c \in Clients : /\ cmd'[c].served = cmd[c].served
                         /\ cmd[c].served => cmd'[c] = cmd[c]
  <2> TAKE c \in Clients
  <2>1. CASE c \notin M
    BY <2>1
  <2>2. CASE c \in M
    <3>1. ~cmd[c].served /\ ~cmd'[c].served
      BY <2>2 DEF Moved
    <3>2. cmd[c].served \in BOOLEAN /\ cmd'[c].served \in BOOLEAN
      BY DEF IInv, Types, CmdRec
    <3> QED
      BY <3>1, <3>2
  <2> QED
    BY <2>1, <2>2
<1>5. OneHolder'
  BY <1>4, HolderKept
<1> QED
  BY <1>1, <1>2, <1>3, <1>5 DEF IInv

\* The same of one client.
LEMMA OneQuiet ==
  ASSUME IInv, Types', NEW c \in Clients,
         \A d \in Clients \ {c} : cmd'[d] = cmd[d],
         Moved(c), ~cmd[c].served,
         cmd'[c].result = "running" => Plan[cmd'[c].op][cmd'[c].at] # "poll",
         cmd'[c].result = "ok" => cmd'[c].op \notin {"destroy", "verify"},
         strays' \subseteq strays, \A q \in strays : q.served => q \in strays',
         UNCHANGED <<lock, job, deleted>>
  PROVE  IInv'
<1> DEFINE M == {c}
<1>1. M \in SUBSET Clients /\ \A d \in Clients \ M : cmd'[d] = cmd[d]
  OBVIOUS
<1>2. \A d \in M : /\ Moved(d) /\ ~cmd[d].served
                   /\ cmd'[d].result = "running" => Plan[cmd'[d].op][cmd'[d].at] # "poll"
                   /\ cmd'[d].result = "ok" => cmd'[d].op \notin {"destroy", "verify"}
  OBVIOUS
<1> HIDE DEF M
<1> QED
  BY <1>1, <1>2, QuietKeeps

LEMMA OnePolls ==
  ASSUME IInv, NEW c \in Clients,
         \A d \in Clients \ {c} : cmd'[d] = cmd[d],
         cmd'[c].result = "running" => Plan[cmd'[c].op][cmd'[c].at] # "poll",
         job' = job
  PROVE  PollsItsOwn'
<1> DEFINE M == {c}
<1>1. M \in SUBSET Clients /\ \A d \in Clients \ M : cmd'[d] = cmd[d]
  OBVIOUS
<1>2. \A d \in M : cmd'[d].result = "running" => Plan[cmd'[d].op][cmd'[d].at] # "poll"
  OBVIOUS
<1> HIDE DEF M
<1> QED
  BY <1>1, <1>2, PollsKept

-----------------------------------------------------------------------------
(* Requests and their answers *)

LEMMA OfTypes ==
  ASSUME Types, Planned, NEW c \in Clients, Running(c)
  PROVE  /\ Of(c) \in ReqRec /\ By(c) \in Commands /\ By(c)[1] = c /\ By(c)[2] = cmd[c].no
         /\ Of(c).kind = CallOf(c) /\ Of(c).by = By(c) /\ Of(c).served = cmd[c].served
         /\ ~Of(c).left
<1>1. CallOf(c) \in Calls /\ cmd[c] \in CmdRec
  BY CallFacts
<1>2. By(c) \in Commands /\ By(c)[1] = c /\ By(c)[2] = cmd[c].no
  BY <1>1 DEF By, Commands, CmdRec
<1>3. cmd[c].served \in BOOLEAN
  BY <1>1 DEF CmdRec
<1> QED
  BY <1>1, <1>2, <1>3 DEF Of, ReqRec

\* A request is on its way for nobody, or is the one of a single client.
LEMMA RequestIs ==
  ASSUME Types, Planned, NEW q \in Requests
  PROVE  \/ q \in strays /\ q.left /\ Sender(q) = {}
         \/ \E c \in Clients : /\ Running(c) /\ q = Of(c) /\ q \notin strays /\ ~q.left
                               /\ Sender(q) = {c}
<1>1. \A c \in Waiting : c \in Clients /\ Running(c)
  BY DEF Waiting
<1>2. CASE q \in strays
  <2>1. q.left
    BY <1>2 DEF Types
  <2>2. Sender(q) = {}
    BY <1>1, <2>1, OfTypes DEF Sender
  <2> QED
    BY <1>2, <2>1, <2>2
<1>3. CASE q \notin strays
  <2>1. PICK c \in Waiting : q = Of(c)
    BY <1>3 DEF Requests
  <2>2. Sender(q) = {c}
    BY <1>1, <2>1, OfTypes DEF Sender
  <2> QED
    BY <1>1, <1>3, <2>1, <2>2, OfTypes
<1> QED
  BY <1>2, <1>3

LEMMA Answered ==
  ASSUME Types, Planned, NEW q \in Requests, NEW answer, NEW j, Answer(q, answer, j)
  PROVE  \/ q \in strays /\ cmd' = cmd /\ strays' = strays \ {q}
         \/ \E c \in Clients : /\ Running(c) /\ q = Of(c) /\ strays' = strays
                               /\ cmd' = [cmd EXCEPT ![c] = Reacted(c, answer, j)]
<1>0. cmd' = [c \in Clients |-> IF c \in Sender(q) THEN Reacted(c, answer, j) ELSE cmd[c]]
      /\ strays' = strays \ {q}
  BY DEF Answer
<1>1. cmd \in [Clients -> CmdRec]
  BY DEF Types
<1>2. CASE q \in strays /\ Sender(q) = {}
  BY <1>0, <1>1, <1>2
<1>3. ASSUME NEW c \in Clients, Running(c), q = Of(c), q \notin strays, Sender(q) = {c}
      PROVE  /\ Running(c) /\ q = Of(c) /\ strays' = strays
             /\ cmd' = [cmd EXCEPT ![c] = Reacted(c, answer, j)]
  BY <1>0, <1>1, <1>3
<1> QED
  BY <1>2, <1>3, RequestIs

\* The effects of an answer to one client, but for what its success may claim.
LEMMA OneReacts ==
  ASSUME IInv, NEW c \in Clients, Running(c), NEW answer, NEW j \in Jobs \cup {None},
         \/ cmd' = [cmd EXCEPT ![c] = Reacted(c, answer, j)]
         \/ cmd' = [cmd EXCEPT ![c] = Raised(c)]
  PROVE  /\ cmd' \in [Clients -> CmdRec]
         /\ \A d \in Clients \ {c} : cmd'[d] = cmd[d]
         /\ Moved(c)
         /\ cmd'[c].result = "running" /\ Plan[cmd'[c].op][cmd'[c].at] = "poll"
              => /\ cmd'[c] = Reacted(c, answer, j)
                 /\ CallOf(c) \in Submits /\ answer \in {"ok", "done"}
                 /\ cmd'[c].job = j
         /\ cmd'[c].result = "ok"
              => /\ cmd'[c] = Reacted(c, answer, j)
                 /\ AtEnd(c) /\ Good(CallOf(c), answer)
                 /\ cmd[c].op = "destroy" => answer # "unstopped"
                 /\ cmd[c].op \in {"destroy", "verify"} => CallOf(c) = "delete"
<1> USE DEF IInv
<1>1. cmd \in [Clients -> CmdRec]
  BY DEF Types
<1>2. AtEnd(c) /\ cmd[c].op \in {"destroy", "verify"} => CallOf(c) = "delete"
  BY CallFacts
<1>3. CASE cmd' = [cmd EXCEPT ![c] = Reacted(c, answer, j)]
  <2>1. cmd'[c] = Reacted(c, answer, j) /\ \A d \in Clients \ {c} : cmd'[d] = cmd[d]
    BY <1>1, <1>3
  <2>2. /\ Moved(c) /\ cmd'[c] \in CmdRec
        /\ cmd'[c].result = "running" /\ Plan[cmd'[c].op][cmd'[c].at] = "poll"
              => /\ CallOf(c) \in Submits /\ answer \in {"ok", "done"}
                 /\ cmd'[c].job = j
        /\ cmd'[c].result = "ok" => /\ AtEnd(c) /\ Good(CallOf(c), answer)
                                    /\ cmd[c].op = "destroy" => answer # "unstopped"
    BY <2>1, ReactedMoves
  <2>3. cmd' \in [Clients -> CmdRec]
    BY <1>1, <1>3, <2>1, <2>2
  <2>4. ASSUME cmd'[c].result = "ok"
        PROVE  /\ cmd'[c] = Reacted(c, answer, j)
               /\ AtEnd(c) /\ Good(CallOf(c), answer)
               /\ cmd[c].op = "destroy" => answer # "unstopped"
               /\ cmd[c].op \in {"destroy", "verify"} => CallOf(c) = "delete"
    <3>1. /\ AtEnd(c) /\ Good(CallOf(c), answer)
          /\ cmd[c].op = "destroy" => answer # "unstopped"
      BY ONLY <2>2, <2>4
    <3>2. cmd[c].op \in {"destroy", "verify"} => CallOf(c) = "delete"
      BY ONLY <1>2, <3>1
    <3> QED
      BY ONLY <2>1, <3>1, <3>2
  <2>5. cmd'[c].result = "running" /\ Plan[cmd'[c].op][cmd'[c].at] = "poll"
          => /\ cmd'[c] = Reacted(c, answer, j)
             /\ CallOf(c) \in Submits /\ answer \in {"ok", "done"}
             /\ cmd'[c].job = j
    BY ONLY <2>1, <2>2
  <2> QED
    BY ONLY <2>1, <2>2, <2>3, <2>4, <2>5
<1>4. CASE cmd' = [cmd EXCEPT ![c] = Raised(c)]
  <2>1. cmd'[c] = Raised(c) /\ \A d \in Clients \ {c} : cmd'[d] = cmd[d]
    BY <1>1, <1>4
  <2>2. /\ Moved(c) /\ cmd'[c] \in CmdRec /\ cmd'[c].result # "ok"
        /\ cmd'[c].result = "running" => Plan[cmd'[c].op][cmd'[c].at] = "delete"
    BY <2>1, RaisedMoves
  <2>3. cmd' \in [Clients -> CmdRec]
    BY <1>1, <1>4, <2>1, <2>2
  <2> QED
    BY <2>1, <2>2, <2>3
<1> QED
  BY <1>3, <1>4

-----------------------------------------------------------------------------
(* The steps of the clients *)

\* A client fails of itself: it is not served, and what it raises claims nothing.
LEMMA FailsKeeps ==
  ASSUME IInv, NEW c \in Clients, Running(c), ~cmd[c].served,
         cmd' = [cmd EXCEPT ![c] = Raised(c)],
         UNCHANGED <<strays, agentVars>>, faults' \in 0 .. MaxFaults
  PROVE  IInv'
<1>1. /\ cmd' \in [Clients -> CmdRec] /\ Moved(c)
      /\ \A d \in Clients \ {c} : cmd'[d] = cmd[d]
      /\ cmd'[c] = Raised(c)
  <2>1. cmd \in [Clients -> CmdRec]
    BY DEF IInv, Types
  <2>2. cmd'[c] = Raised(c)
    BY <2>1
  <2> QED
    BY <2>1, <2>2, RaisedMoves DEF IInv
<1>2. /\ cmd'[c].result # "ok"
      /\ cmd'[c].result = "running" => Plan[cmd'[c].op][cmd'[c].at] # "poll"
  BY <1>1, RaisedMoves DEF IInv
<1>3. Types'
  BY <1>1 DEF IInv, Types, agentVars
<1> QED
  BY <1>1, <1>2, <1>3, OneQuiet DEF agentVars

\* Only an upload or a delete is served.
LEMMA ServedCalls ==
  ASSUME IInv, NEW c \in Clients, Running(c), CallOf(c) \notin {"upload", "delete"}
  PROVE  ~cmd[c].served
  BY DEF IInv, OneHolder

LEMMA ProbeUrlKeeps ==
  ASSUME IInv, NEW c \in Clients, ProbeUrl(c)
  PROVE  IInv'
<1>1. /\ Running(c) /\ CallOf(c) = "probe" /\ ~cmd[c].served
      /\ UNCHANGED <<strays, agentVars, faults>>
  BY ServedCalls DEF ProbeUrl
<1>2. faults' \in 0 .. MaxFaults
  BY <1>1 DEF IInv, Types
<1>3. CASE cmd' = [cmd EXCEPT ![c] = Raised(c)]
  BY <1>1, <1>2, <1>3, FailsKeeps
<1>4. CASE cmd' = [cmd EXCEPT ![c] = Proceed(c, "ok", None)]
  <2>1. cmd \in [Clients -> CmdRec] /\ ~AtEnd(c)
    BY <1>1, CallFacts DEF IInv, Types
  <2>2. cmd' = [cmd EXCEPT ![c] = Reacted(c, "ok", None)]
    BY <1>4 DEF Reacted, Good
  <2>3. /\ cmd' \in [Clients -> CmdRec] /\ Moved(c)
        /\ \A d \in Clients \ {c} : cmd'[d] = cmd[d]
        /\ cmd'[c].result = "running" => Plan[cmd'[c].op][cmd'[c].at] # "poll"
        /\ cmd'[c].result # "ok"
    BY <1>1, <2>1, <2>2, OneReacts DEF Submits
  <2>4. Types'
    BY <1>1, <2>3 DEF IInv, Types, agentVars
  <2> QED
    BY <1>1, <2>3, <2>4, OneQuiet DEF agentVars
<1> QED
  BY <1>3, <1>4 DEF ProbeUrl

LEMMA ProbeFailsKeeps ==
  ASSUME IInv, NEW c \in Clients, ProbeFails(c)
  PROVE  IInv'
<1>1. Running(c) /\ ~cmd[c].served
  BY ServedCalls DEF ProbeFails
<1>2. faults' \in 0 .. MaxFaults
  BY DEF ProbeFails, Fault, IInv, Types
<1> QED
  BY <1>1, <1>2, FailsKeeps DEF ProbeFails

\* Who is told to wait is not being served.
LEMMA GiveUpKeeps ==
  ASSUME IInv, NEW c \in Clients, GiveUp(c)
  PROVE  IInv'
<1>1. Running(c)
  BY DEF GiveUp, Waiting
<1>2. ~cmd[c].served
  BY <1>1, ServedCalls DEF GiveUp, Waits, Busy, NotOver
<1>3. faults' \in 0 .. MaxFaults
  BY DEF GiveUp, IInv, Types
<1> QED
  BY <1>1, <1>2, <1>3, FailsKeeps DEF GiveUp

\* A client that goes away may leave its request behind; it does not make it again.
LEMMA LeaveKeeps ==
  ASSUME IInv, NEW c \in Clients, Running(c), Leave(c), Moved(c), cmd' \in [Clients -> CmdRec],
         \A d \in Clients \ {c} : cmd'[d] = cmd[d],
         cmd'[c].result # "ok",
         cmd'[c].result = "running" => Plan[cmd'[c].op][cmd'[c].at] # "poll",
         UNCHANGED agentVars, faults' \in 0 .. MaxFaults
  PROVE  IInv'
<1>1. CASE UNCHANGED strays /\ ~cmd[c].served
  <2>1. Types'
    BY <1>1 DEF IInv, Types, agentVars
  <2> QED
    BY <1>1, <2>1, OneQuiet DEF agentVars
<1>2. ASSUME strays' = strays \cup {[Of(c) EXCEPT !.left = TRUE]}
      PROVE  IInv'
  <2> DEFINE s == [Of(c) EXCEPT !.left = TRUE]
  <2>1. /\ s \in ReqRec /\ s.kind = CallOf(c) /\ s.by = By(c) /\ s.served = cmd[c].served
        /\ s.left /\ By(c)[1] = c /\ By(c)[2] = cmd[c].no
    <3>1. /\ Of(c) \in ReqRec /\ By(c)[1] = c /\ By(c)[2] = cmd[c].no
          /\ Of(c).kind = CallOf(c) /\ Of(c).by = By(c) /\ Of(c).served = cmd[c].served
      BY OfTypes DEF IInv
    <3> QED
      BY <3>1 DEF ReqRec
  <2>2. strays' = strays \cup {s}
    BY <1>2
  <2> HIDE DEF s
  <2>3. Types'
    BY <2>1, <2>2 DEF IInv, Types, agentVars
  <2>4. \A d \in Clients : cmd'[d] = cmd[d] \/ Moved(d)
    OBVIOUS
  <2>5. Planned' /\ FirstFailureIsTold'
    BY <2>4, MovesStay
  <2>6. OneJobPerCommand'
    BY DEF IInv, OneJobPerCommand, agentVars
  <2>7. PollsItsOwn'
    <3>1. job' = job
      BY DEF agentVars
    <3> QED
      BY <3>1, OnePolls
  <2>8. OkIsDeleted'
    <3>1. deleted' = deleted
      BY DEF agentVars
    <3>2. ASSUME NEW d \in Clients, cmd'[d].result = "ok"
          PROVE  d # c /\ cmd'[d] = cmd[d]
      BY <3>2
    <3>3. ASSUME NEW d \in Clients, cmd'[d].result = "ok"
          PROVE  /\ cmd'[d].op = "destroy" => [by |-> By(d)', stopped |-> TRUE] \in deleted
                 /\ cmd'[d].op = "verify" => \E e \in deleted : e.by = By(d)'
      <4>1. cmd'[d] = cmd[d] /\ By(d)' = By(d)
        BY <3>2, <3>3 DEF By
      <4>2. /\ cmd[d].op = "destroy" => [by |-> By(d), stopped |-> TRUE] \in deleted
            /\ cmd[d].op = "verify" => \E e \in deleted : e.by = By(d)
        BY <3>3, <4>1 DEF IInv, OkIsDeleted
      <4> QED
        BY <4>1, <4>2
    <3> QED
      BY <3>1, <3>3 DEF OkIsDeleted
  <2>9. Numbered'
    <3>1. job' = job /\ \A d \in Clients : cmd'[d].no = cmd[d].no
      BY DEF Moved, agentVars
    <3>2. \A q \in strays', d \in Clients : q.by[1] = d => q.by[2] <= cmd[d].no
      <4>1. cmd[c].no \in Nat
        BY DEF IInv, Types, CmdRec
      <4>2. \A d \in Clients : s.by[1] = d => s.by[2] <= cmd[d].no
        BY <2>1, <4>1
      <4> QED
        BY <2>2, <4>2 DEF IInv, Numbered
    <3> QED
      BY <3>1, <3>2 DEF IInv, Numbered
  <2>10. AsksOnce'
    <3>1. \A d \in Clients : Unsubmitted(d)' => Unsubmitted(d) /\ By(d)' = By(d)
      BY <2>3, <2>4, MovesOn DEF IInv
    <3>2. \A d \in Clients \ {c} : By(d) # By(c)
      BY DEF By
    <3>3. CallOf(c) \in Submits => ~Unsubmitted(c)'
      BY <2>3, MovesOn DEF IInv
    <3>4. CallOf(c) \in Submits => Unsubmitted(c)
      BY CallFacts DEF IInv, Unsubmitted
    <3> QED
      BY <2>1, <2>2, <3>1, <3>2, <3>3, <3>4 DEF IInv, AsksOnce, agentVars
  <2>11. OneHolder'
    <3>1. ~cmd'[c].served
      BY DEF Moved
    <3>2. cmd[c].served => CallOf(c) \in {"upload", "delete"}
      BY DEF IInv, OneHolder
    <3>3. lock' = lock /\ job' = job
      BY DEF agentVars
    <3>4. lock' = "request" <=> \/ \E d \in Clients : cmd'[d].served
                                \/ \E q \in strays' : q.served
      BY <2>1, <2>2, <3>1, <3>3 DEF IInv, OneHolder
    <3>5. lock' = "job" <=> \E j \in Jobs : job'[j].state = "running"
      BY <3>3 DEF IInv, OneHolder
    <3>6. \A d, e \in Clients : cmd'[d].served /\ cmd'[e].served => d = e
      BY <3>1 DEF IInv, OneHolder
    <3>7. \A q, r \in strays' : q.served /\ r.served => q = r
      BY <2>1, <2>2 DEF IInv, OneHolder
    <3>8. \A d \in Clients, q \in strays' : ~(cmd'[d].served /\ q.served)
      BY <2>1, <2>2, <3>1 DEF IInv, OneHolder
    <3>9. \A d \in Clients : cmd'[d].served => Running(d)' /\ CallOf(d)' \in {"upload", "delete"}
      BY <3>1 DEF IInv, OneHolder, Running, CallOf
    <3>10. \A q \in strays' : q.served => q.kind \in {"upload", "delete"}
      BY <2>1, <2>2, <3>2 DEF IInv, OneHolder
    <3>11. \A i, j \in Jobs : job'[i].state = "running" /\ job'[j].state = "running" => i = j
      BY <3>3 DEF IInv, OneHolder
    <3> QED
      BY <3>4, <3>5, <3>6, <3>7, <3>8, <3>9, <3>10, <3>11 DEF OneHolder
  <2> QED
    BY <2>3, <2>5, <2>6, <2>7, <2>8, <2>9, <2>10, <2>11 DEF IInv
<1> QED
  BY <1>1, <1>2 DEF Leave

LEMMA UnansweredKeeps ==
  ASSUME IInv, NEW c \in Clients, Unanswered(c)
  PROVE  IInv'
<1>1. Running(c) /\ Leave(c) /\ UNCHANGED agentVars
  BY DEF Unanswered, Waiting
<1>2. cmd \in [Clients -> CmdRec] /\ cmd' = [cmd EXCEPT ![c] = Raised(c)]
  BY DEF Unanswered, IInv, Types
<1>3. cmd'[c] = Raised(c) /\ \A d \in Clients \ {c} : cmd'[d] = cmd[d]
  BY <1>2
<1>4. /\ Moved(c) /\ cmd'[c] \in CmdRec /\ cmd'[c].result # "ok"
      /\ cmd'[c].result = "running" => Plan[cmd'[c].op][cmd'[c].at] # "poll"
  BY <1>1, <1>3, RaisedMoves DEF IInv
<1>5. cmd' \in [Clients -> CmdRec]
  BY <1>2, <1>3, <1>4
<1>6. faults' \in 0 .. MaxFaults
  BY DEF Unanswered, Fault, IInv, Types
<1> QED
  BY <1>1, <1>3, <1>4, <1>5, <1>6, LeaveKeeps

LEMMA KillKeeps ==
  ASSUME IInv, NEW c \in Clients, Kill(c)
  PROVE  IInv'
<1>1. Running(c) /\ UNCHANGED agentVars
  BY DEF Kill
<1>2. cmd \in [Clients -> CmdRec] /\ cmd' = [cmd EXCEPT ![c] = Ended(c, "killed", None)]
  BY DEF Kill, IInv, Types
<1>3. cmd'[c] = Ended(c, "killed", None) /\ \A d \in Clients \ {c} : cmd'[d] = cmd[d]
  BY <1>2
<1>4. CallOf(c) \in Calls
  BY <1>1, CallFacts DEF IInv
<1>5. /\ cmd'[c] \in CmdRec /\ cmd'[c].no = cmd[c].no /\ cmd'[c].op = cmd[c].op
      /\ ~cmd'[c].served /\ cmd'[c].result = "killed"
  BY <1>3, <1>4, EndedFields DEF IInv
<1>6. Moved(c) /\ cmd' \in [Clients -> CmdRec]
  BY <1>1, <1>2, <1>3, <1>5 DEF Moved
<1>7. faults' \in 0 .. MaxFaults
  BY DEF Kill, Fault, IInv, Types
<1>8. CASE c \in Waiting
  <2>1. Leave(c)
    BY <1>8 DEF Kill
  <2> QED
    BY <1>1, <1>3, <1>5, <1>6, <1>7, <2>1, LeaveKeeps
<1>9. CASE c \notin Waiting
  <2>1. UNCHANGED strays /\ ~cmd[c].served
    BY <1>1, <1>9, ServedCalls DEF Kill, Waiting
  <2>2. Leave(c)
    BY <2>1 DEF Leave
  <2> QED
    BY <1>1, <1>3, <1>5, <1>6, <1>7, <2>2, LeaveKeeps
<1> QED
  BY <1>8, <1>9

\* A command is given: nothing is known of it yet.
LEMMA RunKeeps ==
  ASSUME IInv, NEW c \in Clients, Run(c)
  PROVE  IInv'
<1> USE DEF IInv
<1>1. PICK op \in OpsOf[c] : cmd' = [cmd EXCEPT ![c] =
           [Idle EXCEPT !.op = op, !.no = cmd[c].no + 1, !.result = "running"]]
  BY DEF Run
<1>2. /\ ~Running(c) /\ cmd[c].no < MaxCommands
      /\ strays' = strays /\ row' = row /\ stack' = stack /\ lock' = lock /\ job' = job
      /\ deleted' = deleted /\ faults' = faults
  BY DEF Run, agentVars
<1>3. cmd \in [Clients -> CmdRec] /\ cmd[c].no \in 0 .. MaxCommands /\ op \in Ops
      /\ MaxCommands \in Nat
  BY <1>1 DEF Types, CmdRec
<1>4. /\ cmd'[c] = [op |-> op, no |-> cmd[c].no + 1, at |-> 1, served |-> FALSE, job |-> None,
                    first |-> None, told |-> None, result |-> "running"]
      /\ \A d \in Clients \ {c} : cmd'[d] = cmd[d]
  BY <1>1, <1>3 DEF Idle
<1>5. cmd'[c] \in CmdRec
  BY <1>2, <1>3, <1>4 DEF CmdRec
<1>6. cmd' \in [Clients -> CmdRec]
  BY <1>1, <1>3, <1>4, <1>5
<1>7. Types'
  BY <1>2, <1>6 DEF Types
<1>8. 1 \in 1 .. Len(Plan[op]) /\ Plan[op][1] # "poll"
  BY <1>3, PlanTable
<1>9. ~cmd[c].served
  BY <1>2 DEF OneHolder
<1>10. Planned'
  BY <1>4, <1>8 DEF Planned, Running, AtEnd
<1>11. OneHolder'
  <2>1. \A d \in Clients : cmd'[d].served = cmd[d].served \/ (~cmd'[d].served /\ ~cmd[d].served)
    BY <1>4, <1>9
  <2>2. \A d \in Clients : cmd'[d].served => Running(d)' /\ CallOf(d)' \in {"upload", "delete"}
    BY <1>4 DEF OneHolder, Running, CallOf
  <2>3. lock = "request" <=> \/ \E d \in Clients : cmd'[d].served
                             \/ \E q \in strays : q.served
    BY <2>1 DEF OneHolder
  <2>4. \A d, e \in Clients : cmd'[d].served /\ cmd'[e].served => d = e
    BY <2>1 DEF OneHolder
  <2>5. \A d \in Clients, q \in strays : ~(cmd'[d].served /\ q.served)
    BY <2>1 DEF OneHolder
  <2> QED
    BY <1>2, <2>2, <2>3, <2>4, <2>5 DEF OneHolder
<1>12. \A d \in Clients : cmd[d].no <= cmd'[d].no
  BY <1>3, <1>4 DEF CmdRec
<1>13. Numbered'
  <2>1. ASSUME NEW q \in strays, NEW d \in Clients, q.by[1] = d PROVE q.by[2] <= cmd'[d].no
    <3>1. q.by \in Commands /\ q.by[2] <= cmd[d].no
      BY <2>1 DEF Numbered, Types, ReqRec
    <3>2. q.by[2] \in Nat
      BY <3>1 DEF Commands
    <3>3. cmd[d].no \in Nat /\ cmd'[d].no \in Nat
      BY <1>3, <1>6 DEF CmdRec
    <3> QED
      BY <1>12, <3>1, <3>2, <3>3
  <2>2. ASSUME NEW j \in Jobs, NEW d \in Clients, job[j].by # None, job[j].by[1] = d
        PROVE  job[j].by[2] <= cmd'[d].no
    <3>1. job[j].by \in Commands
      BY <2>2 DEF Types, JobRec
    <3>2. job[j].by[2] <= cmd[d].no
      BY <2>2 DEF Numbered
    <3>3. job[j].by[2] \in Nat
      BY <3>1 DEF Commands
    <3>4. cmd[d].no \in Nat /\ cmd'[d].no \in Nat
      BY <1>3, <1>6 DEF CmdRec
    <3> QED
      BY <1>12, <3>2, <3>3, <3>4
  <2> QED
    BY <1>2, <2>1, <2>2 DEF Numbered
<1>14. AsksOnce'
  <2>1. By(c)' = <<c, cmd[c].no + 1>> /\ By(c)' \in Clients \X (0 .. MaxCommands)
    BY <1>2, <1>3, <1>4 DEF By
  <2>2. \A j \in Jobs : job[j].by # By(c)'
    <3> SUFFICES ASSUME NEW j \in Jobs, job[j].by = By(c)' PROVE FALSE
      OBVIOUS
    <3>1. job[j].by # None /\ job[j].by[1] = c /\ job[j].by[2] = cmd[c].no + 1
      BY <2>1
    <3> QED
      BY <1>3, <3>1 DEF Numbered
  <2>3. \A q \in strays : q.by # By(c)'
    <3> SUFFICES ASSUME NEW q \in strays, q.by = By(c)' PROVE FALSE
      OBVIOUS
    <3>1. q.by[1] = c /\ q.by[2] = cmd[c].no + 1
      BY <2>1
    <3> QED
      BY <1>3, <3>1 DEF Numbered
  <2>4. \A d \in Clients \ {c} : By(d)' = By(d) /\ (Unsubmitted(d)' <=> Unsubmitted(d))
    BY <1>4 DEF By, Unsubmitted, Running
  <2> QED
    BY <1>2, <2>2, <2>3, <2>4 DEF AsksOnce
<1>15. PollsItsOwn'
  <2>1. cmd'[c].result = "running" => Plan[cmd'[c].op][cmd'[c].at] # "poll"
    BY <1>4, <1>8
  <2> QED
    BY <1>2, <1>4, <2>1, OnePolls
<1>16. OneJobPerCommand'
  BY <1>2 DEF OneJobPerCommand
<1>17. OkIsDeleted'
  BY <1>2, <1>4 DEF OkIsDeleted, By
<1>18. FirstFailureIsTold'
  BY <1>4 DEF FirstFailureIsTold
<1> QED
  BY <1>7, <1>10, <1>11, <1>13, <1>14, <1>15, <1>16, <1>17, <1>18

-----------------------------------------------------------------------------
(* The steps of the agent *)

\* A request that was never under the lock is answered, without a job or a delete.
LEMMA AnswerKeeps ==
  ASSUME IInv, NEW q \in Requests, ~q.served, NEW answer, Answer(q, answer, None),
         q.kind \in Submits => answer \notin {"ok", "done"},
         q.kind = "delete" => ~Good("delete", answer),
         row' \in BOOLEAN, UNCHANGED <<stack, lock, job, deleted, faults>>
  PROVE  IInv'
<1>1. CASE q \in strays /\ cmd' = cmd /\ strays' = strays \ {q}
  <2>1. Types'
    BY <1>1 DEF IInv, Types
  <2> DEFINE M == {}
  <2>2. M \in SUBSET Clients /\ (\A c \in Clients \ M : cmd'[c] = cmd[c]) /\ ~\E c \in M : TRUE
    BY <1>1
  <2> HIDE DEF M
  <2> QED
    BY <1>1, <2>1, <2>2, QuietKeeps
<1>2. ASSUME NEW c \in Clients, Running(c), q = Of(c), strays' = strays,
             cmd' = [cmd EXCEPT ![c] = Reacted(c, answer, None)]
      PROVE  IInv'
  <2>1. q.kind = CallOf(c) /\ q.served = cmd[c].served
    BY <1>2, OfTypes DEF IInv
  <2>2. /\ cmd' \in [Clients -> CmdRec] /\ Moved(c)
        /\ \A d \in Clients \ {c} : cmd'[d] = cmd[d]
        /\ cmd'[c].result = "running" => Plan[cmd'[c].op][cmd'[c].at] # "poll"
    BY ZenonT(40), <1>2, <2>1, OneReacts
  <2>3. /\ cmd'[c].result = "ok" => /\ Good(CallOf(c), answer)
                                    /\ cmd[c].op \in {"destroy", "verify"} => CallOf(c) = "delete"
        /\ cmd'[c].op = cmd[c].op
    BY <1>2, OneReacts DEF Moved
  <2>4. cmd'[c].result = "ok" => cmd'[c].op \notin {"destroy", "verify"}
    BY <2>1, <2>3
  <2>5. Types'
    BY <1>2, <2>2 DEF IInv, Types
  <2> QED
    BY <1>2, <2>1, <2>2, <2>4, <2>5, OneQuiet
<1> QED
  BY <1>1, <1>2, Answered DEF IInv

LEMMA CreateKeeps ==
  ASSUME IInv, NEW q \in Requests, Create(q)
  PROVE  IInv'
<1> DEFINE answer == IF row THEN "exists" ELSE "ok"
<1>1. /\ ~q.served /\ q.kind = "create" /\ Answer(q, answer, None)
      /\ row' \in BOOLEAN /\ UNCHANGED <<stack, lock, job, deleted, faults>>
  BY DEF Create, Asked
<1> HIDE DEF answer
<1> QED
  BY <1>1, AnswerKeeps DEF Submits

LEMMA GetKeeps ==
  ASSUME IInv, NEW q \in Requests, Get(q)
  PROVE  IInv'
<1> DEFINE answer == IF row THEN "ok" ELSE "missing"
<1>1. /\ ~q.served /\ q.kind = "get" /\ Answer(q, answer, None)
      /\ row' = row /\ UNCHANGED <<stack, lock, job, deleted, faults>>
  BY DEF Get, Asked, agentVars
<1>2. row' \in BOOLEAN
  BY <1>1 DEF IInv, Types
<1> HIDE DEF answer
<1> QED
  BY <1>1, <1>2, AnswerKeeps DEF Submits

LEMMA PollKeeps ==
  ASSUME IInv, NEW q \in Requests, Poll(q)
  PROVE  IInv'
<1>1. PICK answer \in {"done", "failed", "missing"} : Answer(q, answer, None)
  BY DEF Poll
<1>2. /\ ~q.served /\ q.kind = "poll"
      /\ row' = row /\ UNCHANGED <<stack, lock, job, deleted, faults>>
  BY DEF Poll, Asked, agentVars
<1>3. row' \in BOOLEAN
  BY <1>2 DEF IInv, Types
<1> QED
  BY <1>1, <1>2, <1>3, AnswerKeeps DEF Submits

LEMMA RefuseKeeps ==
  ASSUME IInv, NEW q \in Requests, Refuse(q)
  PROVE  IInv'
<1>1. PICK answer \in {"missing", "error", "busy"} : Answer(q, answer, None)
  BY DEF Refuse
<1>2. /\ ~q.served
      /\ row' = row /\ UNCHANGED <<stack, lock, job, deleted, faults>>
  BY DEF Refuse, Asked, agentVars
<1>3. row' \in BOOLEAN
  BY <1>2 DEF IInv, Types
<1>4. ~Good("delete", answer)
  BY DEF Good
<1> QED
  BY <1>1, <1>2, <1>3, <1>4, AnswerKeeps

\* Nothing is done under a lock that is free.
LEMMA FreeLock ==
  ASSUME IInv, lock = None
  PROVE  /\ \A c \in Clients : ~cmd[c].served
         /\ \A q \in strays : ~q.served
         /\ \A j \in Jobs : job[j].state # "running"
  BY DEF IInv, OneHolder

\* A job is started, and whoever asked for it is told or has gone.
LEMMA StartsJob ==
  ASSUME IInv, Types', lock = None, lock' = "job", NEW j \in Jobs, job[j].state = "new",
         job'[j].state = "running", job'[j].by \in Commands,
         \A k \in Jobs \ {j} : job'[k] = job[k],
         \A c \in Clients : cmd'[c] = cmd[c] \/ Moved(c),
         strays' \subseteq strays,
         \A c \in Clients : job'[j].by[1] = c => job'[j].by[2] <= cmd[c].no,
         \A k \in Jobs : job[k].by # job'[j].by,
         \A r \in strays' : r.kind \in Submits => r.by # job'[j].by,
         \A c \in Clients : Unsubmitted(c)' => By(c) # job'[j].by
  PROVE  /\ Planned' /\ OneHolder' /\ Numbered' /\ AsksOnce' /\ OneJobPerCommand'
         /\ FirstFailureIsTold'
<1>1. Planned' /\ FirstFailureIsTold'
  BY MovesStay
<1>2. job \in [Jobs -> JobRec]
  BY DEF IInv, Types
<1>3. OneHolder'
  <2>1. \A c \in Clients : ~cmd'[c].served
    BY FreeLock DEF Moved
  <2>2. \A q \in strays' : ~q.served
    BY FreeLock
  <2>3. \A k \in Jobs : job'[k].state = "running" => k = j
    BY <1>2, FreeLock
  <2> QED
    BY <1>2, <2>1, <2>2, <2>3 DEF OneHolder
<1>4. Numbered'
  <2>1. \A c \in Clients : cmd'[c].no = cmd[c].no
    BY DEF Moved
  <2> QED
    BY <1>2, <2>1 DEF IInv, Numbered
<1>5. \A c \in Clients : By(c)' = By(c) /\ (Unsubmitted(c)' => Unsubmitted(c))
  BY MovesOn DEF IInv
<1>6. AsksOnce'
  BY <1>2, <1>5 DEF IInv, AsksOnce
<1>7. OneJobPerCommand'
  BY <1>2 DEF IInv, OneJobPerCommand
<1> QED
  BY <1>1, <1>3, <1>4, <1>6, <1>7

LEMMA SubmitKeeps ==
  ASSUME IInv, NEW q \in Requests, Submit(q)
  PROVE  IInv'
<1>1. PICK j \in Jobs : /\ job[j].state = "new"
                        /\ job' = [job EXCEPT ![j] = [state |-> "running", op |-> q.kind,
                                                      by |-> q.by]]
                        /\ Answer(q, "ok", j)
  BY DEF Submit
<1>2. /\ lock = None /\ lock' = "job" /\ q.kind \in Submits /\ ~q.served
      /\ UNCHANGED <<row, stack, deleted, faults>>
  BY DEF Submit, Asked, Submits
<1>3. job \in [Jobs -> JobRec]
  BY DEF IInv, Types
<1>4. ASSUME q.by \in Commands
      PROVE  /\ job' \in [Jobs -> JobRec]
             /\ \A k \in Jobs : job'[k].state # "new" => job'[k].op \in Submits
  <2>1. [state |-> "running", op |-> q.kind, by |-> q.by] \in JobRec
    BY <1>2, <1>4 DEF JobRec
  <2>2. job'[j].op = q.kind /\ \A k \in Jobs \ {j} : job'[k] = job[k]
    BY <1>1, <1>3
  <2>3. \A k \in Jobs : job[k].state # "new" => job[k].op \in Submits
    BY DEF IInv, Types
  <2> QED
    BY <1>1, <1>2, <1>3, <2>1, <2>2, <2>3
<1>5. CASE q \in strays /\ cmd' = cmd /\ strays' = strays \ {q}
  <2>1. q \in ReqRec /\ q.by \in Commands
    BY <1>5 DEF IInv, Types, ReqRec
  <2>2. Types'
    BY <1>2, <1>4, <1>5, <2>1 DEF IInv, Types
  <2>3. /\ \A k \in Jobs : job[k].by # q.by
        /\ \A r \in strays' : r.kind \in Submits => r.by # q.by
        /\ \A c \in Clients : Unsubmitted(c) => By(c) # q.by
    BY <1>2, <1>5 DEF IInv, AsksOnce
  <2>4. \A c \in Clients : Unsubmitted(c)' => By(c) # q.by
    BY <1>5, <2>3 DEF Unsubmitted, Running
  <2>5. \A c \in Clients : q.by[1] = c => q.by[2] <= cmd[c].no
    BY <1>5 DEF IInv, Numbered
  <2>6. /\ Planned' /\ OneHolder' /\ Numbered' /\ AsksOnce' /\ OneJobPerCommand'
        /\ FirstFailureIsTold'
    <3>1. /\ job'[j].state = "running" /\ job'[j].by = q.by
          /\ \A k \in Jobs \ {j} : job'[k] = job[k]
      BY <1>1, <1>3, <2>1
    <3>2. (\A d \in Clients : cmd'[d] = cmd[d] \/ Moved(d)) /\ strays' \subseteq strays
      BY <1>5
    <3> QED
      BY <1>1, <1>2, <2>1, <2>3, <2>4, <2>5, <2>2, <3>1, <3>2, StartsJob
  <2>7. PollsItsOwn'
    <3>1. \A c \in Clients : Running(c)' /\ CallOf(c)' = "poll" =>
            /\ cmd[c].job \in Jobs /\ cmd[c].job # j
            /\ job[cmd[c].job].state # "new" /\ job[cmd[c].job].by = By(c)
            /\ job[cmd[c].job].op = IF cmd[c].op = "down" THEN "down" ELSE "up"
      BY <1>1, <1>5 DEF IInv, PollsItsOwn, Running, CallOf
    <3>2. \A k \in Jobs \ {j} : job'[k] = job[k]
      BY <1>1, <1>3
    <3>3. \A c \in Clients : By(c)' = By(c)
      BY <1>5 DEF By
    <3> QED
      BY <1>5, <3>1, <3>2, <3>3 DEF PollsItsOwn
  <2>8. OkIsDeleted'
    BY <1>2, <1>5 DEF IInv, OkIsDeleted, By
  <2> QED
    BY <2>2, <2>6, <2>7, <2>8 DEF IInv
<1>6. ASSUME NEW c \in Clients, Running(c), q = Of(c), strays' = strays,
             cmd' = [cmd EXCEPT ![c] = Reacted(c, "ok", j)]
      PROVE  IInv'
  <2>1. /\ q.kind = CallOf(c) /\ q.by = By(c) /\ By(c) \in Commands
        /\ By(c)[1] = c /\ By(c)[2] = cmd[c].no
    BY <1>6, OfTypes DEF IInv
  <2>2. /\ CallOf(c) \in Submits
        /\ CallOf(c) = "down" => cmd[c].op = "down"
        /\ CallOf(c) = "up" => cmd[c].op # "down"
        /\ Unsubmitted(c)
    BY <1>2, <1>6, <2>1, CallFacts DEF IInv, Unsubmitted
  <2>3. /\ cmd' \in [Clients -> CmdRec] /\ Moved(c)
        /\ \A d \in Clients \ {c} : cmd'[d] = cmd[d]
        /\ cmd'[c].result = "running" /\ Plan[cmd'[c].op][cmd'[c].at] = "poll"
             => cmd'[c].job = j
        /\ cmd'[c].result = "ok" /\ cmd[c].op \in {"destroy", "verify"} => CallOf(c) = "delete"
    <3>1. cmd \in [Clients -> CmdRec] /\ j \in Jobs \cup {None}
      BY DEF IInv, Types
    <3>2. cmd'[c] = Reacted(c, "ok", j) /\ \A d \in Clients \ {c} : cmd'[d] = cmd[d]
      BY <1>6, <3>1
    <3>3. /\ Moved(c) /\ cmd'[c] \in CmdRec
          /\ cmd'[c].result = "running" /\ Plan[cmd'[c].op][cmd'[c].at] = "poll"
               => cmd'[c].job = j
          /\ cmd'[c].result = "ok" => AtEnd(c)
      BY <1>6, <3>1, <3>2, ReactedMoves DEF IInv
    <3>4. AtEnd(c) /\ cmd[c].op \in {"destroy", "verify"} => CallOf(c) = "delete"
      BY <1>6, CallFacts DEF IInv
    <3>5. cmd' \in [Clients -> CmdRec]
      BY <1>6, <3>1, <3>2, <3>3
    <3> QED
      BY <3>2, <3>3, <3>4, <3>5
  <2>4. Types'
    BY <1>2, <1>4, <1>6, <2>1, <2>3 DEF IInv, Types
  <2>5. /\ \A k \in Jobs : job[k].by # By(c)
        /\ \A r \in strays' : r.kind \in Submits => r.by # By(c)
    BY <1>6, <2>2 DEF IInv, AsksOnce
  <2>6. \A d \in Clients : Unsubmitted(d)' => By(d) # By(c)
    <3>1. ~Unsubmitted(c)'
      BY <2>2, <2>3, <2>4, MovesOn DEF IInv
    <3> QED
      BY <3>1 DEF By
  <2>7. \A d \in Clients : By(c)[1] = d => By(c)[2] <= cmd[d].no
    <3>1. cmd[c].no \in Nat
      BY DEF IInv, Types, CmdRec
    <3> QED
      BY <2>1, <3>1
  <2>8. /\ Planned' /\ OneHolder' /\ Numbered' /\ AsksOnce' /\ OneJobPerCommand'
        /\ FirstFailureIsTold'
    <3>1. /\ job'[j].state = "running" /\ job'[j].by = By(c)
          /\ \A k \in Jobs \ {j} : job'[k] = job[k]
      BY <1>1, <1>3, <2>1
    <3>2. (\A d \in Clients : cmd'[d] = cmd[d] \/ Moved(d)) /\ strays' \subseteq strays
      BY <1>6, <2>3
    <3> QED
      BY <1>1, <1>2, <2>1, <2>2, <2>5, <2>6, <2>7, <2>4, <3>1, <3>2, StartsJob
  <2>9. PollsItsOwn'
    <3>1. /\ job'[j].state = "running" /\ job'[j].op = CallOf(c) /\ job'[j].by = By(c)
          /\ \A k \in Jobs \ {j} : job'[k] = job[k]
      BY <1>1, <1>3, <2>1
    <3>2. \A d \in Clients : By(d)' = By(d)
      BY <2>3 DEF By, Moved
    <3>3. ASSUME NEW d \in Clients \ {c}, Running(d)', CallOf(d)' = "poll"
          PROVE  /\ cmd[d].job \in Jobs /\ cmd[d].job # j
                 /\ job[cmd[d].job].state # "new" /\ job[cmd[d].job].by = By(d)
                 /\ job[cmd[d].job].op = IF cmd[d].op = "down" THEN "down" ELSE "up"
      BY <1>1, <2>3, <3>3 DEF IInv, PollsItsOwn, Running, CallOf
    <3>4. ASSUME Running(c)', CallOf(c)' = "poll"
          PROVE  cmd'[c].job = j /\ cmd'[c].op = cmd[c].op
      BY <2>3, <3>4 DEF Running, CallOf, Moved
    <3>5. CallOf(c) = IF cmd[c].op = "down" THEN "down" ELSE "up"
      BY <2>2 DEF Submits
    <3>6. ASSUME NEW d \in Clients, Running(d)', CallOf(d)' = "poll"
          PROVE  /\ cmd'[d].job \in Jobs
                 /\ job'[cmd'[d].job].state # "new"
                 /\ job'[cmd'[d].job].by = By(d)'
                 /\ job'[cmd'[d].job].op = IF cmd'[d].op = "down" THEN "down" ELSE "up"
      <4>1. CASE d = c
        BY <3>1, <3>2, <3>4, <3>5, <3>6, <4>1
      <4>2. CASE d # c
        BY <2>3, <3>1, <3>2, <3>3, <3>6, <4>2
      <4> QED
        BY <4>1, <4>2
    <3> QED
      BY <3>6 DEF PollsItsOwn
  <2>10. OkIsDeleted'
    <3>1. cmd'[c].result = "ok" => cmd'[c].op \notin {"destroy", "verify"}
      BY <2>2, <2>3 DEF Moved, Submits
    <3>2. deleted' = deleted
      BY <1>2
    <3> QED
      BY SMTT(30), <2>3, <3>1, <3>2 DEF IInv, OkIsDeleted, By
  <2> QED
    BY <2>4, <2>8, <2>9, <2>10 DEF IInv
<1> QED
  BY <1>1, <1>5, <1>6, Answered DEF IInv

\* Whether it is served is all that changes of a request.
LEMMA ServedKeeps ==
  ASSUME IInv,
         \A c \in Clients : /\ cmd'[c].op = cmd[c].op /\ cmd'[c].no = cmd[c].no
                            /\ cmd'[c].at = cmd[c].at /\ cmd'[c].job = cmd[c].job
                            /\ cmd'[c].first = cmd[c].first /\ cmd'[c].told = cmd[c].told
                            /\ cmd'[c].result = cmd[c].result,
         \A r \in strays' : \E q \in strays : q.by = r.by,
         \A r \in strays' : r.kind \in Submits => r \in strays,
         UNCHANGED <<job, deleted>>
  PROVE  /\ Planned' /\ Numbered' /\ AsksOnce' /\ PollsItsOwn' /\ OneJobPerCommand'
         /\ OkIsDeleted' /\ FirstFailureIsTold'
<1> USE DEF IInv
<1>1. \A c \in Clients : /\ By(c)' = By(c) /\ Running(c)' = Running(c)
                         /\ CallOf(c)' = CallOf(c) /\ AtEnd(c)' = AtEnd(c)
                         /\ Unsubmitted(c)' = Unsubmitted(c)
  BY DEF By, Running, CallOf, AtEnd, Unsubmitted
<1>2. Planned'
  BY <1>1 DEF Planned
<1>3. Numbered'
  BY DEF Numbered
<1>4. AsksOnce'
  BY <1>1 DEF AsksOnce
<1>5. PollsItsOwn'
  BY <1>1 DEF PollsItsOwn
<1>6. OneJobPerCommand'
  BY DEF OneJobPerCommand
<1>7. OkIsDeleted'
  BY <1>1 DEF OkIsDeleted
<1>8. FirstFailureIsTold'
  BY DEF FirstFailureIsTold
<1> QED
  BY <1>2, <1>3, <1>4, <1>5, <1>6, <1>7, <1>8

LEMMA AcceptKeeps ==
  ASSUME IInv, NEW q \in Requests, Accept(q)
  PROVE  IInv'
<1>1. /\ ~q.served /\ q.kind \in {"upload", "delete"} /\ lock = None /\ lock' = "request"
      /\ row' = row /\ stack' = stack /\ job' = job /\ deleted' = deleted /\ faults' = faults
      /\ cmd' = [c \in Clients |-> IF c \in Sender(q) THEN [cmd[c] EXCEPT !.served = TRUE]
                                                      ELSE cmd[c]]
      /\ strays' = IF q.left THEN (strays \ {q}) \cup {[q EXCEPT !.served = TRUE]} ELSE strays
  BY DEF Accept, Asked
<1>2. /\ cmd \in [Clients -> CmdRec] /\ strays \subseteq ReqRec
      /\ \A r \in strays : r.left
  BY DEF IInv, Types
<1>3. /\ \A c \in Clients : ~cmd[c].served
      /\ \A r \in strays : ~r.served
      /\ \A j \in Jobs : job[j].state # "running"
  BY <1>1, FreeLock
<1>4. CASE q \in strays /\ q.left /\ Sender(q) = {}
  <2> DEFINE s == [q EXCEPT !.served = TRUE]
  <2>1. s \in ReqRec /\ s.kind = q.kind /\ s.by = q.by /\ s.served /\ s.left
    BY <1>2, <1>4 DEF ReqRec
  <2>2. strays' = (strays \ {q}) \cup {s} /\ cmd' = cmd
    BY <1>1, <1>2, <1>4
  <2> HIDE DEF s
  <2>3. Types'
    BY <1>1, <1>2, <2>1, <2>2 DEF IInv, Types
  <2>4. OneHolder'
    <3>1. \A r \in strays' : r.served <=> r = s
      BY <1>3, <2>1, <2>2
    <3>2. s \in strays'
      BY <2>2
    <3> QED
      BY <1>1, <1>3, <2>1, <2>2, <3>1, <3>2 DEF OneHolder
  <2>5. \A r \in strays' : \E t \in strays : t.by = r.by
    BY <1>4, <2>1, <2>2
  <2>6. \A r \in strays' : r.kind \in Submits => r \in strays
    BY <1>1, <2>1, <2>2 DEF Submits
  <2>7. /\ Planned' /\ Numbered' /\ AsksOnce' /\ PollsItsOwn' /\ OneJobPerCommand'
        /\ OkIsDeleted' /\ FirstFailureIsTold'
    BY <1>1, <2>2, <2>5, <2>6, ServedKeeps
  <2> QED
    BY <2>3, <2>4, <2>7 DEF IInv
<1>5. ASSUME NEW c \in Clients, Running(c), q = Of(c), ~q.left, Sender(q) = {c}
      PROVE  IInv'
  <2>1. q.kind = CallOf(c)
    BY <1>5, OfTypes DEF IInv
  <2>2. strays' = strays /\ cmd' = [cmd EXCEPT ![c] = [cmd[c] EXCEPT !.served = TRUE]]
    BY <1>1, <1>2, <1>5
  <2>3. cmd'[c] = [cmd[c] EXCEPT !.served = TRUE] /\ \A d \in Clients \ {c} : cmd'[d] = cmd[d]
    BY <1>2, <2>2
  <2>4. cmd'[c] \in CmdRec /\ cmd'[c].served
    <3>1. cmd[c] \in CmdRec
      BY <1>2
    <3> QED
      BY <2>3, <3>1 DEF CmdRec
  <2>5. cmd[c] \in CmdRec
    BY <1>2
  <2>6. \A d \in Clients : /\ cmd'[d].op = cmd[d].op /\ cmd'[d].no = cmd[d].no
                           /\ cmd'[d].at = cmd[d].at /\ cmd'[d].job = cmd[d].job
                           /\ cmd'[d].first = cmd[d].first /\ cmd'[d].told = cmd[d].told
                           /\ cmd'[d].result = cmd[d].result
    BY <2>3, <2>5 DEF CmdRec
  <2>7. Types'
    <3>1. cmd' \in [Clients -> CmdRec]
      BY <1>2, <2>2, <2>3, <2>4
    <3> QED
      BY <1>1, <1>2, <2>2, <3>1 DEF IInv, Types
  <2>8. OneHolder'
    <3>1. \A d \in Clients : cmd'[d].served <=> d = c
      BY <1>3, <2>3, <2>4
    <3>2. Running(c)' /\ CallOf(c)' \in {"upload", "delete"}
      BY <1>1, <1>5, <2>1, <2>6 DEF Running, CallOf
    <3> QED
      BY <1>1, <1>3, <2>2, <3>1, <3>2 DEF OneHolder
  <2>9. /\ Planned' /\ Numbered' /\ AsksOnce' /\ PollsItsOwn' /\ OneJobPerCommand'
        /\ OkIsDeleted' /\ FirstFailureIsTold'
    BY <1>1, <2>2, <2>6, ServedKeeps
  <2> QED
    BY <2>7, <2>8, <2>9 DEF IInv
<1> QED
  BY <1>4, <1>5, RequestIs DEF IInv

\* The one request that is served is answered, and gives back the lock.
LEMMA ServedAnswer ==
  ASSUME IInv, NEW q \in Requests, q.served, NEW answer, Answer(q, answer, None),
         lock' = None, job' = job, row' \in BOOLEAN, stack' \in {"up", "down"},
         faults' = faults, deleted \subseteq deleted',
         Good("delete", answer) /\ q.kind = "delete" =>
            /\ answer # "unstopped" => [by |-> q.by, stopped |-> TRUE] \in deleted'
            /\ \E d \in deleted' : d.by = q.by
  PROVE  IInv'
<1>1. lock = "request" /\ q.kind \in {"upload", "delete"}
  <2>1. CASE q \in strays
    BY <2>1 DEF IInv, OneHolder
  <2>2. ASSUME NEW c \in Clients, Running(c), q = Of(c)
        PROVE  lock = "request" /\ q.kind \in {"upload", "delete"}
    BY <2>2, OfTypes DEF IInv, OneHolder
  <2> QED
    BY <2>1, <2>2, RequestIs DEF IInv
<1>2. \A j \in Jobs : job[j].state # "running"
  BY <1>1 DEF IInv, OneHolder
<1>3. CASE q \in strays /\ cmd' = cmd /\ strays' = strays \ {q}
  <2>1. Types'
    BY <1>3 DEF IInv, Types
  <2>2. (\A c \in Clients : ~cmd'[c].served) /\ (\A r \in strays' : ~r.served)
    BY <1>3 DEF IInv, OneHolder
  <2>3. OneHolder'
    BY <1>2, <2>2 DEF OneHolder
  <2>4. Planned' /\ Numbered' /\ AsksOnce' /\ OneJobPerCommand' /\ FirstFailureIsTold'
    BY <1>3, <2>1, MovesKeep
  <2>5. PollsItsOwn' /\ OkIsDeleted'
    BY <1>3 DEF IInv, PollsItsOwn, OkIsDeleted, Running, CallOf, By
  <2> QED
    BY <2>1, <2>3, <2>4, <2>5 DEF IInv
<1>4. ASSUME NEW c \in Clients, Running(c), q = Of(c), strays' = strays,
             cmd' = [cmd EXCEPT ![c] = Reacted(c, answer, None)]
      PROVE  IInv'
  <2>1. q.kind = CallOf(c) /\ q.by = By(c) /\ q.served = cmd[c].served
    BY <1>4, OfTypes DEF IInv
  <2>2. /\ cmd' \in [Clients -> CmdRec] /\ Moved(c)
        /\ \A d \in Clients \ {c} : cmd'[d] = cmd[d]
        /\ cmd'[c].result = "running" => Plan[cmd'[c].op][cmd'[c].at] # "poll"
    BY <1>1, <1>4, <2>1, OneReacts DEF Submits
  <2>3. cmd'[c].result = "ok"
          => /\ AtEnd(c) /\ Good(CallOf(c), answer)
             /\ cmd[c].op = "destroy" => answer # "unstopped"
             /\ cmd[c].op \in {"destroy", "verify"} => CallOf(c) = "delete"
    BY <1>4, OneReacts
  <2>4. Types'
    BY <1>4, <2>2 DEF IInv, Types
  <2>5. \A d \in Clients : cmd'[d] = cmd[d] \/ Moved(d)
    BY <2>2
  <2>6. Planned' /\ Numbered' /\ AsksOnce' /\ OneJobPerCommand' /\ FirstFailureIsTold'
    BY <1>4, <2>4, <2>5, MovesKeep
  <2>7. OneHolder'
    <3>1. \A d \in Clients : ~cmd'[d].served
      BY <2>1, <2>2 DEF IInv, OneHolder, Moved
    <3>2. \A r \in strays' : ~r.served
      BY <1>4, <2>1 DEF IInv, OneHolder
    <3> QED
      BY <1>2, <3>1, <3>2 DEF OneHolder
  <2>8. PollsItsOwn'
    BY <2>2, OnePolls
  <2>9. OkIsDeleted'
    <3>1. \A d \in Clients : By(d)' = By(d)
      BY <2>2 DEF By, Moved
    <3>2. ASSUME cmd'[c].result = "ok"
          PROVE  /\ cmd[c].op = "destroy" => [by |-> By(c), stopped |-> TRUE] \in deleted'
                 /\ cmd[c].op = "verify"  => \E d \in deleted' : d.by = By(c)
      BY <2>1, <2>3, <3>2
    <3>3. cmd'[c].op = cmd[c].op
      BY <2>2 DEF Moved
    <3>4. ASSUME NEW e \in Clients, cmd'[e].result = "ok"
          PROVE  /\ cmd'[e].op = "destroy" => [by |-> By(e), stopped |-> TRUE] \in deleted'
                 /\ cmd'[e].op = "verify"  => \E d \in deleted' : d.by = By(e)
      <4>1. CASE e = c
        BY <3>2, <3>3, <3>4, <4>1
      <4>2. CASE e # c
        BY <2>2, <3>4, <4>2 DEF IInv, OkIsDeleted
      <4> QED
        BY <4>1, <4>2
    <3> QED
      BY <3>1, <3>4 DEF OkIsDeleted
  <2> QED
    BY <2>4, <2>6, <2>7, <2>8, <2>9 DEF IInv
<1> QED
  BY <1>3, <1>4, Answered DEF IInv

LEMMA UploadKeeps ==
  ASSUME IInv, NEW q \in Requests, Upload(q)
  PROVE  IInv'
<1>1. PICK answer \in {"ok", "error"} : Answer(q, answer, None)
  BY DEF Upload
<1>2. /\ q.served /\ q.kind = "upload" /\ lock' = None
      /\ UNCHANGED <<row, stack, job, deleted, faults>>
  BY DEF Upload
<1>3. row' \in BOOLEAN /\ stack' \in {"up", "down"}
  BY <1>2 DEF IInv, Types
<1> QED
  BY <1>1, <1>2, <1>3, ServedAnswer

LEMMA DeleteKeeps ==
  ASSUME IInv, NEW q \in Requests, Delete(q)
  PROVE  IInv'
<1>1. PICK stopped \in BOOLEAN :
        /\ stack' = IF stopped THEN "down" ELSE stack
        /\ deleted' = deleted \cup {[by |-> q.by, stopped |-> stopped]}
        /\ Answer(q, IF stopped THEN "ok" ELSE "unstopped", None)
  BY DEF Delete
<1>2. /\ q.served /\ q.kind = "delete" /\ lock' = None /\ row' = FALSE
      /\ job' = job /\ faults' = faults
  BY DEF Delete
<1>3. stack' \in {"up", "down"} /\ row' \in BOOLEAN /\ deleted \subseteq deleted'
  BY <1>1, <1>2 DEF IInv, Types
<1> DEFINE answer == IF stopped THEN "ok" ELSE "unstopped"
<1>4. /\ answer # "unstopped" => [by |-> q.by, stopped |-> TRUE] \in deleted'
      /\ \E d \in deleted' : d.by = q.by
  <2>1. answer # "unstopped" => stopped = TRUE
    OBVIOUS
  <2> DEFINE d == [by |-> q.by, stopped |-> stopped]
  <2>2. d \in deleted' /\ d.by = q.by
    BY <1>1
  <2> HIDE DEF d
  <2>3. \E e \in deleted' : e.by = q.by
    BY <2>2
  <2> QED
    BY <2>1, <2>2, <2>3 DEF d
<1>5. Answer(q, answer, None)
  BY <1>1
<1> HIDE DEF answer
<1> QED
  BY <1>2, <1>3, <1>4, <1>5, ServedAnswer

\* The state of a job changes; nothing else of it, and no client's.
LEMMA JobKeeps ==
  ASSUME IInv, NEW j \in Jobs, NEW state \in {"worked", "broke", "done", "failed"},
         job[j].state # "new", job' = [job EXCEPT ![j].state = state],
         UNCHANGED <<cmd, strays, row, deleted, faults>>, stack' \in {"up", "down"},
         \/ job[j].state # "running" /\ lock' = lock
         \/ job[j].state = "running" /\ lock' = None
  PROVE  IInv'
<1>1. /\ job \in [Jobs -> JobRec] /\ job[j] \in JobRec
      /\ cmd' = cmd /\ strays' = strays /\ deleted' = deleted
  BY DEF IInv, Types
<1>2. /\ job'[j] = [job[j] EXCEPT !.state = state]
      /\ \A k \in Jobs \ {j} : job'[k] = job[k]
  BY <1>1
<1>3. job'[j] \in JobRec /\ job'[j].state = state
      /\ job'[j].op = job[j].op /\ job'[j].by = job[j].by
  BY <1>1, <1>2 DEF JobRec
<1>4. Types'
  <2>1. job' \in [Jobs -> JobRec]
    BY <1>1, <1>2, <1>3
  <2> QED
    BY <1>1, <2>1 DEF IInv, Types
<1>5. \A k \in Jobs : /\ job'[k].by = job[k].by /\ job'[k].op = job[k].op
                      /\ job'[k].state = "new" => job[k].state = "new"
  BY <1>2, <1>3
<1>6. Planned' /\ Numbered' /\ AsksOnce' /\ OneJobPerCommand' /\ FirstFailureIsTold'
  BY <1>1, <1>4, <1>5, MovesKeep
<1>7. PollsItsOwn'
  BY <1>1, <1>5 DEF IInv, PollsItsOwn, Running, CallOf, By
<1>8. OkIsDeleted'
  BY <1>1 DEF IInv, OkIsDeleted, By
<1>9. OneHolder'
  <2>1. CASE job[j].state # "running" /\ lock' = lock
    <3>1. \A k \in Jobs : job'[k].state = "running" <=> job[k].state = "running"
      BY <1>2, <1>3, <2>1
    <3> QED
      BY <1>1, <2>1, <3>1, HolderKept
  <2>2. CASE job[j].state = "running" /\ lock' = None
    <3>1. lock = "job" /\ \A k \in Jobs \ {j} : job[k].state # "running"
      BY <2>2 DEF IInv, OneHolder
    <3>2. \A k \in Jobs : job'[k].state # "running"
      BY <1>2, <1>3, <3>1
    <3>3. (\A c \in Clients : ~cmd[c].served) /\ (\A q \in strays : ~q.served)
      BY <3>1 DEF IInv, OneHolder
    <3> QED
      BY <1>1, <2>2, <3>2, <3>3 DEF OneHolder
  <2> QED
    BY <2>1, <2>2
<1> QED
  BY <1>4, <1>6, <1>7, <1>8, <1>9 DEF IInv

LEMMA WorkKeeps ==
  ASSUME IInv, NEW j \in Jobs, Work(j)
  PROVE  IInv'
<1>1. PICK outcome \in {"worked", "broke"} :
        /\ job' = [job EXCEPT ![j].state = outcome]
        /\ stack' \in IF outcome = "worked" THEN {job[j].op} ELSE {stack, "up", "down"}
  BY DEF Work
<1>2. /\ job[j].state = "running" /\ lock' = None
      /\ UNCHANGED <<cmd, strays, row, deleted, faults>>
  BY DEF Work
<1>3. job[j].op \in {"up", "down"}
  BY <1>2 DEF IInv, Types, Submits
<1>4. stack' \in {"up", "down"}
  BY <1>1, <1>3 DEF IInv, Types
<1> QED
  BY <1>1, <1>2, <1>4, JobKeeps

LEMMA FinishKeeps ==
  ASSUME IInv, NEW j \in Jobs, Finish(j)
  PROVE  IInv'
<1> DEFINE state == IF job[j].state = "worked" THEN "done" ELSE "failed"
<1>1. job \in [Jobs -> JobRec] /\ stack \in {"up", "down"}
  BY DEF IInv, Types
<1>2. /\ job[j].state \in {"worked", "broke"}
      /\ UNCHANGED <<cmd, strays, row, stack, lock, deleted, faults>>
      /\ job' = [job EXCEPT ![j].state = state]
  BY <1>1 DEF Finish
<1>3. state \in {"worked", "broke", "done", "failed"}
  OBVIOUS
<1> HIDE DEF state
<1> QED
  BY <1>1, <1>2, <1>3, JobKeeps

LEMMA AgentRestartKeeps ==
  ASSUME IInv, AgentRestart
  PROVE  IInv'
<1>1. /\ faults < MaxFaults /\ faults' = faults + 1 /\ lock' = None /\ strays' = {}
      /\ deleted' = deleted
      /\ job' = [j \in Jobs |-> IF job[j].state = "new" THEN job[j]
                                ELSE [job[j] EXCEPT !.state = "lost"]]
  BY DEF AgentRestart, Fault
<1>2. PICK cut \in SUBSET Waiting :
        /\ \A c \in Waiting \ cut : ~cmd[c].served
        /\ cmd' = [c \in Clients |-> IF c \in cut THEN Raised(c) ELSE cmd[c]]
  BY DEF AgentRestart
<1>3. row' \in BOOLEAN /\ stack' \in {"up", "down"} /\ faults' \in 0 .. MaxFaults
  <2>1. /\ row' = row \/ row' = FALSE
        /\ stack' \in IF lock = None THEN {stack} ELSE {stack, "up", "down"}
    BY DEF AgentRestart
  <2>2. row \in BOOLEAN /\ stack \in {"up", "down"} /\ faults \in 0 .. MaxFaults
    BY DEF IInv, Types
  <2>3. row' \in BOOLEAN
    BY ONLY <2>1, <2>2
  <2>4. faults' \in 0 .. MaxFaults
    BY <1>1, <2>2
  <2> QED
    BY <2>1, <2>2, <2>3, <2>4
<1>4. /\ cmd \in [Clients -> CmdRec] /\ job \in [Jobs -> JobRec]
      /\ \A c \in Waiting : c \in Clients /\ Running(c)
  BY DEF IInv, Types, Waiting
<1>5. \A c \in cut : /\ Moved(c) /\ cmd'[c] \in CmdRec /\ cmd'[c].result # "ok"
                     /\ cmd'[c].result = "running" => Plan[cmd'[c].op][cmd'[c].at] # "poll"
  <2> SUFFICES ASSUME NEW c \in cut
               PROVE  /\ Moved(c) /\ cmd'[c] \in CmdRec /\ cmd'[c].result # "ok"
                      /\ cmd'[c].result = "running"
                           => Plan[cmd'[c].op][cmd'[c].at] # "poll"
    OBVIOUS
  <2>1. c \in Clients /\ Running(c) /\ cmd'[c] = Raised(c)
    BY <1>2, <1>4
  <2> QED
    BY <2>1, RaisedMoves DEF IInv
<1>6. \A c \in Clients \ cut : cmd'[c] = cmd[c]
  BY <1>2
<1>7. cut \in SUBSET Clients
  BY <1>4
<1>8. \A j \in Jobs : /\ job'[j] \in JobRec /\ job'[j].by = job[j].by /\ job'[j].op = job[j].op
                      /\ job'[j].state # "running"
                      /\ job'[j].state = "new" <=> job[j].state = "new"
  <2> SUFFICES ASSUME NEW j \in Jobs
               PROVE  /\ job'[j] \in JobRec /\ job'[j].by = job[j].by
                      /\ job'[j].op = job[j].op /\ job'[j].state # "running"
                      /\ job'[j].state = "new" <=> job[j].state = "new"
    OBVIOUS
  <2>1. job[j] \in JobRec
    BY <1>4
  <2>2. job'[j] = IF job[j].state = "new" THEN job[j] ELSE [job[j] EXCEPT !.state = "lost"]
    BY <1>1
  <2> QED
    BY <2>1, <2>2 DEF JobRec
<1>9. Types'
  <2>1. cmd' \in [Clients -> CmdRec]
    BY <1>2, <1>4, <1>5
  <2>2. job' \in [Jobs -> JobRec]
    BY <1>1, <1>8
  <2> QED
    BY <1>1, <1>3, <1>8, <2>1, <2>2 DEF IInv, Types
<1>10. Planned' /\ Numbered' /\ AsksOnce' /\ OneJobPerCommand' /\ FirstFailureIsTold'
  <2>1. \A c \in Clients : cmd'[c] = cmd[c] \/ Moved(c)
    BY <1>5, <1>6
  <2> QED
    BY <1>1, <1>8, <1>9, <2>1, MovesKeep
<1>11. PollsItsOwn'
  BY <1>5, <1>6, <1>7, <1>8, PollsKept
<1>12. OkIsDeleted'
  BY <1>1, <1>5, <1>6, <1>7, DeletedKept
<1>13. OneHolder'
  <2>1. \A c \in Clients : ~cmd'[c].served
    <3> SUFFICES ASSUME NEW c \in Clients, cmd'[c].served PROVE FALSE
      OBVIOUS
    <3>1. c \notin cut /\ cmd'[c] = cmd[c]
      BY <1>5, <1>6 DEF Moved
    <3>2. Running(c) /\ CallOf(c) \in {"upload", "delete"}
      BY <3>1 DEF IInv, OneHolder
    <3>3. c \in Waiting \ cut
      BY <3>1, <3>2 DEF Waiting
    <3> QED
      BY <1>2, <3>1, <3>3
  <2> QED
    BY <1>1, <1>8, <2>1 DEF OneHolder
<1> QED
  BY <1>9, <1>10, <1>11, <1>12, <1>13 DEF IInv

-----------------------------------------------------------------------------
(* The invariant, and what follows *)

LEMMA Initially == Init => IInv
<1> SUFFICES ASSUME Init PROVE IInv
  OBVIOUS
<1>1. /\ cmd = [c \in Clients |-> Idle] /\ strays = {} /\ lock = None /\ deleted = {}
      /\ job = [j \in Jobs |-> [state |-> "new", op |-> None, by |-> None]] /\ faults = 0
      /\ row \in BOOLEAN /\ stack \in {"up", "down"}
  BY DEF Init
<1>2. /\ \A c \in Clients : /\ cmd[c].result = "none" /\ cmd[c].no = 0 /\ ~cmd[c].served
      /\ \A j \in Jobs : job[j].state = "new" /\ job[j].by = None
  BY <1>1 DEF Idle
<1>3. Idle \in CmdRec
  BY DEF Idle, CmdRec
<1>4. [state |-> "new", op |-> None, by |-> None] \in JobRec
  BY DEF JobRec
<1>5. Types
  BY <1>1, <1>2, <1>3, <1>4 DEF Types
<1>6. ~\E c \in Clients : Running(c)
  BY <1>2 DEF Running
<1>7. Planned /\ PollsItsOwn /\ OkIsDeleted /\ FirstFailureIsTold
  BY <1>2, <1>6 DEF Planned, PollsItsOwn, OkIsDeleted, FirstFailureIsTold
<1>8. OneHolder
  BY <1>1, <1>2 DEF OneHolder
<1>9. Numbered /\ AsksOnce /\ OneJobPerCommand
  BY <1>1, <1>2, <1>6 DEF Numbered, AsksOnce, OneJobPerCommand, Unsubmitted
<1> QED
  BY <1>5, <1>7, <1>8, <1>9 DEF IInv

LEMMA StutterKeeps ==
  ASSUME IInv, UNCHANGED vars
  PROVE  IInv'
<1>1. /\ cmd' = cmd /\ strays' = strays /\ row' = row /\ stack' = stack /\ lock' = lock
      /\ job' = job /\ deleted' = deleted /\ faults' = faults
  BY DEF vars, agentVars
<1>2. Types' /\ OneHolder'
  BY <1>1 DEF IInv, Types, OneHolder, Running, CallOf
<1>3. /\ Planned' /\ Numbered' /\ AsksOnce' /\ PollsItsOwn' /\ OneJobPerCommand'
      /\ OkIsDeleted' /\ FirstFailureIsTold'
  BY <1>1, ServedKeeps
<1> QED
  BY <1>2, <1>3 DEF IInv

LEMMA Inductive == IInv /\ [Next]_vars => IInv'
<1> SUFFICES ASSUME IInv, [Next]_vars PROVE IInv'
  OBVIOUS
<1>1. CASE UNCHANGED vars
  BY <1>1, StutterKeeps
<1>2. ASSUME NEW c \in Clients, \/ Run(c) \/ ProbeUrl(c) \/ ProbeFails(c) \/ GiveUp(c)
                                \/ Unanswered(c) \/ Kill(c)
      PROVE  IInv'
  BY <1>2, RunKeeps, ProbeUrlKeeps, ProbeFailsKeeps, GiveUpKeeps, UnansweredKeeps, KillKeeps
<1>3. ASSUME NEW q \in Requests, Serve(q)
      PROVE  IInv'
  BY <1>3, CreateKeeps, GetKeeps, PollKeeps, RefuseKeeps, SubmitKeeps, AcceptKeeps,
     UploadKeeps, DeleteKeeps DEF Serve
<1>4. ASSUME NEW j \in Jobs, Work(j) \/ Finish(j)
      PROVE  IInv'
  BY <1>4, WorkKeeps, FinishKeeps
<1>5. CASE AgentRestart
  BY <1>5, AgentRestartKeeps
<1> QED
  BY <1>1, <1>2, <1>3, <1>4, <1>5 DEF Next

LEMMA Invariant == Spec => []IInv
<1> QED
  BY Initially, Inductive, PTL DEF Spec

\* TypeOK: every variable keeps its type, a client polls only a job it was told of, and
\* the lock is held exactly while a request is served or a job runs under it.
THEOREM ClientTypes == Spec => []TypeOK
<1>1. IInv => TypeOK
  <2> SUFFICES ASSUME IInv PROVE TypeOK
    OBVIOUS
  <2>1. ASSUME NEW c \in Clients
        PROVE  /\ cmd[c].op \in Ops \cup {None} /\ cmd[c].no \in 0 .. MaxCommands
               /\ {cmd[c].first, cmd[c].told} \subseteq Calls \cup {None}
               /\ cmd[c].result \in {"none", "running", "ok", "failed", "killed"}
               /\ Running(c) /\ CallOf(c) = "poll" => cmd[c].job \in Jobs
    <3>1. cmd[c] \in CmdRec
      BY DEF IInv, Types
    <3>2. Running(c) /\ CallOf(c) = "poll" => cmd[c].job \in Jobs
      BY DEF IInv, PollsItsOwn
    <3> QED
      BY <3>1, <3>2 DEF CmdRec
  <2>2. (\E q \in Requests : q.served)
          <=> (\E c \in Clients : cmd[c].served) \/ (\E q \in strays : q.served)
    <3>1. ASSUME NEW c \in Clients, cmd[c].served PROVE \E q \in Requests : q.served
      <4>1. Running(c) /\ CallOf(c) \in {"upload", "delete"}
        BY <3>1 DEF IInv, OneHolder
      <4>2. Of(c) \in Requests /\ Of(c).served
        BY <3>1, <4>1, OfTypes DEF IInv, Requests, Waiting
      <4> QED
        BY <4>2
    <3>2. ASSUME NEW q \in Requests, q.served
          PROVE  (\E c \in Clients : cmd[c].served) \/ (\E r \in strays : r.served)
      BY <3>2, RequestIs, OfTypes DEF IInv
    <3>3. strays \subseteq Requests
      BY DEF Requests
    <3> QED
      BY <3>1, <3>2, <3>3
  <2>3. /\ lock = "request" <=> \E q \in Requests : q.served
        /\ lock = "job"     <=> \E j \in Jobs : job[j].state = "running"
    BY <2>2 DEF IInv, OneHolder
  <2>4. /\ \A q \in strays : q.left
        /\ row \in BOOLEAN /\ stack \in {"up", "down"} /\ faults \in 0 .. MaxFaults
    BY DEF IInv, Types
  <2> QED
    BY <2>1, <2>3, <2>4 DEF TypeOK
<1> QED
  BY <1>1, Invariant, PTL

\* OneJobPerCommand: whatever is lost, late, retried or served after its client has gone,
\* no two jobs of the agent were started by one command of one client.
THEOREM OneJob == Spec => []OneJobPerCommand
<1>1. IInv => OneJobPerCommand
  BY DEF IInv
<1> QED
  BY <1>1, Invariant, PTL

\* OkIsDeleted: who says that the project is gone has deleted it, in this very command,
\* and `destroy` only with its containers stopped.
THEOREM DeletedStands == Spec => []OkIsDeleted
<1>1. IInv => OkIsDeleted
  BY DEF IInv
<1> QED
  BY <1>1, Invariant, PTL

\* FirstFailureIsTold: the check of setup tells what failed first, never a failure of
\* its own teardown in its place.
THEOREM FirstFailure == Spec => []FirstFailureIsTold
<1>1. IInv => FirstFailureIsTold
  BY DEF IInv
<1> QED
  BY <1>1, Invariant, PTL

\* A command for a job comes to its success only by the answer to its poll.
LEMMA OkIsPolled ==
  ASSUME IInv, NEW c \in Clients, Running(c), cmd'[c].result = "ok",
         cmd[c].op \in {"up", "up_here", "down"}, Next
  PROVE  CallOf(c) = "poll" /\ job[cmd[c].job].state = "done"
<1>1. /\ cmd \in [Clients -> CmdRec] /\ cmd'[c] # cmd[c]
      /\ cmd'[c] # Raised(c) /\ cmd'[c] # Ended(c, "killed", None)
  <2>1. cmd'[c] # cmd[c]
    BY DEF Running
  <2>2. cmd'[c] # Raised(c)
    BY RaisedMoves DEF IInv
  <2>3. cmd'[c] # Ended(c, "killed", None)
    BY CallFacts, EndedFields DEF IInv
  <2> QED
    BY <2>1, <2>2, <2>3 DEF IInv, Types
<1>2. ASSUME NEW d \in Clients, \/ Run(d) \/ ProbeUrl(d) \/ ProbeFails(d) \/ GiveUp(d)
                                \/ Unanswered(d) \/ Kill(d)
      PROVE  FALSE
  <2>1. CASE Run(d)
    BY <1>1, <2>1 DEF Run
  <2>2. CASE ProbeUrl(d)
    <3>1. c = d /\ CallOf(c) = "probe"
      BY <1>1, <2>2 DEF ProbeUrl
    <3> QED
      BY <3>1, CallFacts DEF IInv
  <2>3. CASE ProbeFails(d)
    BY <1>1, <2>3 DEF ProbeFails
  <2>4. CASE GiveUp(d)
    BY <1>1, <2>4 DEF GiveUp
  <2>5. CASE Unanswered(d)
    BY <1>1, <2>5 DEF Unanswered
  <2>6. CASE Kill(d)
    BY <1>1, <2>6 DEF Kill
  <2> QED
    BY <1>2, <2>1, <2>2, <2>3, <2>4, <2>5, <2>6
<1>3. ASSUME NEW j \in Jobs, Work(j) \/ Finish(j) PROVE FALSE
  BY <1>1, <1>3 DEF Work, Finish
<1>4. CASE AgentRestart
  BY <1>1, <1>4 DEF AgentRestart
<1>5. ASSUME NEW q \in Requests, Serve(q)
      PROVE  CallOf(c) = "poll" /\ job[cmd[c].job].state = "done"
  <2>1. ASSUME NEW answer, NEW j \in Jobs \cup {None}, Answer(q, answer, j)
        PROVE  /\ c \in Sender(q) /\ q.kind = "poll" /\ CallOf(c) = "poll"
               /\ answer \in {"ok", "done"}
    <3>1. c \in Sender(q) /\ cmd'[c] = Reacted(c, answer, j)
      BY <1>1, <2>1 DEF Answer
    <3>2. q.kind = CallOf(c)
      BY <3>1, OfTypes DEF IInv, Sender
    <3>3. AtEnd(c) /\ Good(CallOf(c), answer)
      BY <3>1, ReactedMoves DEF IInv
    <3>4. CallOf(c) = "poll"
      BY <3>3, CallFacts DEF IInv
    <3> QED
      BY <3>1, <3>2, <3>3, <3>4 DEF Good
  <2>2. CASE Poll(q)
    <3>1. PICK d \in Sender(q), answer \in {"done", "failed", "missing"} :
            /\ job[cmd[d].job].state = IF answer = "missing" THEN "lost" ELSE answer
            /\ Answer(q, answer, None)
      BY <2>2 DEF Poll
    <3>2. c \in Sender(q) /\ CallOf(c) = "poll" /\ answer = "done"
      BY <2>1, <3>1
    <3>3. c = d
      BY <3>1, <3>2, RequestIs DEF IInv
    <3> QED
      BY <3>1, <3>2, <3>3
  <2>3. CASE Create(q) \/ Get(q) \/ Refuse(q) \/ Submit(q)
    BY <2>1, <2>3 DEF Create, Get, Refuse, Submit, Asked
  <2>4. CASE Accept(q)
    <3>1. cmd'[c] = [cmd[c] EXCEPT !.served = TRUE] \/ cmd'[c] = cmd[c]
      BY <2>4 DEF Accept
    <3>2. cmd[c] \in CmdRec
      BY <1>1
    <3> QED
      BY <3>1, <3>2 DEF CmdRec, Running
  <2>5. CASE Upload(q) \/ Delete(q)
    BY <2>1, <2>5 DEF Upload, Delete
  <2> QED
    BY <1>5, <2>2, <2>3, <2>4, <2>5 DEF Serve
<1> QED
  BY <1>2, <1>3, <1>4, <1>5 DEF Next

\* OkIsOwnJob: when `up` or `down` succeeds, a job that this very command started has
\* done what the command says; a job lost in a restart, or another's, does not count.
THEOREM OwnJob == Spec => OkIsOwnJob
<1> DEFINE P == \A c \in Clients :
             Running(c) /\ cmd'[c].result = "ok" /\ cmd[c].op \in {"up", "up_here", "down"} =>
               \E j \in Jobs : /\ job[j].by = By(c) /\ job[j].state = "done"
                               /\ job[j].op = IF cmd[c].op = "down" THEN "down" ELSE "up"
<1>1. IInv /\ [Next]_vars => [P]_vars
  <2> SUFFICES ASSUME IInv, Next, NEW c \in Clients, Running(c), cmd'[c].result = "ok",
                      cmd[c].op \in {"up", "up_here", "down"}
               PROVE  \E j \in Jobs : /\ job[j].by = By(c) /\ job[j].state = "done"
                                      /\ job[j].op = IF cmd[c].op = "down" THEN "down" ELSE "up"
    OBVIOUS
  <2>1. CallOf(c) = "poll" /\ job[cmd[c].job].state = "done"
    BY OkIsPolled
  <2>2. /\ cmd[c].job \in Jobs /\ job[cmd[c].job].by = By(c)
        /\ job[cmd[c].job].op = IF cmd[c].op = "down" THEN "down" ELSE "up"
    BY <2>1 DEF IInv, PollsItsOwn
  <2> QED
    BY <2>1, <2>2
<1> QED
  BY <1>1, Invariant, PTL DEF Spec, OkIsOwnJob

=============================================================================
