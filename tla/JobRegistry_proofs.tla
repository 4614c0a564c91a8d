------------------------ MODULE JobRegistry_proofs -------------------------
(***************************************************************************)
(* Proofs about JobRegistry, for any number of jobs and followers: what an *)
(* eviction drops, and that following a job implements JobStream.          *)
(***************************************************************************)
EXTENDS JobRegistry, SequenceTheorems, FiniteSetTheorems, TLAPS

\* The dict and its order: a job is in it once, from its submission on, and what was
\* dropped never comes back.
Submission ==
    /\ IsFiniteSet(registry)
    /\ \A j \in registry : worker[j] # "new"
    /\ \A j \in Jobs : worker[j] # "new" <=> \E m \in DOMAIN submitted : submitted[m] = j
    /\ \A m, n \in DOMAIN submitted : submitted[m] = submitted[n] => m = n

\* A job is over when its thread is, and the history has it then.
Outcome ==
    \A j \in Jobs : /\ job[j].state # "running" <=> worker[j] = "over"
                    /\ worker[j] = "over" => \E m \in DOMAIN order : order[m] = j

\* What a follower r was given and what it holds are the log up to where it has read,
\* and one that is about to end has read the whole log of a job that is over.
Follows(r, jobs) ==
    LET j == jobs[r.job]
        streams == r.pc # "idle"
    IN  /\ r.pc # "idle" => r.job \in Jobs
        /\ ~streams => r.out = <<>> /\ r.sent = 0
        /\ streams  => /\ r.sent <= Len(j.logs)
                       /\ r.out \o r.chunk = SubSeq(j.logs, 1, r.sent)
                       /\ r.result = "none"
        /\ r.pc # "yield" => r.chunk = <<>>
        /\ r.pc = "return" \/ (r.pc = "yield" /\ r.last) =>
              j.state # "running" /\ r.sent = Len(j.logs)

Following == \A f \in Followers : Follows(fol[f], job)

IInv == TypeOK /\ Submission /\ Outcome /\ Following

USE MaxFinishedAssumption, NoneAssumption

-----------------------------------------------------------------------------
(* Types *)

LEMMA IdleType ==
  ASSUME NEW result \in {"none", "complete", "cut", "refused", "broken"}
  PROVE  IdleFollower(result) \in FolRec
  BY EmptySeq DEF IdleFollower, FolRec, FolPC

LEMMA NotifiedType ==
  ASSUME TypeOK, NEW j \in Jobs
  PROVE  Notified(j) \in [Followers -> FolRec]
  BY ZenonT(40) DEF Notified, TypeOK, FolRec, FolPC

LEMMA TypesInit == Init => TypeOK
<1> SUFFICES ASSUME Init PROVE TypeOK
  OBVIOUS
<1>1. fol \in [Followers -> FolRec]
  BY IdleType DEF Init
<1>2. /\ job \in [Jobs -> JobRec]
      /\ \A j \in Jobs : job[j].state = "running" <=> job[j].finished_at = 0
  BY EmptySeq DEF Init, NewJob, JobRec
<1>3. submitted \in Seq(Jobs) /\ order \in Seq(Jobs)
  BY EmptySeq DEF Init
<1> QED
  BY <1>1, <1>2, <1>3 DEF Init, TypeOK, Worker

\* What a worker's thread and the registry change of the types.
LEMMA JobTypes ==
  ASSUME TypeOK, NEW j \in Jobs,
         Submit(j) \/ StartThread(j) \/ StartFails(j) \/ AppendLog(j) \/ Finish(j)
  PROVE  TypeOK'
<1>1. CASE Submit(j)
  <2>1. Append(submitted, j) \in Seq(Jobs)
    BY AppendProperties DEF TypeOK
  <2> QED
    BY <1>1, <2>1 DEF Submit, TypeOK, Worker
<1>2. CASE StartThread(j)
  BY <1>2 DEF StartThread, TypeOK, Worker
<1>3. CASE StartFails(j)
  BY <1>3 DEF StartFails, TypeOK, Worker
<1>4. CASE AppendLog(j)
  <2>1. PICK c \in Chunks : job' = [job EXCEPT ![j].logs = Append(@, c)]
    BY <1>4 DEF AppendLog
  <2>2. Append(job[j].logs, c) \in Seq(Chunks)
    BY AppendProperties DEF TypeOK, JobRec
  <2>3. /\ job' \in [Jobs -> JobRec]
        /\ \A k \in Jobs : job'[k].state = "running" <=> job'[k].finished_at = 0
    BY <2>1, <2>2 DEF TypeOK, JobRec
  <2> QED
    BY <1>4, <2>3, NotifiedType DEF AppendLog, TypeOK
<1>5. CASE Finish(j)
  <2>1. PICK state \in {"done", "failed"} :
              job' = [job EXCEPT ![j].state = state, ![j].finished_at = now + 1]
    BY <1>5 DEF Finish
  <2>2. /\ job' \in [Jobs -> JobRec]
        /\ \A k \in Jobs : job'[k].state = "running" <=> job'[k].finished_at = 0
    <3> DEFINE new == [job[j] EXCEPT !.state = state, !.finished_at = now + 1]
    <3>1. new \in JobRec /\ new.state # "running" /\ new.finished_at # 0
      <4>1. job[j] \in JobRec /\ now + 1 \in Nat /\ now + 1 # 0
        BY DEF TypeOK
      <4> QED
        BY <4>1 DEF JobRec
    <3>2. job' = [job EXCEPT ![j] = new]
      BY <2>1 DEF TypeOK
    <3> QED
      BY <3>1, <3>2 DEF TypeOK
  <2>3. Append(order, j) \in Seq(Jobs)
    BY AppendProperties DEF TypeOK
  <2> QED
    BY <1>5, <2>2, <2>3, NotifiedType DEF Finish, TypeOK, Worker
<1> QED
  BY <1>1, <1>2, <1>3, <1>4, <1>5

LEMMA Accepted ==
  ASSUME NEW r \in FolRec, NEW j \in Jobs
  PROVE  [r EXCEPT !.pc = "accepted", !.job = j, !.result = "none"] \in FolRec
<1>1. /\ "accepted" \in FolPC /\ j \in Jobs \cup {None}
      /\ "none" \in {"none", "complete", "cut", "refused", "broken"}
  BY DEF FolPC
<1> QED
  BY <1>1 DEF FolRec

LEMMA FollowerTypes ==
  ASSUME TypeOK, Following, NEW f \in Followers,
         \/ \E j \in Jobs : Follow(f, j)
         \/ Generator(f) \/ WakeUp(f) \/ Disconnect(f)
  PROVE  TypeOK'
<1>1. fol' \in [Followers -> FolRec]
  <2> USE DEF TypeOK
  <2>1. ASSUME NEW j \in Jobs, Follow(f, j) PROVE fol' \in [Followers -> FolRec]
    <3> DEFINE new == IF j \in registry
                        THEN [fol[f] EXCEPT !.pc = "accepted", !.job = j, !.result = "none"]
                        ELSE IdleFollower("refused")
    <3>1. [fol[f] EXCEPT !.pc = "accepted", !.job = j, !.result = "none"] \in FolRec
      BY Accepted
    <3>2. new \in FolRec
      BY <3>1, IdleType
    <3>3. fol' = [fol EXCEPT ![f] = new]
      BY <2>1 DEF Follow
    <3> HIDE DEF new
    <3> QED
      BY <3>2, <3>3
  <2>2. CASE Begin(f)
    <3>1. [fol[f] EXCEPT !.pc = "loop"] \in FolRec
      BY DEF FolRec, FolPC
    <3> QED
      BY <2>2, <3>1, IdleType DEF Begin
  <2>3. CASE Look(f)
    <3> DEFINE j == fol[f].job
               rest == SubSeq(job[j].logs, fol[f].sent + 1, Len(job[j].logs))
    <3>1. j \in Jobs
      BY <2>3 DEF Following, Follows, Look
    <3>2. Len(job[j].logs) \in Nat /\ fol[f].sent \in Nat /\ job[j].logs \in Seq(Chunks)
      BY <3>1, LenProperties DEF JobRec, FolRec
    <3>3. rest \in Seq(Chunks)
      BY <3>2, SubSeqProperties
    <3>4. /\ [fol[f] EXCEPT !.pc = "wait"] \in FolRec
          /\ \A last \in BOOLEAN :
               [fol[f] EXCEPT !.pc = "yield", !.chunk = rest, !.sent = Len(job[j].logs),
                              !.last = last] \in FolRec
      BY ZenonT(40), <3>2, <3>3 DEF FolRec, FolPC
    <3> QED
      BY <2>3, <3>4 DEF Look
  <2>4. CASE Yield(f)
    <3>1. fol[f].out \o fol[f].chunk \in Seq(Chunks)
      BY ConcatProperties DEF FolRec
    <3>2. fol'[f] = [fol[f] EXCEPT !.out = @ \o fol[f].chunk, !.chunk = <<>>,
                                   !.pc = IF fol[f].last THEN "return" ELSE "loop"]
      BY <2>4 DEF Yield
    <3>3. fol'[f] \in FolRec
      <4>1. fol[f] \in FolRec /\ <<>> \in Seq(Chunks)
        BY EmptySeq
      <4> HIDE DEF TypeOK
      <4> QED
        BY <3>1, <3>2, <4>1 DEF FolRec, FolPC
    <3> QED
      BY <2>4, <3>3 DEF Yield
  <2>5. CASE Return(f)
    BY <2>5, IdleType DEF Return
  <2>6. CASE WakeUp(f)
    BY ZenonT(40), <2>6 DEF WakeUp, FolRec, FolPC
  <2>7. CASE Disconnect(f)
    BY <2>7, IdleType DEF Disconnect
  <2> QED
    BY <2>1, <2>2, <2>3, <2>4, <2>5, <2>6, <2>7 DEF Generator
<1>2. UNCHANGED <<registry, submitted, job, worker, now, order>>
  BY DEF Follow, Generator, Begin, Look, Yield, Return, WakeUp, Disconnect
<1> QED
  BY <1>1, <1>2 DEF TypeOK

-----------------------------------------------------------------------------
(* The dict and the history *)

LEMMA SubmissionInit == Init => Submission
  BY FS_EmptySet, EmptySeq DEF Init, Submission

LEMMA SubmissionStep ==
  ASSUME TypeOK, Submission, [Next]_vars
  PROVE  Submission'
<1>1. ASSUME NEW j \in Jobs, Submit(j) PROVE Submission'
  <2>1. /\ IsFiniteSet((registry \ Evicted) \cup {j})
        /\ registry' = (registry \ Evicted) \cup {j}
    <3>1. IsFiniteSet(registry \ Evicted)
      BY FS_Subset DEF Submission
    <3> QED
      BY <1>1, <3>1, FS_AddElement DEF Submit
  <2>2. /\ submitted' = Append(submitted, j) /\ submitted \in Seq(Jobs)
        /\ Len(submitted) \in Nat /\ DOMAIN submitted = 1 .. Len(submitted)
        /\ DOMAIN submitted' = 1 .. Len(submitted) + 1
        /\ \A m \in DOMAIN submitted : submitted'[m] = submitted[m]
        /\ submitted'[Len(submitted) + 1] = j
    BY <1>1, AppendProperties, LenProperties DEF Submit, TypeOK
  <2>3. /\ worker' = [worker EXCEPT ![j] = "registered"]
        /\ worker[j] = "new" /\ worker \in [Jobs -> Worker]
    BY <1>1 DEF Submit, TypeOK
  <2>4. \A k \in registry' : worker'[k] # "new"
    BY <2>1, <2>3 DEF Submission, TypeOK
  <2>5. \A k \in Jobs : worker'[k] # "new" <=> \E m \in DOMAIN submitted' : submitted'[m] = k
    BY <2>2, <2>3 DEF Submission
  <2>6. \A m, n \in DOMAIN submitted' : submitted'[m] = submitted'[n] => m = n
    <3>1. \A m \in DOMAIN submitted : submitted[m] # j
      BY <2>3 DEF Submission
    <3> QED
      BY <2>2, <3>1 DEF Submission
  <2> QED
    BY <2>1, <2>4, <2>5, <2>6 DEF Submission
<1>2. CASE /\ UNCHANGED <<registry, submitted>>
           /\ \A j \in Jobs : worker'[j] = "new" <=> worker[j] = "new"
  BY <1>2 DEF Submission, TypeOK
<1>3. \/ \E j \in Jobs : Submit(j)
      \/ /\ UNCHANGED <<registry, submitted>>
         /\ \A j \in Jobs : worker'[j] = "new" <=> worker[j] = "new"
  BY DEF TypeOK, Next, vars, StartThread, StartFails, AppendLog, Finish, Follow, Generator,
         Begin, Look, Yield, Return, WakeUp, Disconnect, SetClockBack
<1> QED
  BY <1>1, <1>2, <1>3

LEMMA OutcomeInit == Init => Outcome
  BY DEF Init, Outcome, NewJob

\* The outcome of a job, its thread's end and the history come together.
LEMMA OutcomeStep ==
  ASSUME TypeOK, Outcome, [Next]_vars
  PROVE  Outcome'
<1> USE DEF Outcome
<1>1. ASSUME NEW j \in Jobs, Finish(j) PROVE Outcome'
  <2>1. /\ \A k \in Jobs \ {j} : job'[k] = job[k] /\ worker'[k] = worker[k]
        /\ job'[j].state # "running" /\ worker'[j] = "over"
    <3>1. PICK state \in {"done", "failed"} :
                job' = [job EXCEPT ![j].state = state, ![j].finished_at = now + 1]
      BY <1>1 DEF Finish
    <3>2. job' = [job EXCEPT ![j] = [job[j] EXCEPT !.state = state, !.finished_at = now + 1]]
      BY <3>1 DEF TypeOK
    <3>3. job[j] \in JobRec
      BY DEF TypeOK
    <3>4. [job[j] EXCEPT !.state = state, !.finished_at = now + 1].state = state
      BY <3>3 DEF JobRec
    <3> QED
      BY <1>1, <3>2, <3>4 DEF Finish, TypeOK
  <2>2. \A k \in Jobs : k = j \/ (\E m \in DOMAIN order : order[m] = k)
                        => \E m \in DOMAIN order' : order'[m] = k
    <3>1. /\ DOMAIN order = 1 .. Len(order) /\ Len(order) \in Nat
          /\ DOMAIN order' = 1 .. Len(order) + 1
          /\ \A m \in DOMAIN order : order'[m] = order[m]
          /\ order'[Len(order) + 1] = j
      BY <1>1, AppendProperties, LenProperties DEF Finish, TypeOK
    <3> QED
      BY <3>1
  <2> QED
    BY <2>1, <2>2
<1>2. ASSUME NEW j \in Jobs, AppendLog(j) PROVE Outcome'
  <2>1. PICK c \in Chunks : job' = [job EXCEPT ![j].logs = Append(@, c)]
    BY <1>2 DEF AppendLog
  <2>2. \A k \in Jobs : job'[k].state = job[k].state
    BY <2>1 DEF TypeOK, JobRec
  <2> QED
    BY <1>2, <2>2 DEF AppendLog
<1>3. ASSUME NEW j \in Jobs, Submit(j) \/ StartThread(j) \/ StartFails(j) PROVE Outcome'
  BY <1>3 DEF Submit, StartThread, StartFails, TypeOK
<1>4. CASE UNCHANGED <<job, worker, order>>
  BY <1>4
<1>5. \/ \E j \in Jobs : \/ Submit(j) \/ StartThread(j) \/ StartFails(j)
                         \/ AppendLog(j) \/ Finish(j)
      \/ UNCHANGED <<job, worker, order>>
  BY DEF Next, vars, Follow, Generator, Begin, Look, Yield, Return, WakeUp, Disconnect,
         SetClockBack
<1> QED
  BY <1>1, <1>2, <1>3, <1>4, <1>5

-----------------------------------------------------------------------------
(* The followers *)

\* What has been read of a log does not change when the log grows.
LEMMA ReadPrefix ==
  ASSUME NEW S, NEW log \in Seq(S), NEW c \in S, NEW n \in 0 .. Len(log)
  PROVE  SubSeq(Append(log, c), 1, n) = SubSeq(log, 1, n)
<1>1. /\ Append(log, c) \in Seq(S) /\ Len(Append(log, c)) = Len(log) + 1
      /\ \A i \in 1 .. Len(log) : Append(log, c)[i] = log[i]
      /\ Len(log) \in Nat
      /\ \A i \in 1 .. Len(log) : log[i] \in S
  BY AppendProperties, LenProperties, ElementOfSeq
<1>2. /\ SubSeq(Append(log, c), 1, n) \in Seq(S)
      /\ Len(SubSeq(Append(log, c), 1, n)) = n
      /\ \A i \in 1 .. n : SubSeq(Append(log, c), 1, n)[i] = Append(log, c)[i]
  <2>1. \A i \in 1 .. n : Append(log, c)[i] \in S
    BY <1>1
  <2> QED
    BY <1>1, <2>1, SubSeqProperties
<1>3. /\ SubSeq(log, 1, n) \in Seq(S)
      /\ Len(SubSeq(log, 1, n)) = n
      /\ \A i \in 1 .. n : SubSeq(log, 1, n)[i] = log[i]
  <2>1. \A i \in 1 .. n : log[i] \in S
    BY <1>1
  <2> QED
    BY <1>1, <2>1, SubSeqProperties
<1> QED
  BY <1>1, <1>2, <1>3, SeqEqual

LEMMA IdleFollows ==
  ASSUME NEW result, NEW jobs
  PROVE  Follows(IdleFollower(result), jobs)
  BY DEF Follows, IdleFollower

LEMMA FollowingInit == Init => Following
  BY IdleFollows DEF Init, Following

\* A follower that is told to look again is where it was.
LEMMA NotifiedFollows ==
  ASSUME TypeOK, NEW j \in Jobs, NEW f \in Followers, NEW jobs,
         Follows(fol[f], jobs)
  PROVE  Follows(Notified(j)[f], jobs)
<1>1. CASE Notified(j)[f] = fol[f]
  BY <1>1
<1>2. CASE fol[f].pc = "wait" /\ Notified(j)[f] = [fol[f] EXCEPT !.pc = "loop"]
  <2>1. fol[f] \in FolRec
    BY DEF TypeOK
  <2> QED
    BY <1>2, <2>1 DEF Follows, FolRec, FolPC
<1> QED
  BY <1>1, <1>2 DEF Notified

LEMMA FollowingJobStep ==
  ASSUME TypeOK, Outcome, Following, NEW j \in Jobs,
         Submit(j) \/ StartThread(j) \/ StartFails(j) \/ AppendLog(j) \/ Finish(j)
  PROVE  Following'
<1>1. CASE AppendLog(j)
  <2>1. PICK c \in Chunks : job' = [job EXCEPT ![j].logs = Append(@, c)]
    BY <1>1 DEF AppendLog
  <2>2. job[j].state = "running"
    BY <1>1 DEF AppendLog, Outcome
  <2>3. ASSUME NEW f \in Followers PROVE Follows(fol[f], job')
    <3>1. CASE fol[f].job = j
      <4>1. job[j] \in JobRec /\ job[j].logs \in Seq(Chunks) /\ fol[f].sent \in Nat
        BY DEF TypeOK, JobRec, FolRec
      <4>2. /\ job'[j].logs = Append(job[j].logs, c) /\ job'[j].state = job[j].state
        BY <2>1, <4>1 DEF TypeOK, JobRec
      <4>3. Len(job'[j].logs) = Len(job[j].logs) + 1 /\ Len(job[j].logs) \in Nat
        BY <4>1, <4>2, AppendProperties, LenProperties
      <4>4. fol[f].sent <= Len(job[j].logs)
              => SubSeq(job'[j].logs, 1, fol[f].sent) = SubSeq(job[j].logs, 1, fol[f].sent)
        BY <4>1, <4>2, <4>3, ReadPrefix
      <4>5. Follows(fol[f], job)
        BY DEF Following
      <4>6. fol[f].sent <= Len(job[j].logs) => fol[f].sent <= Len(job'[j].logs)
        BY <4>1, <4>3
      <4> QED
        BY <2>2, <3>1, <4>2, <4>4, <4>5, <4>6, Zenon DEF Follows
    <3>2. CASE fol[f].job # j
      BY <2>1, <3>2 DEF Following, Follows, TypeOK
    <3> QED
      BY <3>1, <3>2
  <2> QED
    BY <1>1, <2>3, NotifiedFollows DEF AppendLog, Following
<1>2. CASE Finish(j)
  <2>1. PICK state \in {"done", "failed"} :
              job' = [job EXCEPT ![j].state = state, ![j].finished_at = now + 1]
    BY <1>2 DEF Finish
  <2>2. /\ \A k \in Jobs : job'[k].logs = job[k].logs
        /\ \A k \in Jobs : job[k].state # "running" => job'[k].state # "running"
    <3>1. job' = [job EXCEPT ![j] = [job[j] EXCEPT !.state = state, !.finished_at = now + 1]]
      BY <2>1 DEF TypeOK
    <3>2. job[j] \in JobRec
      BY DEF TypeOK
    <3> QED
      BY <3>1, <3>2 DEF TypeOK, JobRec
  <2>3. ASSUME NEW f \in Followers PROVE Follows(fol[f], job')
    BY <2>2 DEF Following, Follows
  <2> QED
    BY <1>2, <2>3, NotifiedFollows DEF Finish, Following
<1>3. CASE Submit(j) \/ StartThread(j) \/ StartFails(j)
  BY <1>3 DEF Submit, StartThread, StartFails, Following
<1> QED
  BY <1>1, <1>2, <1>3

LEMMA FollowingStep ==
  ASSUME TypeOK, Following, NEW f \in Followers,
         \/ \E j \in Jobs : Follow(f, j)
         \/ Generator(f) \/ WakeUp(f) \/ Disconnect(f)
  PROVE  Following'
<1> DEFINE r == fol[f]
           j == r.job
           logs == job[j].logs
<1>0. /\ r \in FolRec /\ Follows(r, job)
      /\ r.sent \in Nat /\ r.out \in Seq(Chunks) /\ r.chunk \in Seq(Chunks)
  BY DEF TypeOK, Following, FolRec
<1>1. Follows(fol'[f], job)
  <2>1. ASSUME NEW k \in Jobs, Follow(f, k) PROVE Follows(fol'[f], job)
    <3>1. CASE fol'[f] = [r EXCEPT !.pc = "accepted", !.job = k, !.result = "none"]
      <4>1. /\ fol'[f].pc = "accepted" /\ fol'[f].job = k /\ fol'[f].sent = r.sent
            /\ fol'[f].out = r.out /\ fol'[f].chunk = r.chunk /\ fol'[f].result = "none"
        BY <1>0, <3>1 DEF FolRec
      <4>2. /\ r.pc = "idle" /\ r.out = <<>> /\ r.chunk = <<>> /\ r.sent = 0
        BY <1>0, <2>1 DEF Follow, Follows
      <4>3. job[k].logs \in Seq(Chunks) /\ Len(job[k].logs) \in Nat
        BY LenProperties DEF TypeOK, JobRec
      <4>4. SubSeq(job[k].logs, 1, 0) = <<>> /\ <<>> \o <<>> = <<>>
        BY <4>3, SubSeqEmpty, EmptySeq, ConcatEmptySeq
      <4> QED
        BY <4>1, <4>2, <4>3, <4>4 DEF Follows
    <3> QED
      BY <2>1, <3>1, IdleFollows DEF Follow, TypeOK
  <2>2. CASE Begin(f)
    <3>1. CASE fol'[f] = [r EXCEPT !.pc = "loop"]
      <4>1. /\ fol'[f].pc = "loop" /\ fol'[f].job = j /\ fol'[f].sent = r.sent
            /\ fol'[f].out = r.out /\ fol'[f].chunk = r.chunk /\ fol'[f].result = r.result
        BY <1>0, <3>1 DEF FolRec
      <4>2. r.pc = "accepted"
        BY <2>2 DEF Begin
      <4> QED
        BY <1>0, <4>1, <4>2 DEF Follows
    <3> QED
      BY <2>2, <3>1, IdleFollows DEF Begin, TypeOK
  <2>3. CASE Look(f)
    <3>1. j \in Jobs /\ logs \in Seq(Chunks) /\ Len(logs) \in Nat
      BY <1>0, <2>3, LenProperties DEF Look, Follows, TypeOK, JobRec
    <3>2. CASE fol'[f] = [r EXCEPT !.pc = "wait"]
      <4>1. /\ fol'[f].pc = "wait" /\ fol'[f].job = j /\ fol'[f].sent = r.sent
            /\ fol'[f].out = r.out /\ fol'[f].chunk = r.chunk
            /\ fol'[f].result = r.result
        BY <1>0, <3>2 DEF FolRec
      <4>2. r.pc = "loop"
        BY <2>3 DEF Look
      <4> QED
        BY <1>0, <4>1, <4>2 DEF Follows
    <3>3. CASE fol'[f] = [r EXCEPT !.pc = "yield",
                            !.chunk = SubSeq(logs, r.sent + 1, Len(logs)),
                            !.sent = Len(logs), !.last = job[j].state # "running"]
      <4>1. /\ r.sent <= Len(logs) /\ r.chunk = <<>> /\ r.result = "none"
            /\ r.out \o <<>> = SubSeq(logs, 1, r.sent)
        BY <1>0, <2>3 DEF Look, Follows
      <4>2. r.out = SubSeq(logs, 1, r.sent)
        BY <1>0, <4>1, ConcatEmptySeq
      <4>3. SubSeq(logs, 1, r.sent) \o SubSeq(logs, r.sent + 1, Len(logs))
              = SubSeq(logs, 1, Len(logs))
        <5>1. 1 \in 1 .. Len(logs) + 1 /\ r.sent \in 1 - 1 .. Len(logs)
                /\ Len(logs) \in r.sent .. Len(logs)
          BY <1>0, <3>1, <4>1
        <5> HIDE DEF logs, r
        <5> QED
          BY <3>1, <5>1, ConcatAdjacentSubSeq
      <4>4. /\ fol'[f].out = r.out /\ fol'[f].pc = "yield" /\ fol'[f].job = j
            /\ fol'[f].chunk = SubSeq(logs, r.sent + 1, Len(logs))
            /\ fol'[f].sent = Len(logs) /\ fol'[f].last = (job[j].state # "running")
            /\ fol'[f].result = "none"
        BY <1>0, <3>3, <4>1 DEF FolRec
      <4>5. /\ fol'[f].out \o fol'[f].chunk = SubSeq(logs, 1, fol'[f].sent)
            /\ fol'[f].last => job[j].state # "running"
        BY <4>2, <4>3, <4>4
      <4>6. Len(logs) <= Len(logs)
        BY <3>1
      <4> QED
        BY <3>1, <4>4, <4>5, <4>6, Zenon DEF Follows
    <3> QED
      BY <2>3, <3>2, <3>3 DEF Look, TypeOK
  <2>4. CASE Yield(f)
    <3>1. fol'[f] = [r EXCEPT !.out = @ \o r.chunk, !.chunk = <<>>,
                              !.pc = IF r.last THEN "return" ELSE "loop"]
      BY <2>4 DEF Yield, TypeOK
    <3>2. /\ fol'[f].out = r.out \o r.chunk /\ fol'[f].chunk = <<>> /\ fol'[f].job = j
          /\ fol'[f].pc = IF r.last THEN "return" ELSE "loop"
          /\ fol'[f].sent = r.sent /\ fol'[f].result = r.result
      BY <1>0, <3>1 DEF FolRec
    <3>3. (r.out \o r.chunk) \o <<>> = r.out \o r.chunk
      BY <1>0, ConcatProperties, ConcatEmptySeq
    <3>4. r.pc = "yield"
      BY <2>4 DEF Yield
    <3>5. CASE r.last
      BY <1>0, <3>2, <3>3, <3>4, <3>5 DEF Follows
    <3>6. CASE ~r.last
      BY <1>0, <3>2, <3>3, <3>4, <3>6 DEF Follows
    <3> QED
      BY <3>5, <3>6
  <2>5. CASE Return(f) \/ Disconnect(f)
    BY <2>5, IdleFollows DEF Return, Disconnect, TypeOK
  <2>6. CASE WakeUp(f)
    <3>1. fol'[f] = [r EXCEPT !.pc = "loop"]
      BY <2>6 DEF WakeUp, TypeOK
    <3>2. /\ fol'[f].pc = "loop" /\ fol'[f].job = j /\ fol'[f].sent = r.sent
          /\ fol'[f].out = r.out /\ fol'[f].chunk = r.chunk /\ fol'[f].result = r.result
      BY <1>0, <3>1 DEF FolRec
    <3>3. r.pc = "wait"
      BY <2>6 DEF WakeUp
    <3> QED
      BY <1>0, <3>2, <3>3 DEF Follows
  <2> QED
    BY <2>1, <2>2, <2>3, <2>4, <2>5, <2>6 DEF Generator
<1>2. /\ job' = job
      /\ \A g \in Followers \ {f} : fol'[g] = fol[g]
  BY DEF Follow, Generator, Begin, Look, Yield, Return, WakeUp, Disconnect, TypeOK
<1> QED
  BY <1>1, <1>2 DEF Following

-----------------------------------------------------------------------------
(* The invariant *)

LEMMA InvInit == Init => IInv
  BY TypesInit, SubmissionInit, OutcomeInit, FollowingInit DEF IInv

LEMMA InvStep == IInv /\ [Next]_vars => IInv'
<1> SUFFICES ASSUME IInv, [Next]_vars PROVE IInv'
  OBVIOUS
<1>1. TypeOK' /\ Following'
  <2>1. ASSUME NEW j \in Jobs,
               Submit(j) \/ StartThread(j) \/ StartFails(j) \/ AppendLog(j) \/ Finish(j)
        PROVE  TypeOK' /\ Following'
    BY <2>1, JobTypes, FollowingJobStep DEF IInv
  <2>2. ASSUME NEW f \in Followers,
               \/ \E j \in Jobs : Follow(f, j)
               \/ Generator(f) \/ WakeUp(f) \/ Disconnect(f)
        PROVE  TypeOK' /\ Following'
    BY <2>2, FollowerTypes, FollowingStep DEF IInv
  <2>3. CASE SetClockBack
    BY <2>3 DEF SetClockBack, IInv, TypeOK, Following
  <2>4. CASE UNCHANGED vars
    BY <2>4 DEF vars, IInv, TypeOK, Following
  <2> QED
    BY <2>1, <2>2, <2>3, <2>4 DEF Next
<1> QED
  BY <1>1, SubmissionStep, OutcomeStep DEF IInv

LEMMA Invariant == Spec => []IInv
  BY InvInit, InvStep, PTL DEF Spec

\* Every variable keeps its type and a job that is over has a time it finished at.
THEOREM RegistryTypes == Spec => []TypeOK
<1>1. IInv => TypeOK
  BY DEF IInv
<1> QED
  BY <1>1, Invariant, PTL

-----------------------------------------------------------------------------
(* Ranks *)

\* Where each of c elements has another number below c, n of the numbers are below n.
LEMMA LowRanks ==
  ASSUME NEW S, IsFiniteSet(S), NEW f \in [S -> 0 .. Cardinality(S) - 1],
         \A x, y \in S : f[x] = f[y] => x = y,
         NEW n \in 0 .. Cardinality(S)
  PROVE  Cardinality({x \in S : f[x] < n}) = n
<1> DEFINE c == Cardinality(S)
           Low == {x \in S : f[x] < n}
           g == [x \in Low |-> f[x]]
<1>1. c \in Nat /\ n \in Nat /\ n <= c
  BY FS_CardinalityType
<1>2. f \in Surjection(S, 0 .. c - 1)
  <2>1. IsFiniteSet(0 .. c - 1) /\ Cardinality(0 .. c - 1) = c
    <3> HIDE DEF c
    <3> QED
      BY <1>1, FS_Interval
  <2>2. f \in Injection(S, 0 .. c - 1)
    BY DEF Injection, IsInjective
  <2> QED
    BY <2>1, <2>2, FS_Injection
<1>3. g \in Bijection(Low, 0 .. n - 1)
  <2>1. \A k \in 0 .. c - 1 : \E x \in S : f[x] = k
    BY <1>2 DEF Surjection
  <2>2. \A x \in S : f[x] \in 0 .. c - 1
    OBVIOUS
  <2> HIDE DEF c
  <2>3. g \in [Low -> 0 .. n - 1]
    BY <1>1, <2>2
  <2>4. \A x, y \in Low : g[x] = g[y] => x = y
    OBVIOUS
  <2>5. \A k \in 0 .. n - 1 : \E x \in Low : g[x] = k
    <3> SUFFICES ASSUME NEW k \in 0 .. n - 1 PROVE \E x \in Low : g[x] = k
      OBVIOUS
    <3>1. PICK x \in S : f[x] = k
      BY <1>1, <2>1
    <3>2. x \in Low /\ g[x] = k
      BY <1>1, <3>1
    <3> QED
      BY <3>2
  <2> QED
    BY <2>3, <2>4, <2>5 DEF Bijection, Injection, Surjection, IsInjective
<1>4. IsFiniteSet(Low)
  BY FS_Subset
<1>5. Cardinality(0 .. n - 1) = n
  BY <1>1, FS_Interval
<1>6. ExistsBijection(Low, 0 .. n - 1)
  BY <1>3 DEF ExistsBijection
<1> HIDE DEF Low
<1>7. Cardinality(Low) = n
  BY <1>4, <1>5, <1>6, FS_Bijection
<1> QED
  BY <1>7 DEF Low

-----------------------------------------------------------------------------
(* Evictions *)

\* The sort of _evict_finished is a strict total order of the finished jobs.
LEMMA SortIsTotal ==
  ASSUME IInv
  PROVE  /\ \A x \in Finished : ~SortedBefore(x, x)
         /\ \A x, y \in Finished : x # y => SortedBefore(x, y) \/ SortedBefore(y, x)
         /\ \A x, y, z \in Finished : SortedBefore(x, y) /\ SortedBefore(y, z)
                                       => SortedBefore(x, z)
<1>1. /\ \A x \in Finished : x \in Jobs /\ job[x].finished_at \in Nat
      /\ DOMAIN submitted = 1 .. Len(submitted) /\ Len(submitted) \in Nat
      /\ \A m, n \in DOMAIN submitted : submitted[m] = submitted[n] => m = n
      /\ \A x \in Finished : \E m \in DOMAIN submitted : submitted[m] = x
  BY LenProperties DEF IInv, TypeOK, JobRec, Submission, Finished
<1>2. ASSUME NEW x \in Finished PROVE ~SortedBefore(x, x)
  BY <1>1 DEF SortedBefore
<1>3. ASSUME NEW x \in Finished, NEW y \in Finished, x # y
      PROVE  SortedBefore(x, y) \/ SortedBefore(y, x)
  <2>1. PICK m \in DOMAIN submitted, n \in DOMAIN submitted :
                submitted[m] = x /\ submitted[n] = y
    BY <1>1
  <2>2. m < n \/ n < m
    BY <1>1, <1>3, <2>1
  <2>3. \/ job[x].finished_at < job[y].finished_at
        \/ job[x].finished_at = job[y].finished_at
        \/ job[y].finished_at < job[x].finished_at
    BY <1>1
  <2> QED
    BY <2>1, <2>2, <2>3 DEF SortedBefore
<1>4. ASSUME NEW x \in Finished, NEW y \in Finished, NEW z \in Finished,
             SortedBefore(x, y), SortedBefore(y, z)
      PROVE  SortedBefore(x, z)
  <2>1. CASE job[x].finished_at < job[y].finished_at \/ job[y].finished_at < job[z].finished_at
    BY <1>1, <1>4, <2>1 DEF SortedBefore
  <2>2. CASE job[x].finished_at = job[y].finished_at /\ job[y].finished_at = job[z].finished_at
    <3>1. PICK m \in DOMAIN submitted, n \in DOMAIN submitted :
                  m < n /\ submitted[m] = x /\ submitted[n] = y
      BY <1>1, <1>4, <2>2 DEF SortedBefore
    <3>2. PICK u \in DOMAIN submitted, v \in DOMAIN submitted :
                  u < v /\ submitted[u] = y /\ submitted[v] = z
      BY <1>1, <1>4, <2>2 DEF SortedBefore
    <3>3. m < v
      BY <1>1, <3>1, <3>2
    <3> QED
      BY <2>2, <3>1, <3>2, <3>3 DEF SortedBefore
  <2>3. \/ job[x].finished_at < job[y].finished_at \/ job[y].finished_at < job[z].finished_at
        \/ job[x].finished_at = job[y].finished_at /\ job[y].finished_at = job[z].finished_at
    BY <1>4 DEF SortedBefore
  <2> QED
    BY <2>1, <2>2, <2>3
<1> QED
  BY <1>2, <1>3, <1>4

LEMMA FinishedIsFinite ==
  ASSUME IInv
  PROVE  IsFiniteSet(Finished) /\ Cardinality(Finished) \in Nat
<1>1. IsFiniteSet(Finished)
  BY FS_Subset DEF IInv, Submission, Finished
<1> QED
  BY <1>1, FS_CardinalityType

\* Each finished job has a rank of its own.
LEMMA RanksDiffer ==
  ASSUME IInv
  PROVE  /\ \A x \in Finished : Rank(x) \in 0 .. Cardinality(Finished) - 1
         /\ \A x, y \in Finished : SortedBefore(x, y) => Rank(x) < Rank(y)
         /\ \A x, y \in Finished : Rank(x) = Rank(y) => x = y
<1> DEFINE Before(x) == {k \in Finished : SortedBefore(k, x)}
<1>1. \A x : Rank(x) = Cardinality(Before(x)) /\ Before(x) \in SUBSET Finished
  BY DEF Rank
<1>2. \A x : IsFiniteSet(Before(x)) /\ Rank(x) \in Nat
  <2>1. \A x : IsFiniteSet(Before(x))
    BY <1>1, FinishedIsFinite, FS_Subset
  <2> HIDE DEF Before
  <2> QED
    BY <1>1, <2>1, FS_CardinalityType
<1>3. ASSUME NEW x \in Finished PROVE Rank(x) \in 0 .. Cardinality(Finished) - 1
  <2>1. Before(x) # Finished
    BY SortIsTotal
  <2> HIDE DEF Before
  <2>2. Rank(x) <= Cardinality(Finished) /\ Rank(x) # Cardinality(Finished)
    BY <1>1, <2>1, FinishedIsFinite, FS_Subset
  <2> QED
    BY <1>2, <2>2, FinishedIsFinite
<1>4. ASSUME NEW x \in Finished, NEW y \in Finished, SortedBefore(x, y)
      PROVE  Rank(x) < Rank(y)
  <2>1. Before(x) \in SUBSET Before(y) /\ Before(x) # Before(y)
    BY <1>4, SortIsTotal
  <2> HIDE DEF Before
  <2>2. Rank(x) <= Rank(y) /\ Rank(x) # Rank(y)
    BY <1>1, <1>2, <2>1, FS_Subset
  <2> QED
    BY <1>2, <2>2
<1>5. ASSUME NEW x \in Finished, NEW y \in Finished, x # y PROVE Rank(x) # Rank(y)
  <2>1. SortedBefore(x, y) \/ SortedBefore(y, x)
    BY <1>5, SortIsTotal
  <2>2. Rank(x) < Rank(y) \/ Rank(y) < Rank(x)
    BY <1>4, <2>1
  <2>3. Rank(x) \in Nat /\ Rank(y) \in Nat
    BY <1>2
  <2> QED
    BY <2>2, <2>3
<1> QED
  BY <1>3, <1>4, <1>5

\* Where something is evicted, MaxFinished finished jobs are left.
LEMMA EvictedLeaves ==
  ASSUME IInv, Evicted # {}
  PROVE  Cardinality(Finished \ Evicted) = MaxFinished
<1> DEFINE c == Cardinality(Finished)
           n == c - MaxFinished
           f == [x \in Finished |-> Rank(x)]
<1>1. c \in Nat /\ n \in 0 .. c
  <2>1. PICK j \in Finished : Rank(j) < n
    BY DEF Evicted
  <2>2. Rank(j) \in 0 .. c - 1
    BY RanksDiffer
  <2>3. c \in Nat
    BY FinishedIsFinite
  <2> HIDE DEF c
  <2> QED
    BY <2>1, <2>2, <2>3
<1>2. Cardinality(Evicted) = n
  <2>1. f \in [Finished -> 0 .. Cardinality(Finished) - 1]
    BY RanksDiffer
  <2>2. \A x, y \in Finished : f[x] = f[y] => x = y
    BY RanksDiffer
  <2>3. Evicted = {x \in Finished : f[x] < n}
    BY DEF Evicted
  <2> HIDE DEF f, n
  <2>4. Cardinality({x \in Finished : f[x] < n}) = n
    BY <1>1, <2>1, <2>2, FinishedIsFinite, LowRanks
  <2> QED
    BY <2>3, <2>4
<1>3. Cardinality(Finished \ Evicted) = c - Cardinality(Evicted)
  <2>1. Finished \cap Evicted = Evicted
    BY DEF Evicted
  <2> DEFINE all  == Finished
             some == Evicted
  <2>2. IsFiniteSet(all) /\ all \cap some = some /\ c = Cardinality(all)
    BY <2>1, FinishedIsFinite
  <2> HIDE DEF all, some, c, n, f
  <2>3. Cardinality(all \ some) = Cardinality(all) - Cardinality(all \cap some)
    BY <2>2, FS_Difference
  <2>4. Cardinality(all \ some) = c - Cardinality(some)
    BY <2>2, <2>3
  <2> QED
    BY <2>4 DEF all, some
<1> HIDE DEF c
<1> QED
  BY <1>1, <1>2, <1>3

\* While the clock runs, what is evicted finished before what is not.
LEMMA EvictedIsOlder ==
  ASSUME IInv, ClockRan, NEW j \in Evicted, NEW k \in Finished \ Evicted
  PROVE  FinishedBefore(j, k)
<1>1. j \in Finished /\ k \in Finished /\ j # k
  BY DEF Evicted
<1>2. SortedBefore(j, k)
  <2>1. SUFFICES ASSUME SortedBefore(k, j) PROVE FALSE
    BY <1>1, SortIsTotal
  <2>2. Rank(k) < Rank(j) /\ Rank(k) \in Nat /\ Rank(j) \in Nat
    <3>1. \A x \in Finished : Rank(x) \in 0 .. Cardinality(Finished) - 1
      BY RanksDiffer
    <3> QED
      BY <1>1, <2>1, <3>1, RanksDiffer
  <2>3. Cardinality(Finished) \in Nat
    BY FinishedIsFinite
  <2> QED
    BY <1>1, <2>2, <2>3 DEF Evicted
<1>3. job[j].finished_at <= job[k].finished_at
      /\ job[j].finished_at \in Nat /\ job[k].finished_at \in Nat
  <2>1. job[j].finished_at \in Nat /\ job[k].finished_at \in Nat
    BY <1>1 DEF Finished, IInv, TypeOK, JobRec
  <2> QED
    BY <1>2, <2>1 DEF SortedBefore
<1>4. PICK m \in DOMAIN order, n \in DOMAIN order : order[m] = j /\ order[n] = k
  BY <1>1 DEF Finished, IInv, Outcome, TypeOK
<1>5. m \in Nat /\ n \in Nat
  BY LenProperties DEF IInv, TypeOK
<1>6. m < n
  BY <1>1, <1>3, <1>4, <1>5 DEF ClockRan
<1> QED
  BY <1>4, <1>6 DEF FinishedBefore

LEMMA EvictionStep ==
  ASSUME IInv, [Next]_vars, NEW j \in registry \ registry'
  PROVE  /\ j \in Finished
         /\ Cardinality(Finished \cap registry') = MaxFinished
         /\ ClockRan => \A k \in Finished \cap registry' : FinishedBefore(j, k)
<1>1. PICK i \in Jobs : Submit(i)
  BY DEF Next, vars, StartThread, StartFails, AppendLog, Finish, Follow, Generator,
         Begin, Look, Yield, Return, WakeUp, Disconnect, SetClockBack
<1>2. j \in Evicted
  BY <1>1 DEF Submit
<1>3. i \notin Finished
  BY <1>1 DEF Submit, Finished, IInv, TypeOK, Outcome
<1>4. Finished \cap registry' = Finished \ Evicted
  BY <1>1, <1>3 DEF Submit, Finished
<1> QED
  BY <1>2, <1>4, EvictedLeaves, EvictedIsOlder DEF Evicted

\* A submit drops only finished jobs and leaves MaxFinished of them, the newest as long
\* as nobody sets the clock back (_evict_finished).
THEOREM Evictions == Spec => EvictsOldest
<1>1. IInv /\ [Next]_vars =>
        [\A j \in registry \ registry' :
           /\ j \in Finished
           /\ Cardinality(Finished \cap registry') = MaxFinished
           /\ ClockRan => \A k \in Finished \cap registry' : FinishedBefore(j, k)]_vars
  BY EvictionStep
<1> QED
  BY <1>1, Invariant, PTL DEF Spec, EvictsOldest

-----------------------------------------------------------------------------
(* The refinement *)

USE DEF Logs, Over, Reading, Given, Told

LEMMA StreamInit == Init => Stream!Init
  BY DEF Init, Stream!Init, NewJob, IdleFollower

\* Who is told to look again reads what it read.
LEMMA NotifiedReads ==
  ASSUME TypeOK, NEW j \in Jobs, fol' = Notified(j)
  PROVE  Reading' = Reading /\ Given' = Given /\ Told' = Told
<1>1. ASSUME NEW f \in Followers
      PROVE  /\ (fol'[f].pc = "idle") = (fol[f].pc = "idle") /\ fol'[f].job = fol[f].job
             /\ fol'[f].out = fol[f].out /\ fol'[f].result = fol[f].result
  <2>1. fol[f] \in FolRec
    BY DEF TypeOK
  <2>2. CASE fol'[f] = fol[f]
    BY <2>2
  <2>3. CASE fol[f].pc = "wait" /\ fol'[f] = [fol[f] EXCEPT !.pc = "loop"]
    BY <2>1, <2>3 DEF FolRec
  <2> QED
    BY <2>2, <2>3 DEF Notified
<1> QED
  BY <1>1

\* A worker writes and ends; nothing else that jobs do is seen.
LEMMA JobStepIsStream ==
  ASSUME TypeOK, Outcome, NEW j \in Jobs,
         Submit(j) \/ StartThread(j) \/ StartFails(j) \/ AppendLog(j) \/ Finish(j)
  PROVE  [Stream!Next]_Stream!streamVars
<1>1. CASE AppendLog(j)
  <2>1. PICK c \in Chunks : job' = [job EXCEPT ![j].logs = Append(@, c)]
    BY <1>1 DEF AppendLog
  <2>2. j \notin Over
    BY <1>1 DEF AppendLog, Outcome
  <2>3. /\ \A k \in Jobs : job'[k].state = job[k].state
        /\ \A k \in Jobs \ {j} : job'[k].logs = job[k].logs
        /\ job'[j].logs = Append(job[j].logs, c)
    BY <2>1 DEF TypeOK, JobRec
  <2>4. Logs' = [Logs EXCEPT ![j] = Append(@, c)] /\ Over' = Over
    BY <2>3
  <2>5. Reading' = Reading /\ Given' = Given /\ Told' = Told
    BY <1>1, NotifiedReads DEF AppendLog
  <2> HIDE DEF Logs, Over, Reading, Given, Told
  <2>6. Stream!Write(j, c)
    BY <2>2, <2>4, <2>5 DEF Stream!Write
  <2> QED
    BY <2>6 DEF Stream!Next
<1>2. CASE Finish(j)
  <2>1. PICK state \in {"done", "failed"} :
              job' = [job EXCEPT ![j].state = state, ![j].finished_at = now + 1]
    BY <1>2 DEF Finish
  <2>2. /\ \A k \in Jobs : job'[k].logs = job[k].logs
        /\ \A k \in Jobs \ {j} : job'[k].state = job[k].state
        /\ job'[j].state # "running"
    <3>1. job' = [job EXCEPT ![j] = [job[j] EXCEPT !.state = state, !.finished_at = now + 1]]
      BY <2>1 DEF TypeOK
    <3>2. job[j] \in JobRec
      BY DEF TypeOK
    <3> QED
      BY <3>1, <3>2 DEF TypeOK, JobRec
  <2>3. Logs' = Logs /\ Over' = Over \cup {j}
    BY <2>2
  <2>4. Reading' = Reading /\ Given' = Given /\ Told' = Told
    BY <1>2, NotifiedReads DEF Finish
  <2> HIDE DEF Logs, Over, Reading, Given, Told
  <2>5. Stream!End(j)
    BY <2>3, <2>4 DEF Stream!End
  <2> QED
    BY <2>5 DEF Stream!Next
<1>3. CASE Submit(j) \/ StartThread(j) \/ StartFails(j)
  BY <1>3 DEF Submit, StartThread, StartFails, Stream!streamVars
<1> QED
  BY <1>1, <1>2, <1>3

\* What is read first of a sequence is no longer than the whole.
LEMMA PrefixIsShorter ==
  ASSUME NEW S, NEW a \in Seq(S), NEW b \in Seq(S), NEW n, Len(a \o b) = n
  PROVE  Len(a) <= n
<1>1. Len(a \o b) = Len(a) + Len(b)
  BY ConcatProperties
<1>2. Len(a) \in Nat /\ Len(b) \in Nat
  BY LenProperties
<1> QED
  BY <1>1, <1>2

\* A follower opens its stream, reads on, and leaves or comes to its end.
LEMMA FollowerStepIsStream ==
  ASSUME TypeOK, Following, NEW f \in Followers,
         \/ \E j \in Jobs : Follow(f, j)
         \/ Generator(f) \/ WakeUp(f) \/ Disconnect(f)
  PROVE  [Stream!Next]_Stream!streamVars
<1> DEFINE r == fol[f]
           q == fol'[f]
<1>0. /\ r \in FolRec /\ Follows(r, job)
      /\ UNCHANGED job
      /\ fol' = [fol EXCEPT ![f] = q]
  BY DEF TypeOK, Following, Follow, Generator, Begin, Look, Yield, Return, WakeUp, Disconnect
<1>1. UNCHANGED <<Logs, Over>>
  BY <1>0
\* The stream ends here, for the reader's part or for want of a job.
<1>2. ASSUME q = IdleFollower("cut") \/ q = IdleFollower("refused")
               \/ q = IdleFollower("broken")
      PROVE  [Stream!Next]_Stream!streamVars
  <2>1. /\ Reading' = [Reading EXCEPT ![f] = None]
        /\ Given' = [Given EXCEPT ![f] = <<>>]
        /\ Told' = [Told EXCEPT ![f] = "cut"]
    <3>1. /\ q.pc = "idle" /\ q.out = <<>> /\ q.result \in {"cut", "refused", "broken"}
      BY <1>2 DEF IdleFollower
    <3>2. \A g \in Followers \ {f} : fol'[g] = fol[g]
      BY <1>0 DEF TypeOK
    <3>3. /\ Reading' = [Reading EXCEPT ![f] = None]
      BY <3>1, <3>2
    <3>4. Given' = [Given EXCEPT ![f] = <<>>]
      BY <3>1, <3>2
    <3>5. Told' = [Told EXCEPT ![f] = "cut"]
      BY <3>1, <3>2
    <3> QED
      BY <3>3, <3>4, <3>5
  <2> HIDE DEF Logs, Over, Reading, Given, Told
  <2>2. Stream!Leave(f)
    BY <1>1, <2>1 DEF Stream!Leave, Stream!Stop
  <2> QED
    BY <2>2 DEF Stream!Next
\* Nothing the reader would notice.
<1>3. ASSUME q.out = r.out, q.result = r.result, q.job = r.job,
             (q.pc = "idle") = (r.pc = "idle")
      PROVE  [Stream!Next]_Stream!streamVars
  <2>1. Reading' = Reading /\ Given' = Given /\ Told' = Told
    BY <1>0, <1>3 DEF TypeOK
  <2> HIDE DEF Logs, Over, Reading, Given, Told
  <2> QED
    BY <1>1, <2>1 DEF Stream!streamVars
<1>4. ASSUME NEW j \in Jobs, Follow(f, j) PROVE [Stream!Next]_Stream!streamVars
  <2>1. CASE q = [r EXCEPT !.pc = "accepted", !.job = j, !.result = "none"]
    <3>1. r.pc = "idle"
      BY <1>4 DEF Follow
    <3>2. q.pc = "accepted" /\ q.job = j /\ q.out = r.out /\ q.result = "none"
      BY <1>0, <2>1 DEF FolRec
    <3>3. /\ Reading[f] = None
          /\ Reading' = [Reading EXCEPT ![f] = j]
          /\ Given' = Given
          /\ Told' = [Told EXCEPT ![f] = "none"]
      BY <1>0, <3>1, <3>2 DEF TypeOK
    <3> HIDE DEF Logs, Over, Reading, Given, Told
    <3>4. Stream!Open(f, j)
      BY <1>1, <3>3 DEF Stream!Open
    <3> QED
      BY <3>4 DEF Stream!Next
  <2> QED
    BY <1>2, <1>4, <2>1 DEF Follow, TypeOK
<1>5. CASE Begin(f)
  <2>1. CASE q = [r EXCEPT !.pc = "loop"]
    <3>1. /\ q.out = r.out /\ q.result = r.result /\ q.job = r.job
          /\ r.pc = "accepted" /\ q.pc = "loop"
      BY <1>0, <1>5, <2>1 DEF Begin, FolRec
    <3> QED
      BY <1>3, <3>1
  <2> QED
    BY <1>2, <1>5, <2>1 DEF Begin, TypeOK
<1>6. CASE Look(f)
  <2>1. /\ q.out = r.out /\ q.result = r.result /\ q.job = r.job
        /\ r.pc = "loop" /\ q.pc \in {"wait", "yield"}
    BY <1>0, <1>6 DEF Look, TypeOK, FolRec
  <2> QED
    BY <1>3, <2>1
<1>7. CASE WakeUp(f)
  <2>1. /\ q.out = r.out /\ q.result = r.result /\ q.job = r.job
        /\ r.pc = "wait" /\ q.pc = "loop"
    BY <1>0, <1>7 DEF WakeUp, TypeOK, FolRec
  <2> QED
    BY <1>3, <2>1
<1>8. CASE Yield(f)
  <2>1. q = [r EXCEPT !.out = @ \o r.chunk, !.chunk = <<>>,
                      !.pc = IF r.last THEN "return" ELSE "loop"]
    BY <1>8 DEF Yield, TypeOK
  <2>2. /\ q.out = r.out \o r.chunk /\ q.result = r.result /\ q.job = r.job
        /\ r.pc = "yield" /\ q.pc = IF r.last THEN "return" ELSE "loop"
    <3>1. r.pc = "yield"
      BY <1>8 DEF Yield
    <3> QED
      BY <1>0, <2>1, <3>1 DEF FolRec
  <2>3. r.job \in Jobs /\ r.job # None
    BY <1>0, <2>2 DEF Follows
  <2>4. /\ Reading' = Reading /\ Reading[f] = r.job /\ Told' = Told
        /\ Given' = [Given EXCEPT ![f] = r.out \o r.chunk]
    <3>1. q.pc \in {"return", "loop"}
      BY <2>2
    <3> QED
      BY <1>0, <2>2, <3>1 DEF TypeOK
  <2>5. r.out \o r.chunk = SubSeq(Logs[r.job], 1, r.sent)
    BY <1>0, <2>2, <2>3 DEF Follows
  <2>6. r.sent \in Len(Given[f]) .. Len(Logs[r.job])
    <3>1. /\ r.out \in Seq(Chunks) /\ r.chunk \in Seq(Chunks) /\ r.sent \in Nat
          /\ job[r.job].logs \in Seq(Chunks) /\ r.sent <= Len(job[r.job].logs)
      BY <1>0, <2>2, <2>3 DEF Follows, FolRec, TypeOK, JobRec
    <3>2. /\ Len(r.out \o r.chunk) = Len(r.out) + Len(r.chunk)
          /\ Len(r.out) \in Nat /\ Len(r.chunk) \in Nat /\ Len(job[r.job].logs) \in Nat
      BY <3>1, ConcatProperties, LenProperties
    <3>3. Len(SubSeq(job[r.job].logs, 1, r.sent)) = r.sent
      <4>1. \A i \in 1 .. r.sent : job[r.job].logs[i] \in Chunks
        BY <3>1, <3>2, ElementOfSeq
      <4> QED
        BY <3>1, <3>2, <4>1, SubSeqProperties
    <3>4. Given[f] = r.out /\ Logs[r.job] = job[r.job].logs
      BY <2>3
    <3>5. Len(r.out \o r.chunk) = r.sent
      BY <2>5, <3>3, <3>4
    <3>6. Len(r.out) <= r.sent
      BY <3>1, <3>5, PrefixIsShorter
    <3> QED
      BY <3>1, <3>2, <3>4, <3>6
  <2> HIDE DEF Logs, Over, Reading, Given, Told
  <2>7. Stream!Read(f)
    BY <1>1, <2>3, <2>4, <2>5, <2>6 DEF Stream!Read
  <2> QED
    BY <2>7 DEF Stream!Next
<1>9. CASE Return(f)
  <2>1. /\ q = IdleFollower("complete") /\ r.pc = "return" /\ r.job \in Jobs
        /\ r.chunk = <<>> /\ r.sent = Len(job[r.job].logs)
        /\ job[r.job].state # "running"
        /\ r.out \o r.chunk = SubSeq(job[r.job].logs, 1, r.sent)
    BY <1>0, <1>9 DEF Return, Follows, TypeOK
  <2>2. r.out = job[r.job].logs
    <3>1. r.out \in Seq(Chunks) /\ job[r.job].logs \in Seq(Chunks)
      BY <1>0, <2>1 DEF FolRec, TypeOK, JobRec
    <3> QED
      BY <2>1, <3>1, ConcatEmptySeq, SubSeqFull
  <2>3. /\ Reading[f] = r.job /\ r.job \in Over /\ Given[f] = Logs[r.job]
        /\ Reading' = [Reading EXCEPT ![f] = None]
        /\ Given' = [Given EXCEPT ![f] = <<>>]
        /\ Told' = [Told EXCEPT ![f] = "complete"]
    <3>1. q.pc = "idle" /\ q.out = <<>> /\ q.result = "complete"
      BY <2>1 DEF IdleFollower
    <3>2. \A g \in Followers \ {f} : fol'[g] = fol[g]
      BY <1>0 DEF TypeOK
    <3>3. Reading[f] = r.job /\ r.job \in Over /\ Given[f] = Logs[r.job]
      BY <2>1, <2>2
    <3>4. Reading' = [Reading EXCEPT ![f] = None]
      BY <3>1, <3>2
    <3>5. Given' = [Given EXCEPT ![f] = <<>>]
      BY <3>1, <3>2
    <3>6. Told' = [Told EXCEPT ![f] = "complete"]
      BY <3>1, <3>2
    <3> QED
      BY <3>3, <3>4, <3>5, <3>6
  <2> HIDE DEF Logs, Over, Reading, Given, Told
  <2>4. Stream!Complete(f)
    BY <1>1, <2>3 DEF Stream!Complete, Stream!Stop
  <2> QED
    BY <2>4 DEF Stream!Next
<1>10. CASE Disconnect(f)
  BY <1>2, <1>10 DEF Disconnect, TypeOK
<1> QED
  BY <1>4, <1>5, <1>6, <1>7, <1>8, <1>9, <1>10 DEF Generator

LEMMA StepIsStream == IInv /\ [Next]_vars => [Stream!Next]_Stream!streamVars
<1> SUFFICES ASSUME IInv, [Next]_vars PROVE [Stream!Next]_Stream!streamVars
  OBVIOUS
<1>1. CASE SetClockBack \/ UNCHANGED vars
  BY <1>1 DEF SetClockBack, vars, Stream!streamVars
<1>2. CASE ~(SetClockBack \/ UNCHANGED vars)
  BY <1>2, JobStepIsStream, FollowerStepIsStream DEF IInv, Next
<1> QED
  BY <1>1, <1>2

\* The registry implements JobStream: whoever follows a job is given its log, in order,
\* nothing twice and nothing left out, and comes to the end only with the whole log of a
\* job that is over, whatever is evicted meanwhile (follow).
THEOREM Streams == Spec => FollowIsStream
  BY StreamInit, StepIsStream, Invariant, PTL DEF Spec, FollowIsStream, Stream!Spec

=============================================================================
