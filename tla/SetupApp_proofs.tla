-------------------------- MODULE SetupApp_proofs --------------------------
(***************************************************************************)
(* Proofs about SetupApp and LimaInstall: for any size of the download, any*)
(* number of faults and either computer, only a verified Lima is ever in   *)
(* place and a run that fails leaves the one it found; one run is at work  *)
(* at a time, the exit code tells how the last one ended, the bar of a     *)
(* wizard only goes back from beyond the end of a step to that end, and    *)
(* its log has every message of the run, in their order.                   *)
(***************************************************************************)
EXTENDS SetupApp, Integers, SequenceTheorems, TLAPS

USE SizeAssumption, FaultAssumption, PlatformAssumption

-----------------------------------------------------------------------------
(* The inductive invariant *)

\* Of the installation: what the run has in its hands is what it takes it for, and the
\* Lima that it found is where it was, or aside.
LimaInv ==
    /\ LimaTypeOK
    /\ InPlaceIsVerified
    /\ FailedRunKeepsLima
    /\ Here("rename") => RightBytes
    /\ Here("extract") => archive = "good"
    /\ inst.pc \in {"verify", "clear", "aside", "movein"} => staged = "new"
    /\ inst.pc \in {"look", "cached", "open", "read", "digest", "rename", "extract", "verify",
                    "clear", "aside"} => tree = inst.had
    /\ inst.pc \in {"movein", "putback"} =>
         tree = "none" /\ (inst.had # "none" => previous = inst.had)

Statuses == {"skipped", "running", "percent", "done", "failed", "reboot"}

\* The largest share there is: of the longest file against one chunk.
Top == 100 * Longest

EventRec  == [step : 1 .. Len(Steps), status : Statuses, says : BOOLEAN, percent : 0 .. Top]
WorkerRec == [pc : {"none", "next", "run", "failed", "reboot", "announce"},
              at : 1 .. Len(Steps)]
ScreenRec == [kind : {"closed", "spinner", "status", "wizard"}, finished : BOOLEAN,
              outcome : 0 .. 2, log : Seq(Nat), done : 0 .. Len(Steps),
              bar : Nat]
ProbeRec  == [pc : {"none", "asking", "answered"}, auto : BOOLEAN, vm : BOOLEAN]

AppTypes ==
    /\ platform \in Platforms /\ recorded \subseteq Remembered /\ vm \in BOOLEAN
    /\ worker \in WorkerRec
    /\ events \in Seq(EventRec \cup {Sentinel})
    /\ screen \in ScreenRec
    /\ app \in [code : 0 .. 2, log : Seq(Nat)]
    /\ probing \in ProbeRec
    /\ last \in Results

\* Who may be at work while the window shows what.
OneAtWork ==
    /\ OneRunAtATime
    /\ probing.pc # "none" => Shows("spinner")
    /\ Installing => worker.pc = "run" /\ Step \in DOMAIN Downloads

\* The outcome of a screen is that of the run it shows, and the exit code, of the last
\* screen that came to its end.
Outcomes ==
    /\ Shows("wizard") => \/ screen.outcome = 0 /\ last \in {"running", "ok"}
                          \/ screen.outcome = 1 /\ last = "failed"
                          \/ screen.outcome = 2 /\ last = "reboot"
    /\ worker.pc \in {"next", "run", "failed", "reboot"} => last = "running"
    /\ Shows("wizard") /\ worker.pc = "none" => last # "running"
    /\ screen.finished => screen.outcome # 0 /\ app.code = screen.outcome
    /\ ~Shows("wizard") => /\ app.code = 0 => last \in {"none", "ok"}
                           /\ app.code = 2 => last = "reboot"

\* The step that comes after an event.
After(e) == IF e.status \in {"running", "percent"} THEN e.step ELSE e.step + 1

\* The queue holds the events of the steps between the one that the screen shows and the
\* one that the worker is at, each step once and in order, and ends with the sentinel.
Queue ==
    /\ \A i \in 1 .. Len(events) :
         events[i] = Sentinel => i = Len(events) /\ worker.pc = "none"
    /\ screen.finished \/ ~Shows("wizard") => events = <<>>
    /\ events # <<>> => events[1] = Sentinel \/ events[1].step = screen.done + 1
    /\ \A i \in 1 .. Len(events), j \in 1 .. Len(events) :
         j = i + 1 => events[j] = Sentinel \/ events[j].step = After(events[i])
    /\ \A i \in 1 .. Len(events), j \in 1 .. Len(events) :
         i < j => events[j] = Sentinel \/ After(events[i]) <= events[j].step
    /\ \A i \in 1 .. Len(events) : events[i] = Sentinel \/ screen.done < events[i].step
    /\ AtWork => /\ screen.done < worker.at
                 /\ \A i \in 1 .. Len(events) : After(events[i]) <= worker.at
                 /\ worker.at = IF events = <<>> THEN screen.done + 1
                                                 ELSE After(events[Len(events)])

\* How much of the present step's download the worker may have told of.
Ceiling == IF worker.pc = "next" \/ inst.pc \in {"look", "cached", "open"} THEN 0
           ELSE IF Here("read") THEN (IF inst.total = 0 THEN 0 ELSE Share(part.n))
           ELSE Top

Percents(e, step) == e # Sentinel /\ e.status = "percent" /\ e.step = step

\* The bar is behind all that is in the queue, and that behind what the worker is at.
Bars ==
    /\ \A i \in 1 .. Len(events) : Percents(events[i], screen.done + 1)
         => screen.bar <= 100 * screen.done + events[i].percent
    /\ \A i \in 1 .. Len(events), j \in 1 .. Len(events) :
         i < j /\ events[i] # Sentinel /\ events[i].status = "percent"
           /\ Percents(events[j], events[i].step)
           => events[i].percent <= events[j].percent
    /\ AtWork => /\ \A i \in 1 .. Len(events) : Percents(events[i], worker.at)
                      => events[i].percent <= Ceiling
                 /\ screen.done + 1 = worker.at => screen.bar <= 100 * screen.done + Ceiling

IInv == LimaInv /\ AppTypes /\ OneAtWork /\ Outcomes /\ Queue /\ Bars

-----------------------------------------------------------------------------
(* The installation of Lima *)

PCs == {"idle", "look", "cached", "open", "read", "digest", "rename", "extract", "verify",
        "clear", "aside", "movein", "putback", "tidy", "done", "failed"}

LEMMA GoesTo ==
  ASSUME inst \in Run, NEW pc \in PCs, GoTo(pc)
  PROVE  /\ inst' \in Run /\ inst'.pc = pc
         /\ inst'.left = inst.left /\ inst'.had = inst.had
<1>1. 0 \in 0 .. Longest + Size
  BY DEF Longest
<1> QED
  BY <1>1 DEF GoTo, Run, PCs

\* A step that only moves on to where nothing is claimed that was not.
LEMMA IdleIs ==
  Idle \in Run /\ Idle.pc = "idle"
  BY DEF Idle, Run, Trees, Longest

LEMMA BeginKeeps ==
  ASSUME LimaInv, NEW job \in {"runtime", "image"}, Begin(job)
  PROVE  LimaInv' /\ inst'.pc \in {"look", "cached"}
<1> USE DEF LimaInv, LimaTypeOK
<1>1. /\ ~Installing
      /\ inst' = [Idle EXCEPT !.job = job, !.had = tree,
                              !.pc = IF job = "runtime" THEN "look" ELSE "cached"]
      /\ UNCHANGED <<part, archive, tree, previous, staged, faults>>
  BY DEF Begin
<1>2. inst' = [pc |-> IF job = "runtime" THEN "look" ELSE "cached", job |-> job, left |-> 0,
               honest |-> TRUE, total |-> 0, had |-> tree, refused |-> FALSE]
  BY <1>1 DEF Idle
<1>3. inst' \in Run
  BY <1>2, IdleIs DEF Run, Idle
<1> QED
  BY <1>1, <1>2, <1>3 DEF InPlaceIsVerified, FailedRunKeepsLima, Here, RightBytes

LEMMA KilledKeeps ==
  ASSUME LimaInv, Killed, faults' \in 0 .. MaxFaults
  PROVE  LimaInv' /\ inst'.pc = "idle"
<1> USE DEF LimaInv, LimaTypeOK
<1>1. Idle \in Run /\ Idle.pc = "idle"
  BY IdleIs
<1>2. /\ inst' = Idle /\ staged' = "none"
      /\ UNCHANGED <<part, archive, tree, previous>>
  BY DEF Killed
<1>3. staged' \in Trees
  BY <1>2 DEF Trees
<1> QED
  BY <1>1, <1>2, <1>3 DEF InPlaceIsVerified, FailedRunKeepsLima, Here, RightBytes

LEMMA DamageKeeps ==
  ASSUME LimaInv, Damage
  PROVE  LimaInv'
<1> USE DEF LimaInv, LimaTypeOK
<1>1. /\ ~Installing /\ faults' \in 0 .. MaxFaults /\ archive' \in {"none", "bad"}
      /\ UNCHANGED <<part, tree, previous, staged, inst>>
  BY DEF Damage, Fault
<1> QED
  BY <1>1 DEF InPlaceIsVerified, FailedRunKeepsLima, Here, RightBytes, Installing

LEMMA RaisesKeeps ==
  ASSUME LimaInv, GiveUp, tree = inst.had, {archive'} \subseteq {"none", archive},
         part' \in {part, NoPart}, tree' = tree, previous' = previous,
         faults' \in 0 .. MaxFaults
  PROVE  LimaInv' /\ inst'.pc = "failed"
<1> USE DEF LimaInv, LimaTypeOK
<1>1. inst' \in Run /\ inst'.pc = "failed" /\ inst'.had = inst.had /\ staged' = "none"
  BY GoesTo DEF GiveUp, PCs
<1>2. staged' \in Trees /\ NoPart \in Part
  BY <1>1 DEF Trees, NoPart, Part, Longest
<1> QED
  BY <1>1, <1>2 DEF InPlaceIsVerified, FailedRunKeepsLima, Here

\* A request is answered: the stream begins.
LEMMA ReadingKeeps ==
  ASSUME LimaInv, Here("open"), NEW left \in 1 .. Size, NEW honest \in BOOLEAN,
         Reading(left, honest), UNCHANGED <<part, archive, tree, previous, staged>>,
         faults' \in 0 .. MaxFaults
  PROVE  LimaInv' /\ inst'.pc = "read"
<1> USE DEF LimaInv, LimaTypeOK
<1>1. /\ inst' \in Run /\ inst'.pc = "read" /\ inst'.had = inst.had
  <2>1. inst \in Run /\ left \in 0 .. Size /\ part.n \in 0 .. Longest
    BY DEF Part
  <2>2. PICK length \in {left, 0} :
          inst' = [inst EXCEPT !.pc = "read", !.left = left, !.honest = honest,
                               !.total = part.n + length]
    BY DEF Reading
  <2>3. part.n + length \in 0 .. Longest + Size
    BY <2>1, <2>2 DEF Longest
  <2> QED
    BY <2>1, <2>2, <2>3 DEF Run
<1>2. tree = inst.had
  BY DEF Here
<1> QED
  BY <1>1, <1>2 DEF InPlaceIsVerified, FailedRunKeepsLima, Here

LEMMA OpenKeeps ==
  ASSUME LimaInv, Open \/ OpenAmiss
  PROVE  LimaInv' /\ UNCHANGED part /\ inst'.pc \in {"read", "failed"}
<1>1. /\ Here("open") /\ tree = inst.had /\ faults' \in 0 .. MaxFaults
      /\ UNCHANGED <<part, archive, tree, previous>>
  <2>1. faults \in 0 .. MaxFaults /\ (Here("open") => tree = inst.had)
    BY DEF LimaInv, LimaTypeOK, Here
  <2>2. /\ Here("open") /\ UNCHANGED <<part, archive, tree, previous>>
        /\ faults' = faults \/ (faults < MaxFaults /\ faults' = faults + 1)
    BY DEF Open, OpenAmiss, Fault
  <2>3. faults' \in 0 .. MaxFaults
    BY <2>1, <2>2
  <2> QED
    BY <2>1, <2>2, <2>3
<1>2. CASE GiveUp
  BY <1>1, <1>2, RaisesKeeps
<1>3. CASE Open /\ ~GiveUp
  <2>1. part.n < Size /\ Reading(Size - part.n, TRUE) /\ UNCHANGED staged
    BY <1>3 DEF Open
  <2>2. Size - part.n \in 1 .. Size
    BY <2>1 DEF LimaInv, LimaTypeOK, Part, Longest
  <2> QED
    BY <1>1, <2>1, <2>2, ReadingKeeps
<1>4. CASE OpenAmiss /\ ~GiveUp
  <2>1. UNCHANGED staged /\ (Reading(Size, part.n = 0) \/ Reading(1, FALSE))
    BY <1>4 DEF OpenAmiss
  <2>2. Size \in 1 .. Size /\ 1 \in 1 .. Size /\ (part.n = 0) \in BOOLEAN
    OBVIOUS
  <2> DEFINE whole == part.n = 0
  <2>3. whole \in BOOLEAN /\ (Reading(Size, whole) \/ Reading(1, FALSE))
    BY <2>1
  <2> HIDE DEF whole
  <2> QED
    BY <1>1, <2>1, <2>2, <2>3, ReadingKeeps
<1> QED
  BY <1>2, <1>3, <1>4

LEMMA ReadChunkKeeps ==
  ASSUME LimaInv, ReadChunk
  PROVE  /\ LimaInv' /\ inst'.pc = "read"
         /\ part.n \in Nat /\ part'.n \in Nat /\ part.n <= part'.n
         /\ inst'.total = inst.total
<1> USE DEF LimaInv, LimaTypeOK
<1>1. /\ inst.pc = "read" /\ inst.left > 0
      /\ part' = [n    |-> IF part.n < Longest THEN part.n + 1 ELSE Longest,
                  good |-> part.good /\ inst.honest]
      /\ inst' = [inst EXCEPT !.left = @ - 1]
      /\ UNCHANGED <<archive, tree, previous, staged, faults>>
  BY DEF ReadChunk, Here
<1>2. part.n \in 0 .. Longest /\ part.good \in BOOLEAN /\ inst.honest \in BOOLEAN
      /\ inst.left \in 0 .. Size /\ Longest \in Nat /\ Longest > 0
  BY DEF Part, Run, Longest
<1>3. /\ inst' \in Run /\ inst'.pc = "read" /\ inst'.total = inst.total
      /\ inst'.had = inst.had
  BY <1>1, <1>2 DEF Run
<1>4. part'.n \in 0 .. Longest /\ part.n <= part'.n
  BY <1>1, <1>2
<1>5. part'.good \in BOOLEAN
  BY <1>1, <1>2
<1>6. part' \in Part
  BY <1>1, <1>4, <1>5 DEF Part
<1> QED
  BY <1>1, <1>2, <1>3, <1>4, <1>6 DEF InPlaceIsVerified, FailedRunKeepsLima, Here

\* The other steps of a download and of an installation.
LEMMA OthersKeep ==
  ASSUME LimaInv,
         \/ Look \/ Cached \/ EndOfStream \/ StreamBreaks \/ Digest \/ RenamePart \/ Extract
         \/ RequireVersion \/ InstallAmiss \/ ClearPrevious \/ SetAside \/ MoveIn
         \/ MoveInFails \/ PutBack \/ PutBackFails \/ Tidy
  PROVE  /\ LimaInv' /\ part' \in {part, NoPart} /\ inst'.pc # "read"
         /\ inst'.pc \in {"look", "cached", "open"} => inst.pc \in {"look", "cached"}
<1> USE DEF LimaInv, LimaTypeOK
<1>0. "done" \in PCs /\ "cached" \in PCs /\ "open" \in PCs /\ "digest" \in PCs
      /\ "rename" \in PCs /\ "extract" \in PCs /\ "verify" \in PCs /\ "clear" \in PCs
      /\ "aside" \in PCs /\ "movein" \in PCs /\ "putback" \in PCs /\ "tidy" \in PCs
      /\ "failed" \in PCs
  BY DEF PCs
<1>1. CASE Look
  <2>1. inst.pc = "look" /\ (GoTo("done") \/ GoTo("cached"))
    BY <1>1 DEF Look, Here
  <2>2. /\ inst' \in Run /\ inst'.pc \in {"done", "cached"} /\ inst'.had = inst.had
    BY <1>0, <2>1, GoesTo
  <2> QED
    BY <1>1, <2>1, <2>2 DEF Look, InPlaceIsVerified, FailedRunKeepsLima, Here
<1>2. CASE Cached
  <2>1. /\ inst.pc = "cached"
        /\ \/ archive = "good" /\ (GoTo("extract") \/ GoTo("done"))
           \/ GoTo("open")
    BY <1>2 DEF Cached, Fetched, Here
  <2>2. /\ inst' \in Run /\ inst'.had = inst.had
        /\ \/ archive = "good" /\ inst'.pc \in {"extract", "done"}
           \/ inst'.pc = "open"
    BY <1>0, <2>1, GoesTo
  <2> QED
    BY <1>2, <2>1, <2>2 DEF Cached, InPlaceIsVerified, FailedRunKeepsLima, Here
<1>3. CASE EndOfStream
  <2>1. inst.pc = "read" /\ inst' \in Run /\ inst'.had = inst.had /\ inst'.pc = "digest"
    BY <1>0, <1>3, GoesTo DEF EndOfStream, Here
  <2> QED
    BY <1>3, <2>1 DEF EndOfStream, InPlaceIsVerified, FailedRunKeepsLima, Here
<1>4. CASE StreamBreaks
  <2>1. /\ inst.pc = "read" /\ faults' \in 0 .. MaxFaults
        /\ UNCHANGED <<part, archive, tree, previous>>
    BY <1>4 DEF StreamBreaks, Fault, Here
  <2>2. tree = inst.had
    BY <2>1
  <2>3. CASE GiveUp
    BY <2>1, <2>2, <2>3, RaisesKeeps
  <2>4. CASE GoTo("digest") /\ UNCHANGED staged
    <3>1. inst' \in Run /\ inst'.had = inst.had /\ inst'.pc = "digest"
      BY <1>0, <2>4, GoesTo
    <3> QED
      BY <2>1, <2>4, <3>1 DEF InPlaceIsVerified, FailedRunKeepsLima, Here
  <2> QED
    BY <1>4, <2>3, <2>4 DEF StreamBreaks
<1>5. CASE Digest
  <2>1. inst.pc = "digest" /\ tree = inst.had /\ UNCHANGED <<tree, previous, faults>>
    BY <1>5 DEF Digest, Here
  <2>2. CASE RightBytes
    <3>1. GoTo("rename") /\ UNCHANGED <<part, archive, staged>>
      BY <1>5, <2>2 DEF Digest
    <3>2. inst' \in Run /\ inst'.had = inst.had /\ inst'.pc = "rename"
      BY <1>0, <3>1, GoesTo
    <3>3. RightBytes'
      BY <2>2, <3>1 DEF RightBytes
    <3> QED
      BY <2>1, <3>1, <3>2, <3>3 DEF InPlaceIsVerified, FailedRunKeepsLima, Here
  <2>3. CASE ~RightBytes
    <3>1. GiveUp /\ part' = NoPart /\ archive' = "none"
      BY <1>5, <2>3 DEF Digest
    <3> QED
      BY <2>1, <3>1, RaisesKeeps
  <2> QED
    BY <2>2, <2>3
<1>6. CASE RenamePart
  <2>1. inst.pc = "rename" /\ RightBytes
    BY <1>6 DEF RenamePart, Here
  <2>2. /\ archive' = "good" /\ part' = NoPart
        /\ GoTo("extract") \/ GoTo("done")
        /\ UNCHANGED <<tree, previous, staged, faults>>
    BY <1>6, <2>1 DEF RenamePart, Fetched
  <2>3. inst' \in Run /\ inst'.had = inst.had /\ inst'.pc \in {"extract", "done"}
    BY <1>0, <2>2, GoesTo
  <2>4. NoPart \in Part
    BY DEF NoPart, Part, Longest
  <2> QED
    BY <2>1, <2>2, <2>3, <2>4 DEF InPlaceIsVerified, FailedRunKeepsLima, Here
<1>7. CASE Extract
  <2>1. inst.pc = "extract" /\ archive = "good"
    BY <1>7 DEF Extract, Here
  <2>2. /\ staged' = "new" /\ GoTo("verify")
        /\ UNCHANGED <<part, archive, tree, previous, faults>>
    BY <1>7, <2>1 DEF Extract
  <2>3. inst' \in Run /\ inst'.had = inst.had /\ inst'.pc = "verify"
    BY <1>0, <2>2, GoesTo
  <2> QED
    BY <2>1, <2>2, <2>3 DEF InPlaceIsVerified, FailedRunKeepsLima, Here, Trees
<1>8. CASE RequireVersion
  <2>1. inst.pc = "verify" /\ inst' \in Run /\ inst'.had = inst.had /\ inst'.pc = "clear"
    BY <1>0, <1>8, GoesTo DEF RequireVersion, Here
  <2> QED
    BY <1>8, <2>1 DEF RequireVersion, InPlaceIsVerified, FailedRunKeepsLima, Here
<1>9. CASE InstallAmiss
  <2>1. /\ tree = inst.had /\ GiveUp /\ faults' \in 0 .. MaxFaults
        /\ UNCHANGED <<part, archive, tree, previous>>
    BY <1>9 DEF InstallAmiss, Fault
  <2> QED
    BY <2>1, RaisesKeeps
<1>10. CASE ClearPrevious
  <2>1. inst.pc = "clear" /\ inst' \in Run /\ inst'.had = inst.had /\ inst'.pc = "aside"
    BY <1>0, <1>10, GoesTo DEF ClearPrevious, Here
  <2>2. /\ previous' \in {"none", previous} /\ faults' \in 0 .. MaxFaults
        /\ UNCHANGED <<part, archive, tree, staged>>
    BY <1>10 DEF ClearPrevious, RemovePrevious, Fault
  <2> QED
    BY <2>1, <2>2 DEF InPlaceIsVerified, FailedRunKeepsLima, Here, Trees
<1>11. CASE SetAside
  <2>1. inst.pc = "aside" /\ tree = inst.had /\ UNCHANGED <<part, archive, faults>>
    BY <1>11 DEF SetAside, Here
  <2>2. CASE GiveUp /\ UNCHANGED <<tree, previous>>
    BY <2>1, <2>2, RaisesKeeps
  <2>3. CASE /\ GoTo("movein") /\ tree' = "none" /\ staged' = staged
             /\ previous' = IF tree = "none" THEN previous ELSE tree
    <3>1. inst' \in Run /\ inst'.had = inst.had /\ inst'.pc = "movein"
      BY <1>0, <2>3, GoesTo
    <3> QED
      BY <2>1, <2>3, <3>1 DEF InPlaceIsVerified, FailedRunKeepsLima, Here, Trees
  <2> QED
    BY <1>11, <2>2, <2>3 DEF SetAside
<1>12. CASE MoveIn
  <2>1. inst.pc = "movein" /\ inst' \in Run /\ inst'.had = inst.had /\ inst'.pc = "tidy"
    BY <1>0, <1>12, GoesTo DEF MoveIn, Here
  <2> QED
    BY <1>12, <2>1 DEF MoveIn, InPlaceIsVerified, FailedRunKeepsLima, Here, Trees
<1>13. CASE MoveInFails
  <2>1. inst.pc = "movein" /\ inst' \in Run /\ inst'.had = inst.had /\ inst'.pc = "putback"
    BY <1>0, <1>13, GoesTo DEF MoveInFails, Here
  <2> QED
    BY <1>13, <2>1 DEF MoveInFails, Fault, InPlaceIsVerified, FailedRunKeepsLima, Here
<1>14. CASE PutBack
  <2>1. inst.pc = "putback" /\ tree = "none" /\ (inst.had # "none" => previous = inst.had)
    BY <1>14 DEF PutBack, Here
  <2>2. inst' \in Run /\ inst'.had = inst.had /\ inst'.pc = "failed" /\ staged' = "none"
    BY <1>0, <1>14, GoesTo DEF PutBack, GiveUp
  <2>3. /\ (tree' = previous /\ previous' = "none") \/ UNCHANGED <<tree, previous>>
        /\ inst.had # "none" => tree' = inst.had
        /\ UNCHANGED <<part, archive, faults>>
    BY <1>14, <2>1 DEF PutBack
  <2> QED
    BY <2>1, <2>2, <2>3 DEF InPlaceIsVerified, FailedRunKeepsLima, Here, Trees
<1>15. CASE PutBackFails
  <2>1. inst.pc = "putback" /\ tree = "none" /\ (inst.had # "none" => previous = inst.had)
    BY <1>15 DEF PutBackFails, Here
  <2>2. /\ inst' = [inst EXCEPT !.pc = "failed", !.refused = TRUE] /\ staged' = "none"
        /\ UNCHANGED <<part, archive, tree, previous>> /\ faults' \in 0 .. MaxFaults
    BY <1>15 DEF PutBackFails, Fault
  <2>3. /\ inst' \in Run /\ inst'.had = inst.had /\ inst'.pc = "failed" /\ inst'.refused
    BY <2>2 DEF Run
  <2> QED
    BY <2>1, <2>2, <2>3 DEF InPlaceIsVerified, FailedRunKeepsLima, Here, Trees
<1>16. CASE Tidy
  <2>1. inst.pc = "tidy" /\ inst' \in Run /\ inst'.had = inst.had /\ inst'.pc = "done"
    BY <1>0, <1>16, GoesTo DEF Tidy, Here
  <2>2. /\ previous' \in {"none", previous} /\ faults' \in 0 .. MaxFaults
        /\ UNCHANGED <<part, archive, tree, staged>>
    BY <1>16 DEF Tidy, RemovePrevious, Fault
  <2> QED
    BY <2>1, <2>2 DEF InPlaceIsVerified, FailedRunKeepsLima, Here, Trees
<1> QED
  BY <1>1, <1>2, <1>3, <1>4, <1>5, <1>6, <1>7, <1>8, <1>9, <1>10, <1>11, <1>12, <1>13, <1>14,
     <1>15, <1>16

-----------------------------------------------------------------------------
(* How much of a download is there *)

LEMMA Quotient ==
  ASSUME NEW a \in Nat, NEW d \in Nat \ {0}
  PROVE  /\ a \div d \in Nat /\ d * (a \div d) \in Nat
         /\ d * (a \div d) <= a /\ a < d * (a \div d) + d
<1>1. /\ a \div d \in Int /\ a % d \in 0 .. d - 1
      /\ a = d * (a \div d) + (a % d)
  OBVIOUS
<1> QED
  BY <1>1

LEMMA QuotientOf ==
  ASSUME NEW a \in Nat, NEW d \in Nat \ {0}, NEW q \in Nat, d * q <= a
  PROVE  q <= a \div d
<1> DEFINE r == a \div d
<1>1. r \in Nat /\ a < d * r + d
  BY Quotient
<1> HIDE DEF r
<1> SUFFICES ASSUME r < q PROVE FALSE
  BY <1>1 DEF r
<1>2. q = r + 1 + (q - r - 1) /\ q - r - 1 \in Nat
  BY <1>1
<1>3. d * q = d * r + d + d * (q - r - 1)
  BY <1>1, <1>2
<1>4. d * (q - r - 1) \in Nat
  BY <1>2
<1> QED
  BY <1>1, <1>3, <1>4

LEMMA ShareOf ==
  ASSUME NEW d \in Nat \ {0}, NEW n \in 0 .. Longest
  PROVE  (100 * n) \div d \in 0 .. Top
<1> DEFINE a == 100 * n
           q == a \div d
<1>1. a \in Nat /\ a <= Top /\ Top \in Nat /\ (100 * n) \div d = q
  BY DEF Top, Longest
<1> HIDE DEF a
<1>2. q \in Nat /\ d * q <= a
  BY <1>1, Quotient
<1> HIDE DEF q
<1>3. q <= d * q
  <2>1. (d - 1) * q \in Nat /\ d * q = q + (d - 1) * q
    BY <1>1, <1>2
  <2> QED
    BY <1>2, <2>1
<1>4. d * q \in Nat
  BY <1>1, <1>2
<1> QED
  BY <1>1, <1>2, <1>3, <1>4

LEMMA ShareRange ==
  ASSUME inst.total \in Nat \ {0}, NEW n \in 0 .. Longest
  PROVE  Share(n) \in 0 .. Top
  BY ShareOf DEF Share

\* More of what is the same total.
LEMMA ShareGrows ==
  ASSUME inst.total \in Nat \ {0}, NEW n \in Nat, NEW m \in Nat, n <= m
  PROVE  Share(n) <= Share(m)
<1> DEFINE a == 100 * n
           b == 100 * m
           d == inst.total
           q == a \div d
<1>1. /\ a \in Nat /\ b \in Nat /\ a <= b /\ d \in Nat \ {0}
      /\ Share(n) = q /\ Share(m) = b \div d
  BY DEF Share
<1> HIDE DEF a, b, d
<1>2. q \in Nat /\ d * q \in Nat /\ d * q <= a
  BY <1>1, Quotient
<1> HIDE DEF q
<1>3. d * q <= b
  BY <1>1, <1>2
<1>4. q <= b \div d
  BY <1>1, <1>2, <1>3, QuotientOf
<1> QED
  BY <1>1, <1>4

LEMMA TopIs ==
  Top \in Nat
  BY DEF Top, Longest

LEMMA CeilingRange ==
  ASSUME LimaInv
  PROVE  Ceiling \in 0 .. Top
<1>1. inst.total \in Nat /\ part.n \in 0 .. Longest
  BY DEF LimaInv, LimaTypeOK, Run, Part, Longest
<1>2. inst.total # 0 => Share(part.n) \in 0 .. Top
  BY <1>1, ShareRange
<1> QED
  BY <1>2, TopIs DEF Ceiling

LEMMA CeilingNext ==
  ASSUME LimaInv'
  PROVE  Ceiling' \in 0 .. Top
<1>1. inst'.total \in Nat /\ part'.n \in 0 .. Longest
  BY DEF LimaInv, LimaTypeOK, Run, Part, Longest
<1>2. inst'.total # 0 => (100 * part'.n) \div inst'.total \in 0 .. Top
  BY <1>1, ShareOf
<1>3. Ceiling' \in {0, (100 * part'.n) \div inst'.total, Top}
      /\ (inst'.total = 0 => Ceiling' \in {0, Top})
  BY DEF Ceiling, Share, Top, Longest
<1> QED
  BY <1>2, <1>3, TopIs

\* A step of a download never lowers how much of it is there, and what it tells of it is
\* just that.
LEMMA WorkingKeeps ==
  ASSUME LimaInv, Installing, worker.pc = "run", worker' = worker, Install \/ Amiss
  PROVE  /\ LimaInv' /\ Ceiling <= Ceiling'
         /\ part'.n > part.n /\ inst.total # 0 => Ceiling' = Share(part'.n)
<1>1. part.n \in 0 .. Longest /\ part.n \in Nat /\ inst.total \in Nat
      /\ Ceiling \in 0 .. Top /\ Top \in Nat
  BY CeilingRange, TopIs DEF LimaInv, LimaTypeOK, Run, Part, Longest
<1>2. CASE ReadChunk
  <2>1. /\ LimaInv' /\ inst'.pc = "read" /\ inst.pc = "read"
        /\ part'.n \in Nat /\ part.n <= part'.n /\ inst'.total = inst.total
    BY <1>2, ReadChunkKeeps DEF ReadChunk, Here
  <2>2. CASE inst.total = 0
    BY <2>1, <2>2 DEF Ceiling, Here
  <2>3. CASE inst.total # 0
    <3>1. Share(part.n) <= Share(part'.n)
      BY <1>1, <2>1, <2>3, ShareGrows
    <3>2. Ceiling = Share(part.n)
      BY <2>1, <2>3 DEF Ceiling, Here
    <3>3. Ceiling' = Share(part'.n)
      BY <2>1, <2>3 DEF Ceiling, Here, Share
    <3> QED
      BY <2>1, <3>1, <3>2, <3>3
  <2> QED
    BY <2>2, <2>3
<1>3. CASE Open \/ OpenAmiss
  <2>1. LimaInv' /\ part' = part /\ inst'.pc \in {"read", "failed"}
    BY <1>3, OpenKeeps
  <2>2. Ceiling = 0
    BY <1>3 DEF Ceiling, Open, OpenAmiss, Here
  <2>3. Ceiling' \in 0 .. Top
    BY <2>1, CeilingNext
  <2> QED
    BY <1>1, <2>1, <2>2, <2>3
<1>4. CASE \/ Look \/ Cached \/ EndOfStream \/ StreamBreaks \/ Digest \/ RenamePart \/ Extract
           \/ RequireVersion \/ InstallAmiss \/ ClearPrevious \/ SetAside \/ MoveIn
           \/ MoveInFails \/ PutBack \/ PutBackFails \/ Tidy
  <2>1. /\ LimaInv' /\ part' \in {part, NoPart} /\ inst'.pc # "read"
        /\ inst'.pc \in {"look", "cached", "open"} => inst.pc \in {"look", "cached"}
    BY <1>4, OthersKeep
  <2>2. ~(part'.n > part.n)
    BY <1>1, <2>1 DEF NoPart
  <2>3. Ceiling <= Ceiling'
    <3>1. CASE inst'.pc \in {"look", "cached", "open"}
      BY <2>1, <3>1 DEF Ceiling
    <3>2. CASE inst'.pc \notin {"look", "cached", "open"}
      <4>1. Ceiling' = Top
        BY <2>1, <3>2 DEF Ceiling, Here, Top
      <4> QED
        BY <1>1, <4>1
    <3> QED
      BY <3>1, <3>2
  <2> QED
    BY <2>1, <2>2, <2>3
<1> QED
  BY <1>2, <1>3, <1>4 DEF Install, Amiss

-----------------------------------------------------------------------------
(* The queue and the bar *)

LEMMA AppendIs ==
  ASSUME NEW S, NEW s \in Seq(S), NEW e \in S
  PROVE  /\ Append(s, e) \in Seq(S) /\ Len(s) \in Nat /\ Len(Append(s, e)) = Len(s) + 1
         /\ Append(s, e)[Len(s) + 1] = e /\ \A i \in 1 .. Len(s) : Append(s, e)[i] = s[i]
         /\ Append(s, e) # <<>>
  OBVIOUS

LEMMA TailIs ==
  ASSUME NEW S, NEW s \in Seq(S), s # <<>>
  PROVE  /\ Len(s) \in Nat \ {0} /\ Head(s) = s[1]
         /\ Tail(s) \in Seq(S) /\ Len(Tail(s)) = Len(s) - 1
         /\ \A i \in 1 .. Len(s) - 1 : Tail(s)[i] = s[i + 1]
         /\ Len(s) = 1 <=> Tail(s) = <<>>
<1>1. Len(s) \in Nat \ {0}
  OBVIOUS
<1>2. Head(s) = s[1] /\ Tail(s) \in Seq(S) /\ Len(Tail(s)) = Len(s) - 1
  BY <1>1
<1>3. \A i \in 1 .. Len(s) - 1 : Tail(s)[i] = s[i + 1]
  BY <1>1
<1>4. Len(Tail(s)) = 0 <=> Tail(s) = <<>>
  BY <1>2
<1> QED
  BY <1>1, <1>2, <1>3, <1>4

USE TopIs

LEMMA StepsAre ==
  ASSUME platform \in Platforms
  PROVE  /\ Len(Steps) \in {7, 9} /\ DOMAIN Steps = 1 .. Len(Steps)
         /\ DOMAIN Downloads = {"install_runtime", "fetch_image"}
         /\ \A i \in 1 .. Len(Steps) : Steps[i] = "finish" <=> i = Len(Steps)
<1>1. CASE platform = "mac"
  BY <1>1 DEF Steps, Downloads
<1>2. CASE platform = "windows"
  BY <1>2 DEF Steps, Downloads
<1> QED
  BY <1>1, <1>2

LEMMA SamePlatform ==
  ASSUME UNCHANGED platform
  PROVE  Steps' = Steps /\ EventRec' = EventRec /\ WorkerRec' = WorkerRec
         /\ ScreenRec' = ScreenRec
<1>1. Steps' = Steps
  BY DEF Steps
<1> QED
  BY <1>1 DEF EventRec, WorkerRec, ScreenRec

\* An event is not the sentinel, and its numbers are numbers.
LEMMA EventIs ==
  ASSUME AppTypes
  PROVE  /\ \A e \in EventRec : e # Sentinel /\ e.step \in Nat /\ After(e) \in Nat
                                /\ e.step <= After(e) /\ e.percent \in Nat
                                /\ e.percent <= Top /\ e.step <= Len(Steps)
         /\ After(Sentinel) \in Nat /\ Sentinel.step \in Nat /\ Len(events) \in Nat
         /\ \A i \in 1 .. Len(events) : events[i] \in EventRec \cup {Sentinel}
         /\ Len(Steps) \in Nat
         /\ screen.done \in Nat /\ screen.bar \in Nat /\ worker.at \in Nat
<1>1. Len(Steps) \in {7, 9}
  BY StepsAre DEF AppTypes
<1>2. ASSUME NEW e \in EventRec
      PROVE  /\ e # Sentinel /\ e.step \in Nat /\ After(e) \in Nat
             /\ e.step <= After(e) /\ e.percent \in Nat
             /\ e.percent <= Top /\ e.step <= Len(Steps)
  <2>1. /\ e.step \in 1 .. Len(Steps) /\ e.percent \in 0 .. Top /\ e.status # "over"
    BY <1>2 DEF EventRec, Statuses
  <2>2. e # Sentinel
    BY <2>1 DEF Sentinel
  <2>3. e.step \in Nat /\ e.step <= Len(Steps)
    BY <1>1, <2>1
  <2>4. After(e) \in Nat /\ e.step <= After(e)
    BY <2>3 DEF After
  <2>5. ASSUME NEW p \in 0 .. Top PROVE p \in Nat /\ p <= Top
    OBVIOUS
  <2> QED
    BY <2>1, <2>2, <2>3, <2>4, <2>5
<1>3. After(Sentinel) \in Nat /\ Sentinel.step \in Nat
  BY DEF Sentinel, After
<1>4. Len(events) \in Nat /\ \A i \in 1 .. Len(events) : events[i] \in EventRec \cup {Sentinel}
  BY DEF AppTypes
<1>5. screen.done \in Nat /\ screen.bar \in Nat /\ worker.at \in Nat
  BY <1>1 DEF AppTypes, ScreenRec, WorkerRec
<1> QED
  BY <1>1, <1>2, <1>3, <1>4, <1>5

\* The worker tells of the step that it is at, and goes on to what comes after that.
LEMMA Tells ==
  ASSUME AppTypes, Queue, Bars, AtWork, NEW e \in EventRec, e.step = worker.at,
         Shows("wizard"), ~screen.finished, screen' = screen,
         events' = Append(events, e),
         Ceiling \in 0 .. Top, Ceiling' \in 0 .. Top,
         worker'.at \in Nat, AtWork' => worker'.at = After(e),
         e.status = "percent" => Ceiling <= e.percent,
         AtWork' /\ worker'.at = worker.at
            => Ceiling <= Ceiling' /\ (e.status = "percent" => e.percent <= Ceiling')
  PROVE  Queue' /\ Bars'
<1> DEFINE n == Len(events)
           ev == events'
<1>1. /\ n \in Nat /\ Len(ev) = n + 1 /\ ev[n + 1] = e /\ ev # <<>>
      /\ \A i \in 1 .. n : ev[i] = events[i]
  <2>1. events \in Seq(EventRec \cup {Sentinel}) /\ e \in EventRec \cup {Sentinel}
    BY DEF AppTypes
  <2> QED
    BY <2>1, AppendIs
<1>2. /\ e # Sentinel /\ e.step \in Nat /\ After(e) \in Nat /\ e.step <= After(e)
      /\ e.percent \in Nat /\ e.percent <= Top
      /\ screen.done \in Nat /\ screen.bar \in Nat /\ worker.at \in Nat
  BY EventIs
<1>3. \A i \in 1 .. n : /\ events[i] # Sentinel /\ events[i] \in EventRec
                        /\ events[i].step \in Nat /\ After(events[i]) \in Nat
                        /\ events[i].step <= After(events[i]) /\ After(events[i]) <= worker.at
                        /\ screen.done < events[i].step /\ events[i].percent \in Nat
  <2>1. worker.pc # "none"
    BY DEF AtWork
  <2> QED
    BY <2>1, EventIs DEF Queue
<1>4. /\ screen.done < worker.at
      /\ worker.at = IF events = <<>> THEN screen.done + 1 ELSE After(events[n])
  BY DEF Queue
<1>5. events = <<>> <=> n = 0
  BY DEF AppTypes
<1> HIDE DEF n, ev
<1>6. Queue'
  <2>1. \A i \in 1 .. Len(ev) : ev[i] # Sentinel /\ screen.done < ev[i].step
    <3> TAKE i \in 1 .. Len(ev)
    <3>1. CASE i = n + 1
      BY <1>1, <1>2, <1>4, <3>1
    <3>2. CASE i # n + 1
      <4>1. i \in 1 .. n
        BY <1>1, <3>2
      <4> QED
        BY <1>1, <1>3, <4>1
    <3> QED
      BY <3>1, <3>2
  <2>2. ev[1].step = screen.done + 1
    <3>1. CASE n = 0
      BY <1>1, <1>4, <1>5, <3>1
    <3>2. CASE n # 0
      <4>1. events[1] = Sentinel \/ events[1].step = screen.done + 1
        BY <1>5, <3>2 DEF Queue
      <4> QED
        BY <1>1, <1>3, <3>2, <4>1
    <3> QED
      BY <3>1, <3>2
  <2>3. \A i \in 1 .. Len(ev), j \in 1 .. Len(ev) :
           j = i + 1 => ev[j] = Sentinel \/ ev[j].step = After(ev[i])
    <3> SUFFICES ASSUME NEW i \in 1 .. Len(ev), NEW j \in 1 .. Len(ev), j = i + 1
                 PROVE  ev[j] = Sentinel \/ ev[j].step = After(ev[i])
      OBVIOUS
    <3>1. CASE j = n + 1
      <4>1. i = n /\ n \in 1 .. n /\ ev[i] = events[n]
        BY <1>1, <3>1
      <4> QED
        BY <1>1, <1>4, <1>5, <3>1, <4>1
    <3>2. CASE j # n + 1
      <4>1. i \in 1 .. n /\ j \in 1 .. n /\ i \in 1 .. Len(events) /\ j \in 1 .. Len(events)
        BY <1>1, <3>2 DEF n
      <4>2. events[j] = Sentinel \/ events[j].step = After(events[i])
        BY <4>1 DEF Queue
      <4> QED
        BY <1>1, <4>1, <4>2
    <3> QED
      BY <3>1, <3>2
  <2>4. \A i \in 1 .. Len(ev), j \in 1 .. Len(ev) :
           i < j => ev[j] = Sentinel \/ After(ev[i]) <= ev[j].step
    <3> SUFFICES ASSUME NEW i \in 1 .. Len(ev), NEW j \in 1 .. Len(ev), i < j
                 PROVE  ev[j] = Sentinel \/ After(ev[i]) <= ev[j].step
      OBVIOUS
    <3>1. CASE j = n + 1
      <4>1. i \in 1 .. n /\ ev[i] = events[i] /\ ev[j] = e
        BY <1>1, <3>1
      <4> QED
        BY <1>3, <4>1
    <3>2. CASE j # n + 1
      <4>1. i \in 1 .. n /\ j \in 1 .. n /\ i \in 1 .. Len(events) /\ j \in 1 .. Len(events)
        BY <1>1, <3>2 DEF n
      <4>2. events[j] = Sentinel \/ After(events[i]) <= events[j].step
        BY <4>1 DEF Queue
      <4> QED
        BY <1>1, <4>1, <4>2
    <3> QED
      BY <3>1, <3>2
  <2>5. ASSUME AtWork'
        PROVE  /\ screen.done < worker'.at
               /\ \A i \in 1 .. Len(ev) : After(ev[i]) <= worker'.at
               /\ worker'.at = After(ev[Len(ev)])
    <3>1. worker'.at = After(e) /\ worker.at <= worker'.at
      BY <1>2, <2>5
    <3>2. \A i \in 1 .. n : After(events[i]) <= worker'.at
      BY <1>2, <1>3, <3>1
    <3>3. \A i \in 1 .. Len(ev) : (i \in 1 .. n /\ ev[i] = events[i]) \/ (i = n + 1 /\ ev[i] = e)
      BY <1>1
    <3>4. \A i \in 1 .. Len(ev) : After(ev[i]) <= worker'.at
      BY <1>2, <3>1, <3>2, <3>3
    <3>5. screen.done < worker'.at /\ ev[Len(ev)] = e
      BY <1>1, <1>2, <1>4, <3>1
    <3> QED
      BY <3>1, <3>4, <3>5
  <2> QED
    BY <1>1, <2>1, <2>2, <2>3, <2>4, <2>5 DEF Queue, ev, AtWork, Shows, After, Sentinel
<1>7. Bars'
  <2>1. Ceiling \in Nat /\ Ceiling' \in Nat
    OBVIOUS
  <2>3. ASSUME NEW i \in 1 .. Len(ev), Percents(ev[i], screen.done + 1)
        PROVE  screen.bar <= 100 * screen.done + ev[i].percent
    <3>1. CASE i = n + 1
      <4>1. e.status = "percent" /\ worker.at = screen.done + 1 /\ ev[i] = e
        BY <1>1, <2>3, <3>1 DEF Percents
      <4>2. screen.bar <= 100 * screen.done + Ceiling
        BY <4>1 DEF Bars
      <4> QED
        BY SMTT(30), <1>2, <2>1, <4>1, <4>2
    <3>2. CASE i # n + 1
      <4>1. i \in 1 .. Len(events) /\ ev[i] = events[i]
        BY <1>1, <3>2 DEF n
      <4> QED
        BY <2>3, <4>1 DEF Bars
    <3> QED
      BY <3>1, <3>2
  <2>4. ASSUME NEW i \in 1 .. Len(ev), NEW j \in 1 .. Len(ev), i < j,
               ev[i] # Sentinel, ev[i].status = "percent", Percents(ev[j], ev[i].step)
        PROVE  ev[i].percent <= ev[j].percent
    <3>1. CASE j = n + 1
      <4>1. i \in 1 .. n /\ ev[i] = events[i] /\ ev[j] = e /\ i \in 1 .. Len(events)
        BY <1>1, <2>4, <3>1 DEF n
      <4>2. e.status = "percent" /\ Percents(events[i], worker.at)
        BY <2>4, <4>1 DEF Percents
      <4>3. events[i].percent <= Ceiling
        BY <4>1, <4>2 DEF Bars
      <4> QED
        BY SMTT(30), <1>2, <1>3, <2>1, <4>1, <4>2, <4>3
    <3>2. CASE j # n + 1
      <4>1. /\ i \in 1 .. Len(events) /\ j \in 1 .. Len(events)
            /\ ev[i] = events[i] /\ ev[j] = events[j]
        BY <1>1, <2>4, <3>2 DEF n
      <4> QED
        BY <2>4, <4>1 DEF Bars
    <3> QED
      BY <3>1, <3>2
  <2>5. ASSUME AtWork', NEW i \in 1 .. Len(ev), Percents(ev[i], worker'.at)
        PROVE  ev[i].percent <= Ceiling'
    <3>1. worker'.at = After(e) /\ worker.at <= worker'.at
      BY <1>2, <2>5
    <3>2. CASE i = n + 1
      <4>1. ev[i] = e /\ e.status = "percent" /\ worker'.at = worker.at
        BY <1>1, <2>5, <3>2 DEF Percents
      <4> QED
        BY <2>5, <4>1
    <3>3. CASE i # n + 1
      <4>1. i \in 1 .. Len(events) /\ ev[i] = events[i] /\ i \in 1 .. n
        BY <1>1, <3>3 DEF n
      <4>2. events[i].step <= worker.at /\ events[i].step = worker'.at
        BY <1>2, <1>3, <2>5, <4>1 DEF Percents
      <4>3. worker'.at = worker.at
        BY <1>2, <1>3, <3>1, <4>1, <4>2
      <4>4. events[i].percent <= Ceiling
        BY <2>5, <4>1, <4>3 DEF Bars
      <4> QED
        BY <1>3, <2>1, <2>5, <4>1, <4>3, <4>4
    <3> QED
      BY <3>2, <3>3
  <2>6. ASSUME AtWork', screen.done + 1 = worker'.at
        PROVE  screen.bar <= 100 * screen.done + Ceiling'
    <3>1. worker'.at = worker.at
      BY <1>2, <1>4, <2>6
    <3>2. screen.bar <= 100 * screen.done + Ceiling
      BY <2>6, <3>1 DEF Bars
    <3> QED
      BY <1>2, <2>1, <2>6, <3>1, <3>2
  <2> QED
    BY <2>3, <2>4, <2>5, <2>6 DEF Bars, ev, AtWork, Percents, Sentinel
<1> QED
  BY <1>6, <1>7

\* Nothing is told: the worker stays where it is, or goes where nothing is asked of it.
LEMMA Untold ==
  ASSUME AppTypes, Queue, Bars, events' = events,
         screen'.done = screen.done, screen'.bar = screen.bar,
         screen'.kind = screen.kind, screen'.finished = screen.finished,
         worker.pc = "none" => worker'.pc = "none",
         AtWork' => AtWork /\ worker'.at = worker.at /\ Ceiling <= Ceiling',
         Ceiling \in 0 .. Top, Ceiling' \in 0 .. Top
  PROVE  Queue' /\ Bars'
<1>1. Sentinel' = Sentinel /\ \A e : After(e)' = After(e)
  BY DEF Sentinel, After
<1>2. Queue'
  BY <1>1 DEF Queue, AtWork, Shows, After, Sentinel
<1>3. Bars'
  <2>1. /\ \A i \in 1 .. Len(events) : Percents(events[i], screen.done + 1)
             => screen.bar <= 100 * screen.done + events[i].percent
        /\ \A i \in 1 .. Len(events), j \in 1 .. Len(events) :
             i < j /\ events[i] # Sentinel /\ events[i].status = "percent"
               /\ Percents(events[j], events[i].step)
               => events[i].percent <= events[j].percent
    BY DEF Bars
  <2>2. /\ Ceiling \in Nat /\ Ceiling' \in Nat /\ screen.bar \in Nat /\ screen.done \in Nat
        /\ \A i \in 1 .. Len(events) : events[i] # Sentinel => events[i].percent \in Nat
    BY EventIs
  <2>3. ASSUME AtWork', NEW i \in 1 .. Len(events), Percents(events[i], worker.at)
        PROVE  events[i].percent <= Ceiling'
    <3>1. events[i].percent <= Ceiling /\ events[i] # Sentinel
      BY <2>3 DEF Bars, Percents
    <3> QED
      BY <2>2, <2>3, <3>1
  <2>4. ASSUME AtWork', screen.done + 1 = worker.at
        PROVE  screen.bar <= 100 * screen.done + Ceiling'
    <3>1. screen.bar <= 100 * screen.done + Ceiling
      BY <2>4 DEF Bars
    <3> QED
      BY <2>2, <2>4, <3>1
  <2> QED
    BY <2>1, <2>3, <2>4 DEF Bars, Percents, Sentinel, AtWork
<1> QED
  BY <1>2, <1>3

\* The sentinel is put behind it all.
LEMMA Announces ==
  ASSUME AppTypes, Queue, Bars, worker.pc # "none", worker'.pc = "none", screen' = screen,
         Shows("wizard"), ~screen.finished, events' = Append(events, Sentinel)
  PROVE  Queue' /\ Bars'
<1> DEFINE n == Len(events)
           ev == events'
<1>1. /\ n \in Nat /\ Len(ev) = n + 1 /\ ev[n + 1] = Sentinel /\ ev # <<>>
      /\ \A i \in 1 .. n : ev[i] = events[i]
  <2>1. events \in Seq(EventRec \cup {Sentinel}) /\ Sentinel \in EventRec \cup {Sentinel}
    BY DEF AppTypes
  <2> QED
    BY <2>1, AppendIs
<1>2. events = <<>> <=> n = 0
  BY DEF AppTypes
<1>3. \A i \in 1 .. n : events[i] # Sentinel /\ events[i] = ev[i] /\ i \in 1 .. Len(events)
  BY <1>1 DEF Queue
<1> HIDE DEF n, ev
<1>4. ~AtWork'
  BY DEF AtWork
<1>5. Queue'
  <2>1. \A i \in 1 .. Len(ev) : ev[i] = Sentinel => i = Len(ev)
    BY <1>1, <1>3
  <2>2. ev[1] = Sentinel \/ ev[1].step = screen.done + 1
    <3>1. CASE n = 0
      BY <1>1, <3>1
    <3>2. CASE n # 0
      BY <1>1, <1>2, <1>3, <3>2 DEF Queue
    <3> QED
      BY <3>1, <3>2
  <2>3. ASSUME NEW i \in 1 .. Len(ev), NEW j \in 1 .. Len(ev), i < j, ev[j] # Sentinel
        PROVE  /\ j = i + 1 => ev[j].step = After(ev[i])
               /\ After(ev[i]) <= ev[j].step
    <3>1. i \in 1 .. n /\ j \in 1 .. n
      BY <1>1, <2>3
    <3>2. /\ i \in 1 .. Len(events) /\ j \in 1 .. Len(events)
          /\ ev[i] = events[i] /\ ev[j] = events[j]
      BY <1>3, <3>1
    <3> QED
      BY <2>3, <3>2 DEF Queue
  <2>4. ASSUME NEW i \in 1 .. Len(ev), ev[i] # Sentinel
        PROVE  screen.done < ev[i].step
    <3>1. i \in 1 .. n
      BY <1>1, <2>4
    <3> QED
      BY <1>3, <2>4, <3>1 DEF Queue
  <2>5. \A i \in 1 .. Len(ev), j \in 1 .. Len(ev) : j = i + 1 => i < j
    BY <1>1
  <2> QED
    BY <1>4, <2>1, <2>2, <2>3, <2>4, <2>5 DEF Queue, ev, Shows, After, Sentinel
<1>6. Bars'
  <2>2. ASSUME NEW i \in 1 .. Len(ev), ev[i] # Sentinel
        PROVE  i \in 1 .. Len(events) /\ ev[i] = events[i]
    <3>1. i \in 1 .. n
      BY <1>1, <2>2
    <3> QED
      BY <1>3, <3>1
  <2>3. ASSUME NEW i \in 1 .. Len(ev), Percents(ev[i], screen.done + 1)
        PROVE  screen.bar <= 100 * screen.done + ev[i].percent
    BY <2>2, <2>3 DEF Bars, Percents
  <2>4. ASSUME NEW i \in 1 .. Len(ev), NEW j \in 1 .. Len(ev), i < j,
               ev[i] # Sentinel, ev[i].status = "percent", Percents(ev[j], ev[i].step)
        PROVE  ev[i].percent <= ev[j].percent
    <3>1. ev[j] # Sentinel
      BY <2>4 DEF Percents
    <3>2. /\ i \in 1 .. Len(events) /\ j \in 1 .. Len(events)
          /\ ev[i] = events[i] /\ ev[j] = events[j]
      BY <2>2, <2>4, <3>1
    <3> QED
      BY <2>4, <3>2 DEF Bars
  <2> QED
    BY <1>4, <2>3, <2>4 DEF Bars, ev, Percents, Sentinel
<1> QED
  BY <1>5, <1>6

\* The queue is emptied, and a worker, if one is at work, is at its first step.
LEMMA Empties ==
  ASSUME events' = <<>>,
         AtWork' => /\ worker'.pc = "next" /\ worker'.at = screen'.done + 1
                    /\ screen'.done \in Nat /\ screen'.bar <= 100 * screen'.done
  PROVE  Queue' /\ Bars'
<1>1. \A i \in 1 .. Len(events') : FALSE
  OBVIOUS
<1>2. ASSUME AtWork' PROVE screen'.done < worker'.at /\ Ceiling' = 0
  BY <1>2 DEF Ceiling
<1>3. Queue'
  BY <1>1, <1>2 DEF Queue
<1>4. Bars'
  <2>1. ASSUME AtWork' PROVE screen'.bar <= 100 * screen'.done + Ceiling'
    BY <1>2, <2>1
  <2> QED
    BY <1>1, <2>1 DEF Bars
<1> QED
  BY <1>3, <1>4

\* What drawing an event does to the numbers of the screen.
LEMMA Draws ==
  ASSUME AppTypes, NEW e \in EventRec, e.step = screen.done + 1, screen' = Rendered(e)
  PROVE  /\ screen' \in ScreenRec
         /\ screen'.kind = screen.kind /\ screen'.finished = screen.finished
         /\ screen'.outcome = screen.outcome
         /\ screen'.done = After(e) - 1
         /\ \/ e.status = "percent" /\ screen'.bar = 100 * screen.done + e.percent
            \/ e.status = "running" /\ screen' = screen
            \/ /\ e.status \notin {"percent", "running"}
               /\ screen'.bar = 100 * screen'.done
<1>1. /\ e.step \in Nat /\ e.step <= Len(Steps) /\ e.percent \in Nat /\ e.percent <= Top
      /\ Len(Steps) \in Nat /\ screen.done \in Nat /\ screen.bar \in Nat
  BY EventIs
<1>2. screen \in ScreenRec
  BY DEF AppTypes
<1>3. CASE e.status = "percent"
  <2>1. screen' = [screen EXCEPT !.bar = screen.done * 100 + e.percent]
    BY <1>3 DEF Rendered
  <2> DEFINE b == screen.done * 100 + e.percent
  <2>2. b \in Nat /\ b = 100 * screen.done + e.percent
    BY <1>1
  <2> HIDE DEF b
  <2>3. screen' = [screen EXCEPT !.bar = b]
    BY <2>1 DEF b
  <2>4. /\ screen' \in ScreenRec /\ screen'.bar = b /\ screen'.done = screen.done
        /\ screen'.kind = screen.kind /\ screen'.finished = screen.finished
        /\ screen'.outcome = screen.outcome
    BY <1>2, <2>2, <2>3 DEF ScreenRec
  <2>5. After(e) = e.step
    BY <1>3 DEF After
  <2> QED
    BY <1>1, <1>3, <2>2, <2>4, <2>5
<1>4. CASE e.status = "running"
  <2>1. screen' = screen /\ After(e) = e.step
    BY <1>4 DEF Rendered, After
  <2> QED
    BY <1>1, <1>2, <1>4, <2>1
<1>5. CASE e.status \notin {"percent", "running"}
  <2> DEFINE d == screen.done + 1
             b == (screen.done + 1) * 100
             log == IF e.says /\ ~(Steps[e.step] = "finish") THEN Append(screen.log, e.step)
                                                             ELSE screen.log
  <2>1. /\ d \in 0 .. Len(Steps) /\ b \in Nat /\ b = 100 * d
    BY <1>1
  <2>2. log \in Seq(Nat)
    BY <1>1, <1>2 DEF ScreenRec
  <2>3. screen' = [screen EXCEPT !.done = d, !.bar = b, !.log = log]
    BY <1>2, <1>5 DEF Rendered, ScreenRec
  <2>4. d = After(e) - 1
    BY <1>1, <1>5 DEF After
  <2> HIDE DEF d, b, log
  <2>5. /\ screen' \in ScreenRec /\ screen'.bar = b /\ screen'.done = d
        /\ screen'.kind = screen.kind /\ screen'.finished = screen.finished
        /\ screen'.outcome = screen.outcome
    BY ZenonT(40), <1>2, <2>1, <2>2, <2>3 DEF ScreenRec
  <2> QED
    BY <1>5, <2>1, <2>4, <2>5
<1> QED
  BY <1>3, <1>4, <1>5

\* What the bar may do.
NoFall ==
    screen'.bar < screen.bar =>
      /\ screen.bar > 100 * (screen.done + 1)
      /\ screen'.bar = 100 * screen'.done /\ screen'.done = screen.done + 1

\* The pump draws the first event of the queue.
LEMMA RenderKeeps ==
  ASSUME LimaInv, AppTypes, Queue, Bars, Render
  PROVE  /\ Queue' /\ Bars' /\ screen' \in ScreenRec /\ NoFall
         /\ screen'.kind = "wizard" /\ screen'.finished = FALSE
         /\ screen'.outcome = screen.outcome
         /\ events' \in Seq(EventRec \cup {Sentinel})
<1> DEFINE n == Len(events)
           e == events[1]
           ev == events'
<1>1. /\ screen.kind = "wizard" /\ ~screen.finished /\ events # <<>>
      /\ Head(events) # Sentinel /\ screen' = Rendered(Head(events))
      /\ events' = Tail(events) /\ worker' = worker /\ inst' = inst /\ part' = part
  BY DEF Render, Shows, limaVars
<1>2. /\ n \in Nat \ {0} /\ Head(events) = e /\ ev \in Seq(EventRec \cup {Sentinel})
      /\ Len(ev) = n - 1 /\ (n = 1 <=> ev = <<>>)
      /\ \A i \in 1 .. n - 1 : ev[i] = events[i + 1]
  BY <1>1, TailIs DEF AppTypes
<1>3. /\ e \in EventRec /\ e # Sentinel /\ e.step = screen.done + 1
  <2>1. 1 \in 1 .. Len(events)
    BY <1>2
  <2>2. e \in EventRec \cup {Sentinel}
    BY <2>1, EventIs
  <2> QED
    BY <1>1, <1>2, <2>2 DEF Queue
<1>4. /\ e.step \in Nat /\ After(e) \in Nat /\ e.step <= After(e)
      /\ e.percent \in Nat /\ e.percent <= Top
      /\ screen.done \in Nat /\ screen.bar \in Nat /\ worker.at \in Nat
  BY <1>3, EventIs
<1>6. /\ screen' \in ScreenRec
      /\ screen'.kind = screen.kind /\ screen'.finished = screen.finished
      /\ screen'.outcome = screen.outcome
      /\ screen'.done = After(e) - 1
      /\ \/ e.status = "percent" /\ screen'.bar = 100 * screen.done + e.percent
         \/ e.status = "running" /\ screen' = screen
         \/ /\ e.status \notin {"percent", "running"}
            /\ screen'.bar = 100 * screen'.done
  BY <1>1, <1>2, <1>3, Draws
\* An event that follows the first is one of the queue, and comes after it.
<1>7. ASSUME NEW i \in 1 .. Len(ev)
      PROVE  /\ i + 1 \in 1 .. Len(events) /\ ev[i] = events[i + 1] /\ 1 \in 1 .. Len(events)
             /\ i \in Nat /\ 1 < i + 1
             /\ ev[i] # Sentinel => /\ ev[i].step \in Nat /\ After(e) <= ev[i].step
                                    /\ ev[i].percent \in Nat /\ After(ev[i]) \in Nat
  <2>1. /\ i + 1 \in 1 .. Len(events) /\ ev[i] = events[i + 1] /\ 1 \in 1 .. Len(events)
        /\ i \in Nat /\ 1 < i + 1
    BY <1>2
  <2> DEFINE k == i + 1
  <2>2. k \in 1 .. Len(events) /\ ev[i] = events[k] /\ 1 < k
    BY <2>1
  <2> HIDE DEF k
  <2>3. ev[i] # Sentinel => After(e) <= ev[i].step
    BY <2>1, <2>2 DEF Queue
  <2>4. ev[i] # Sentinel => ev[i] \in EventRec
    BY <2>2, EventIs
  <2> QED
    BY <2>1, <2>3, <2>4, EventIs
<1>8. AtWork' = AtWork /\ Ceiling' = Ceiling
  BY <1>1 DEF AtWork, Ceiling, Here, Share
<1>9. AtWork => \A i \in 1 .. Len(events) :
        /\ events[i] # Sentinel /\ After(events[i]) <= worker.at /\ After(events[i]) \in Nat
        /\ events[i].percent \in Nat
  <2>1. AtWork => worker.pc # "none"
    BY DEF AtWork
  <2> QED
    BY <2>1, EventIs DEF Queue
<1> HIDE DEF n, e, ev
<1>10. Queue'
  <2>1. ASSUME NEW i \in 1 .. Len(ev), ev[i] = Sentinel
        PROVE  i = Len(ev) /\ worker.pc = "none"
    <3> DEFINE k == i + 1
    <3>1. k \in 1 .. Len(events) /\ events[k] = Sentinel
      BY <1>7, <2>1
    <3> HIDE DEF k
    <3>2. k = Len(events) /\ worker.pc = "none"
      BY <3>1 DEF Queue
    <3> QED
      BY <1>2, <3>2 DEF k, n
  <2>2. ASSUME ev # <<>>
        PROVE  ev[1] = Sentinel \/ ev[1].step = screen'.done + 1
    <3>1. 1 \in 1 .. Len(ev) /\ 2 \in 1 .. Len(events) /\ 1 \in 1 .. Len(events) /\ 2 = 1 + 1
      BY <1>2, <2>2 DEF n
    <3>2. events[2] = Sentinel \/ events[2].step = After(events[1])
      BY <3>1 DEF Queue
    <3>3. ev[1] = events[2]
      BY <1>7, <3>1
    <3> QED
      BY <1>4, <1>6, <3>2, <3>3 DEF e
  <2>3. ASSUME NEW i \in 1 .. Len(ev), NEW j \in 1 .. Len(ev), i < j, ev[j] # Sentinel
        PROVE  /\ j = i + 1 => ev[j].step = After(ev[i])
               /\ After(ev[i]) <= ev[j].step
    <3> DEFINE k == i + 1
               l == j + 1
    <3>1. /\ k \in 1 .. Len(events) /\ events[k] = ev[i]
          /\ l \in 1 .. Len(events) /\ events[l] = ev[j]
          /\ k < l /\ (j = i + 1 => l = k + 1)
      BY <1>7, <2>3
    <3> HIDE DEF k, l
    <3> QED
      BY <2>3, <3>1 DEF Queue
  <2>4. ASSUME NEW i \in 1 .. Len(ev), ev[i] # Sentinel
        PROVE  screen'.done < ev[i].step
    BY SMTT(30), <1>4, <1>6, <1>7, <2>4
  <2>5. ASSUME AtWork
        PROVE  /\ screen'.done < worker.at
               /\ \A i \in 1 .. Len(ev) : After(ev[i]) <= worker.at
               /\ worker.at = IF ev = <<>> THEN screen'.done + 1 ELSE After(ev[Len(ev)])
    <3>1. After(e) <= worker.at
      <4>1. 1 \in 1 .. Len(events)
        BY <1>2 DEF n
      <4> QED
        BY <1>9, <2>5, <4>1 DEF e
    <3>2. ASSUME NEW i \in 1 .. Len(ev) PROVE After(ev[i]) <= worker.at
      <4> DEFINE k == i + 1
      <4>1. k \in 1 .. Len(events) /\ events[k] = ev[i]
        BY <1>7
      <4> HIDE DEF k
      <4> QED
        BY <1>9, <2>5, <4>1
    <3>3. worker.at = After(events[n])
      BY <1>1, <2>5 DEF Queue, n
    <3>4. CASE ev = <<>>
      <4>1. n = 1
        BY <1>2, <3>4
      <4> QED
        BY <1>4, <1>6, <3>1, <3>2, <3>3, <3>4, <4>1 DEF e
    <3>5. CASE ev # <<>>
      <4> DEFINE m == Len(ev)
      <4>1. m \in 1 .. Len(ev) /\ m + 1 = n
        BY <1>2, <3>5
      <4>2. ev[m] = events[m + 1]
        BY <1>7, <4>1
      <4>3. ev[Len(ev)] = events[n]
        BY <4>1, <4>2
      <4> HIDE DEF m
      <4> QED
        BY <1>4, <1>6, <3>1, <3>2, <3>3, <3>5, <4>3
    <3> QED
      BY <3>4, <3>5
  <2>6. \A i \in 1 .. Len(ev), j \in 1 .. Len(ev) : j = i + 1 => i < j
    OBVIOUS
  <2> QED
    BY SMTT(30), <1>1, <1>6, <1>8, <2>1, <2>2, <2>3, <2>4, <2>5, <2>6
       DEF Queue, ev, Shows, After, Sentinel
<1>11. Bars' /\ NoFall
  <2>1. /\ screen'.done \in Nat /\ screen'.bar \in Nat
        /\ e.status = "percent" => /\ screen'.done = screen.done
                                   /\ screen'.bar = 100 * screen.done + e.percent
        /\ e.status = "running" => screen'.done = screen.done /\ screen'.bar = screen.bar
        /\ e.status \notin {"percent", "running"} => /\ screen'.bar = 100 * screen'.done
                                                     /\ screen'.done = screen.done + 1
    BY <1>3, <1>4, <1>6 DEF After
  <2>2. e.status = "percent" => screen.bar <= 100 * screen.done + e.percent
    <3>1. 1 \in 1 .. Len(events)
      BY <1>2 DEF n
    <3> QED
      BY <1>3, <3>1 DEF Bars, Percents, e
  <2>3. NoFall
    <3>1. CASE e.status = "percent"
      BY <1>4, <2>1, <2>2, <3>1 DEF NoFall
    <3>2. CASE e.status = "running"
      BY <1>4, <2>1, <3>2 DEF NoFall
    <3>3. CASE e.status \notin {"percent", "running"}
      BY <1>4, <2>1, <3>3 DEF NoFall
    <3> QED
      BY <3>1, <3>2, <3>3
  <2>4. ASSUME NEW i \in 1 .. Len(ev), Percents(ev[i], screen'.done + 1)
        PROVE  screen'.bar <= 100 * screen'.done + ev[i].percent
    <3> DEFINE k == i + 1
    <3>1. /\ k \in 1 .. Len(events) /\ events[k] = ev[i] /\ 1 \in 1 .. Len(events) /\ 1 < k
          /\ ev[i].percent \in Nat
      BY <1>7, <2>4 DEF Percents
    <3> HIDE DEF k
    <3>2. CASE e.status = "percent"
      <4>1. Percents(events[k], e.step)
        BY <1>3, <2>1, <2>4, <3>1, <3>2
      <4>2. e.percent <= events[k].percent
        BY <1>3, <3>1, <3>2, <4>1 DEF Bars, e
      <4> DEFINE p == ev[i].percent
                 q == e.percent
      <4>3. p \in Nat /\ q \in Nat /\ q <= p
        BY <1>4, <3>1, <4>2
      <4>4. screen'.bar = 100 * screen.done + q /\ screen'.done = screen.done
        BY <2>1, <3>2
      <4> HIDE DEF p, q
      <4>5. screen'.bar <= 100 * screen'.done + p
        BY <1>4, <4>3, <4>4
      <4> QED
        BY <4>5 DEF p
    <3>3. CASE e.status = "running"
      <4>1. Percents(events[k], screen.done + 1)
        BY <2>1, <2>4, <3>1, <3>3
      <4>2. screen.bar <= 100 * screen.done + events[k].percent
        BY <3>1, <4>1 DEF Bars
      <4> QED
        BY <1>4, <2>1, <3>1, <3>3, <4>2
    <3>4. CASE e.status \notin {"percent", "running"}
      BY <2>1, <3>1, <3>4
    <3> QED
      BY <3>2, <3>3, <3>4
  <2>5. ASSUME NEW i \in 1 .. Len(ev), NEW j \in 1 .. Len(ev), i < j,
               ev[i] # Sentinel, ev[i].status = "percent", Percents(ev[j], ev[i].step)
        PROVE  ev[i].percent <= ev[j].percent
    <3> DEFINE k == i + 1
               l == j + 1
    <3>1. /\ k \in 1 .. Len(events) /\ events[k] = ev[i]
          /\ l \in 1 .. Len(events) /\ events[l] = ev[j] /\ k < l
      BY <1>7, <2>5
    <3> HIDE DEF k, l
    <3> QED
      BY <2>5, <3>1 DEF Bars
  <2>6. ASSUME AtWork, NEW i \in 1 .. Len(ev), Percents(ev[i], worker.at)
        PROVE  ev[i].percent <= Ceiling
    <3> DEFINE k == i + 1
    <3>1. k \in 1 .. Len(events) /\ events[k] = ev[i]
      BY <1>7
    <3> HIDE DEF k
    <3> QED
      BY <2>6, <3>1 DEF Bars
  <2>7. ASSUME AtWork, screen'.done + 1 = worker.at
        PROVE  screen'.bar <= 100 * screen'.done + Ceiling
    <3>1. e.status = "percent" => e.percent <= Ceiling
      <4>1. 1 \in 1 .. Len(events)
        BY <1>2 DEF n
      <4>2. e.status = "percent" => Percents(events[1], worker.at)
        BY <1>3, <2>1, <2>7 DEF Percents, e
      <4> QED
        BY <2>7, <4>1, <4>2 DEF Bars, e
    <3>2. e.status = "running" => screen.bar <= 100 * screen.done + Ceiling
      BY <2>1, <2>7 DEF Bars
    <3>3. Ceiling \in Nat
      BY CeilingRange
    <3> QED
      BY <1>4, <2>1, <3>1, <3>2, <3>3
  <2> QED
    BY <1>8, <1>1, <2>3, <2>4, <2>5, <2>6, <2>7 DEF Bars, ev, Percents, Sentinel
<1> QED
  BY <1>1, <1>2, <1>6, <1>10, <1>11 DEF ev

-----------------------------------------------------------------------------
(* The steps of the worker *)

LEMMA TypesNext ==
  ASSUME AppTypes, platform' = platform, recorded' \subseteq Remembered, vm' \in BOOLEAN,
         worker' \in WorkerRec, events' \in Seq(EventRec \cup {Sentinel}),
         screen' \in ScreenRec, app' \in [code : 0 .. 2, log : Seq(Nat)],
         probing' \in ProbeRec, last' \in Results
  PROVE  AppTypes'
<1>1. /\ EventRec' = EventRec /\ WorkerRec' = WorkerRec /\ ScreenRec' = ScreenRec
      /\ Sentinel' = Sentinel /\ ProbeRec' = ProbeRec /\ Results' = Results
      /\ Remembered' = Remembered
  BY SamePlatform DEF Sentinel, ProbeRec, Results, Remembered
<1> QED
  BY <1>1 DEF AppTypes

\* An event that the worker reports.
LEMMA ReportIs ==
  ASSUME AppTypes, NEW status \in Statuses, NEW says \in BOOLEAN, NEW percent \in 0 .. Top,
         NEW e, e = Progress(status, says, percent), Report(e)
  PROVE  /\ e \in EventRec /\ e.step = worker.at /\ e.status = status
         /\ e.percent = percent /\ events' = Append(events, e)
         /\ events' \in Seq(EventRec \cup {Sentinel})
<1>1. worker.at \in 1 .. Len(Steps)
  BY DEF AppTypes, WorkerRec
<1>2. e \in EventRec /\ e.step = worker.at /\ e.status = status /\ e.percent = percent
  BY <1>1 DEF Progress, EventRec
<1>3. events' = Append(events, e)
  BY DEF Report
<1>4. events \in Seq(EventRec \cup {Sentinel})
  BY DEF AppTypes
<1>5. events' \in Seq(EventRec \cup {Sentinel})
  BY <1>2, <1>3, <1>4
<1> QED
  BY <1>2, <1>3, <1>5

\* A worker that has an exception, or comes to its end.
LEMMA Stops ==
  ASSUME AppTypes, NEW pc \in {"run", "failed", "reboot", "announce", "none"},
         worker' = [worker EXCEPT !.pc = pc]
  PROVE  /\ worker' \in WorkerRec /\ worker'.pc = pc /\ worker'.at = worker.at
         /\ worker'.at \in Nat /\ worker.at \in Nat
<1>1. worker \in WorkerRec
  BY DEF AppTypes
<1>2. worker' \in WorkerRec /\ worker'.pc = pc /\ worker'.at = worker.at
  BY <1>1 DEF WorkerRec
<1> QED
  BY <1>2, EventIs

\* A step is over, and the worker goes on to the next one.
LEMMA GoesOn ==
  ASSUME IInv, AtWork, ~Installing, NEW status \in {"skipped", "done"}, NEW says \in BOOLEAN,
         Report(Progress(status, says, 0)), NextStep,
         recorded' \subseteq Remembered, vm' \in BOOLEAN,
         UNCHANGED <<limaVars, platform, screen, app, probing, last>>
  PROVE  IInv'
<1>1. AppTypes /\ Queue /\ Bars /\ LimaInv /\ OneAtWork /\ Outcomes
  BY DEF IInv
<1>2. /\ part' = part /\ archive' = archive /\ tree' = tree /\ previous' = previous
      /\ staged' = staged /\ inst' = inst /\ faults' = faults /\ platform' = platform
      /\ screen' = screen /\ app' = app /\ probing' = probing /\ last' = last
  BY DEF limaVars
<1> DEFINE e == Progress(status, says, 0)
<1>3. /\ e \in EventRec /\ e.step = worker.at /\ e.status = status /\ e.percent = 0
      /\ events' = Append(events, e) /\ events' \in Seq(EventRec \cup {Sentinel})
  <2>1. status \in Statuses /\ 0 \in 0 .. Top /\ e = Progress(status, says, 0) /\ Report(e)
    BY DEF Statuses
  <2> HIDE DEF e
  <2> QED
    BY <1>1, <2>1, ReportIs
<1> HIDE DEF e
<1>4. worker \in WorkerRec /\ worker.at \in Nat /\ Len(Steps) \in Nat
  BY <1>1, EventIs DEF AppTypes
<1>5. /\ worker' \in WorkerRec /\ worker'.pc \in {"next", "announce"} /\ worker'.at \in Nat
      /\ worker'.pc = "next" => worker'.at = worker.at + 1
  <2>1. CASE worker.at < Len(Steps)
    <3> DEFINE k == worker.at + 1
    <3>1. k \in 1 .. Len(Steps) /\ k \in Nat
      BY <1>4, <2>1
    <3>2. worker' = [pc |-> "next", at |-> k]
      BY <2>1 DEF NextStep
    <3> HIDE DEF k
    <3>3. worker' \in WorkerRec /\ worker'.pc = "next" /\ worker'.at = k
      BY <3>1, <3>2 DEF WorkerRec
    <3> QED
      BY <3>1, <3>3 DEF k
  <2>2. CASE ~(worker.at < Len(Steps))
    <3>1. worker' = [worker EXCEPT !.pc = "announce"]
      BY <2>2 DEF NextStep
    <3> QED
      BY <1>1, <3>1, Stops
  <2> QED
    BY <2>1, <2>2
<1>6. /\ LimaInv' /\ ~Installing'
      /\ Shows("wizard") /\ ~screen.finished /\ worker.pc \in {"next", "run"}
  <2>1. LimaInv'
    BY <1>1, <1>2 DEF LimaInv, LimaTypeOK, InPlaceIsVerified, FailedRunKeepsLima, Here, RightBytes
  <2> QED
    BY <1>1, <1>2, <2>1 DEF OneAtWork, OneRunAtATime, AtWork, Installing
<1>7. AppTypes'
  <2>1. /\ screen' \in ScreenRec /\ app' \in [code : 0 .. 2, log : Seq(Nat)]
        /\ probing' \in ProbeRec /\ last' \in Results
    BY <1>1, <1>2 DEF AppTypes
  <2> QED
    BY <1>1, <1>2, <1>3, <1>5, <2>1, TypesNext
<1>8. OneAtWork' /\ Outcomes'
  BY <1>1, <1>2, <1>5, <1>6 DEF OneAtWork, OneRunAtATime, Outcomes, Shows, AtWork
<1>9. Queue' /\ Bars'
  <2>1. Ceiling \in 0 .. Top
    BY <1>1, CeilingRange
  <2>2. Ceiling' \in 0 .. Top
    BY <1>6, CeilingNext
  <2>3. AtWork' => worker'.pc = "next" /\ worker'.at = worker.at + 1
    BY <1>5 DEF AtWork
  <2>4. After(e) = worker.at + 1
    BY <1>3 DEF After
  <2> QED
    BY <1>1, <1>2, <1>3, <1>4, <1>5, <1>6, <2>1, <2>2, <2>3, <2>4, Tells
<1> QED
  BY <1>6, <1>7, <1>8, <1>9 DEF IInv

\* An exception ends the run.
LEMMA Raised ==
  ASSUME IInv, worker.pc = "run", ~Installing, NEW result \in {"failed", "reboot"},
         Raise(result, result), faults' \in 0 .. MaxFaults,
         recorded' \subseteq Remembered, vm' \in BOOLEAN,
         UNCHANGED <<part, archive, tree, previous, staged, inst, platform, screen, app,
                     probing, last>>
  PROVE  IInv'
<1>1. AppTypes /\ Queue /\ Bars /\ LimaInv /\ OneAtWork /\ Outcomes
  BY DEF IInv
<1> DEFINE says == result = "failed"
           e == Progress(result, says, 0)
<1>2. /\ e \in EventRec /\ e.step = worker.at /\ e.status = result /\ e.percent = 0
      /\ events' = Append(events, e) /\ events' \in Seq(EventRec \cup {Sentinel})
  <2>1. result \in Statuses /\ 0 \in 0 .. Top /\ says \in BOOLEAN
    BY DEF Statuses
  <2>2. e = Progress(result, says, 0) /\ Report(e)
    BY DEF Raise
  <2> HIDE DEF says, e
  <2> QED
    BY <1>1, <2>1, <2>2, ReportIs
<1> HIDE DEF e
<1>3. /\ worker' \in WorkerRec /\ worker'.pc = result /\ worker'.at = worker.at
      /\ worker'.at \in Nat /\ worker.at \in Nat
  <2>1. worker' = [worker EXCEPT !.pc = result]
    BY DEF Raise
  <2> QED
    BY <1>1, <2>1, Stops
<1>4. /\ LimaInv' /\ ~Installing'
      /\ Shows("wizard") /\ ~screen.finished
  <2>1. LimaInv'
    BY <1>1 DEF LimaInv, LimaTypeOK, InPlaceIsVerified, FailedRunKeepsLima, Here, RightBytes
  <2> QED
    BY <1>1, <2>1 DEF OneAtWork, OneRunAtATime, Installing
<1>5. AppTypes'
  <2>1. /\ screen' \in ScreenRec /\ app' \in [code : 0 .. 2, log : Seq(Nat)]
        /\ probing' \in ProbeRec /\ last' \in Results
    BY <1>1 DEF AppTypes
  <2> QED
    BY <1>1, <1>2, <1>3, <2>1, TypesNext
<1>6. OneAtWork' /\ Outcomes'
  BY <1>1, <1>3, <1>4 DEF OneAtWork, OneRunAtATime, Outcomes, Shows
<1>7. Queue' /\ Bars'
  <2>1. Ceiling \in 0 .. Top /\ Ceiling' \in 0 .. Top
    BY <1>1, <1>4, CeilingRange, CeilingNext
  <2>2. AtWork /\ ~AtWork' /\ result # "percent"
    BY <1>3 DEF AtWork
  <2> QED
    BY <1>1, <1>2, <1>3, <1>4, <2>1, <2>2, Tells
<1> QED
  BY <1>4, <1>5, <1>6, <1>7 DEF IInv

LEMMA RunStepKeeps ==
  ASSUME IInv, RunStep
  PROVE  IInv'
<1>1. AppTypes /\ Queue /\ Bars /\ LimaInv /\ OneAtWork /\ Outcomes
  BY DEF IInv
<1>2. /\ worker.pc = "next" /\ Report(Progress("running", FALSE, 0))
      /\ worker' = [worker EXCEPT !.pc = "run"]
      /\ IF Step \in DOMAIN Downloads THEN Begin(Downloads[Step]) ELSE UNCHANGED limaVars
      /\ platform' = platform /\ recorded' = recorded /\ vm' = vm /\ screen' = screen
      /\ app' = app /\ probing' = probing /\ last' = last
  BY DEF RunStep
<1> DEFINE e == Progress("running", FALSE, 0)
<1>3. /\ e \in EventRec /\ e.step = worker.at /\ e.status = "running" /\ e.percent = 0
      /\ events' = Append(events, e) /\ events' \in Seq(EventRec \cup {Sentinel})
  <2> DEFINE status == "running"
             says   == FALSE
  <2>1. status \in Statuses /\ 0 \in 0 .. Top /\ says \in BOOLEAN
    BY DEF Statuses
  <2>2. e = Progress(status, says, 0) /\ Report(e)
    BY <1>2
  <2> HIDE DEF status, says, e
  <2>3. /\ e \in EventRec /\ e.step = worker.at /\ e.status = status /\ e.percent = 0
        /\ events' = Append(events, e) /\ events' \in Seq(EventRec \cup {Sentinel})
    BY <1>1, <2>1, <2>2, ReportIs
  <2> QED
    BY <2>3 DEF status
<1> HIDE DEF e
<1>4. /\ worker' \in WorkerRec /\ worker'.pc = "run" /\ worker'.at = worker.at
      /\ worker'.at \in Nat /\ worker.at \in Nat
  BY <1>1, <1>2, Stops
<1>5. /\ ~Installing /\ Shows("wizard") /\ ~screen.finished
  BY <1>1, <1>2 DEF OneAtWork, OneRunAtATime
<1>6. Step' = Step /\ DOMAIN Downloads = {"install_runtime", "fetch_image"}
  BY <1>2, <1>4 DEF Step, Steps, Downloads
<1>7. LimaInv' /\ (Installing' => Step' \in DOMAIN Downloads)
  <2>1. CASE Step \in DOMAIN Downloads
    <3> DEFINE job == Downloads[Step]
    <3>1. job \in {"runtime", "image"} /\ Begin(job)
      BY <1>2, <2>1 DEF Downloads
    <3> HIDE DEF job
    <3> QED
      BY <1>1, <1>6, <2>1, <3>1, BeginKeeps
  <2>2. CASE Step \notin DOMAIN Downloads
    <3>1. UNCHANGED limaVars
      BY <1>2, <2>2
    <3>2. LimaInv'
      BY <1>1, <3>1
         DEF limaVars, LimaInv, LimaTypeOK, InPlaceIsVerified, FailedRunKeepsLima, Here, RightBytes
    <3> QED
      BY <1>5, <3>1, <3>2 DEF limaVars, Installing
  <2> QED
    BY <2>1, <2>2
<1>8. AppTypes'
  <2>1. /\ screen' \in ScreenRec /\ app' \in [code : 0 .. 2, log : Seq(Nat)]
        /\ probing' \in ProbeRec /\ last' \in Results
        /\ recorded' \subseteq Remembered /\ vm' \in BOOLEAN
    BY <1>1, <1>2 DEF AppTypes
  <2> QED
    BY <1>1, <1>2, <1>3, <1>4, <2>1, TypesNext
<1>9. OneAtWork' /\ Outcomes'
  <2>1. DOMAIN Downloads' = DOMAIN Downloads
    BY DEF Downloads
  <2> QED
    BY <1>1, <1>2, <1>4, <1>5, <1>7, <2>1 DEF OneAtWork, OneRunAtATime, Outcomes, Shows
<1>10. Queue' /\ Bars'
  <2>1. Ceiling \in 0 .. Top /\ Ceiling' \in 0 .. Top
    BY <1>1, <1>7, CeilingRange, CeilingNext
  <2>2. AtWork /\ Ceiling = 0 /\ After(e) = worker.at
    BY <1>2, <1>3 DEF AtWork, Ceiling, After
  <2>3. Ceiling <= Ceiling'
    BY <2>1, <2>2
  <2> QED
    BY <1>1, <1>2, <1>3, <1>4, <1>5, <2>1, <2>2, <2>3, Tells
<1> QED
  BY <1>7, <1>8, <1>9, <1>10 DEF IInv

LEMMA WorkingStepKeeps ==
  ASSUME IInv, Working
  PROVE  IInv'
<1>1. AppTypes /\ Queue /\ Bars /\ LimaInv /\ OneAtWork /\ Outcomes
  BY DEF IInv
<1>2. /\ AtWork /\ Installing
      /\ Install \/ Amiss
      /\ IF part'.n > part.n /\ inst.total # 0
           THEN events' = Append(events, Progress("percent", FALSE, Share(part'.n)))
           ELSE UNCHANGED events
      /\ platform' = platform /\ recorded' = recorded /\ vm' = vm /\ worker' = worker
      /\ screen' = screen /\ app' = app /\ probing' = probing /\ last' = last
  BY DEF Working
<1>3. /\ worker.pc = "run" /\ Shows("wizard") /\ ~screen.finished
      /\ Step \in DOMAIN Downloads
  BY <1>1, <1>2 DEF OneAtWork, OneRunAtATime
<1>4. /\ LimaInv' /\ Ceiling <= Ceiling'
      /\ part'.n > part.n /\ inst.total # 0 => Ceiling' = Share(part'.n)
  BY <1>1, <1>2, <1>3, WorkingKeeps
<1>5. Ceiling \in 0 .. Top /\ Ceiling' \in 0 .. Top
  BY <1>1, <1>4, CeilingRange, CeilingNext
<1>6. worker \in WorkerRec /\ worker.at \in Nat
  BY <1>1, EventIs DEF AppTypes
<1>7. AtWork' /\ Step' = Step /\ DOMAIN Downloads' = DOMAIN Downloads
  BY <1>2 DEF AtWork, Step, Steps, Downloads
<1>8. /\ screen' \in ScreenRec /\ app' \in [code : 0 .. 2, log : Seq(Nat)]
      /\ probing' \in ProbeRec /\ last' \in Results
      /\ recorded' \subseteq Remembered /\ vm' \in BOOLEAN
      /\ events \in Seq(EventRec \cup {Sentinel})
  BY <1>1, <1>2 DEF AppTypes
<1>9. OneAtWork' /\ Outcomes'
  BY <1>1, <1>2, <1>3, <1>7 DEF OneAtWork, OneRunAtATime, Outcomes, Shows
<1>10. AppTypes' /\ Queue' /\ Bars'
  <2>1. CASE part'.n > part.n /\ inst.total # 0
    <3> DEFINE p == Ceiling'
               e == Progress("percent", FALSE, p)
    <3>1. p \in 0 .. Top /\ Ceiling <= p /\ events' = Append(events, e)
      BY <1>2, <1>4, <1>5, <2>1
    <3> HIDE DEF p
    <3>2. /\ e \in EventRec /\ e.step = worker.at /\ e.status = "percent" /\ e.percent = p
      <4>1. worker.at \in 1 .. Len(Steps)
        BY <1>6 DEF WorkerRec
      <4> QED
        BY <3>1, <4>1 DEF Progress, EventRec, Statuses
    <3> HIDE DEF e
    <3>3. events' \in Seq(EventRec \cup {Sentinel})
      BY <1>8, <3>1, <3>2
    <3>4. After(e) = worker.at
      BY <3>2 DEF After
    <3>5. Queue' /\ Bars'
      <4>1. Ceiling <= Ceiling' /\ e.percent <= Ceiling' /\ Ceiling <= e.percent
        BY <1>4, <1>5, <3>1, <3>2 DEF p
      <4>2. worker'.at = After(e) /\ worker'.at \in Nat
        BY <1>2, <1>6, <3>4
      <4> QED
        BY <1>1, <1>2, <1>3, <1>5, <3>1, <3>2, <4>1, <4>2, Tells
    <3> QED
      BY <1>1, <1>2, <1>6, <1>8, <3>3, <3>5, TypesNext
  <2>2. CASE ~(part'.n > part.n /\ inst.total # 0)
    <3>1. events' = events
      BY <1>2, <2>2
    <3>2. Queue' /\ Bars'
      BY <1>1, <1>2, <1>4, <1>5, <3>1, Untold
    <3> QED
      BY <1>1, <1>2, <1>6, <1>8, <3>1, <3>2, TypesNext
  <2> QED
    BY <2>1, <2>2
<1> QED
  BY <1>4, <1>9, <1>10 DEF IInv

\* The run is over: its outcome, and the sentinel.
LEMMA EndKeeps ==
  ASSUME IInv, Caught \/ Announce
  PROVE  IInv'
<1>1. AppTypes /\ Queue /\ Bars /\ LimaInv /\ OneAtWork /\ Outcomes
  BY DEF IInv
<1>2. /\ platform' = platform /\ recorded' = recorded /\ vm' = vm /\ app' = app
      /\ probing' = probing /\ UNCHANGED limaVars
      /\ worker.pc \in {"failed", "reboot", "announce"}
  BY DEF Caught, Announce
<1>3. Shows("wizard") /\ ~screen.finished /\ ~Installing /\ probing.pc = "none"
  BY <1>1, <1>2 DEF OneAtWork, OneRunAtATime, Shows
<1>4. LimaInv' /\ ~Installing'
  BY <1>1, <1>2, <1>3
     DEF limaVars, LimaInv, LimaTypeOK, InPlaceIsVerified, FailedRunKeepsLima, Here, RightBytes, Installing
<1>5. /\ app' \in [code : 0 .. 2, log : Seq(Nat)] /\ probing' \in ProbeRec
      /\ recorded' \subseteq Remembered /\ vm' \in BOOLEAN
      /\ events \in Seq(EventRec \cup {Sentinel}) /\ screen \in ScreenRec
      /\ last \in Results
  BY <1>1, <1>2 DEF AppTypes
<1>6. Ceiling \in 0 .. Top /\ Ceiling' \in 0 .. Top
  BY <1>1, <1>4, CeilingRange, CeilingNext
<1>7. CASE Caught
  <2>1. /\ worker.pc \in {"failed", "reboot"} /\ events' = events /\ last' = worker.pc
        /\ screen' = [screen EXCEPT !.outcome = Code[worker.pc]]
        /\ worker' = [worker EXCEPT !.pc = "announce"]
    BY <1>7 DEF Caught
  <2>2. worker' \in WorkerRec /\ worker'.pc = "announce"
    BY <1>1, <2>1, Stops
  <2>3. /\ screen' \in ScreenRec /\ screen'.kind = screen.kind
        /\ screen'.finished = screen.finished
        /\ screen'.done = screen.done /\ screen'.bar = screen.bar
        /\ screen'.outcome = IF worker.pc = "failed" THEN 1 ELSE 2
    <3> DEFINE o == IF worker.pc = "failed" THEN 1 ELSE 2
    <3>1. o \in 0 .. 2 /\ screen' = [screen EXCEPT !.outcome = o]
      BY <2>1 DEF Code
    <3> HIDE DEF o
    <3>2. /\ screen' \in ScreenRec /\ screen'.kind = screen.kind
          /\ screen'.finished = screen.finished
          /\ screen'.done = screen.done /\ screen'.bar = screen.bar
          /\ screen'.outcome = o
      BY <1>5, <3>1 DEF ScreenRec
    <3> QED
      BY <3>2 DEF o
  <2>4. AppTypes'
    BY <1>1, <1>2, <1>5, <2>1, <2>2, <2>3, TypesNext DEF Results
  <2>5. OneAtWork' /\ Outcomes'
    BY <1>1, <1>2, <1>3, <1>4, <2>1, <2>2, <2>3 DEF OneAtWork, OneRunAtATime, Outcomes, Shows
  <2>6. Queue' /\ Bars'
    BY <1>1, <1>2, <1>6, <2>1, <2>2, <2>3, Untold DEF AtWork
  <2> QED
    BY <1>4, <2>4, <2>5, <2>6 DEF IInv
<1>8. CASE Announce
  <2>1. /\ worker.pc = "announce" /\ events' = Append(events, Sentinel)
        /\ last' = IF last = "running" THEN "ok" ELSE last
        /\ worker' = [worker EXCEPT !.pc = "none"] /\ screen' = screen
    BY <1>8 DEF Announce
  <2>2. worker' \in WorkerRec /\ worker'.pc = "none"
    BY <1>1, <2>1, Stops
  <2>3. events' \in Seq(EventRec \cup {Sentinel}) /\ last' \in Results
    BY <1>5, <2>1 DEF Results
  <2>4. AppTypes'
    BY <1>1, <1>2, <1>5, <2>1, <2>2, <2>3, TypesNext
  <2>5. OneAtWork' /\ Outcomes'
    BY <1>1, <1>2, <1>3, <1>4, <2>1, <2>2 DEF OneAtWork, OneRunAtATime, Outcomes, Shows
  <2>6. Queue' /\ Bars'
    BY <1>1, <1>3, <2>1, <2>2, Announces
  <2> QED
    BY <1>4, <2>4, <2>5, <2>6 DEF IInv
<1> QED
  BY <1>7, <1>8

LEMMA WorkerKeeps ==
  ASSUME IInv, Worker
  PROVE  IInv'
<1>1. AppTypes /\ OneAtWork /\ LimaInv
  BY DEF IInv
<1>2. recorded \subseteq Remembered /\ vm \in BOOLEAN
  BY <1>1 DEF AppTypes
<1>3. Skip => IInv'
  <2> DEFINE status == "skipped"
             says   == FALSE
  <2>1. ASSUME Skip
        PROVE  /\ AtWork /\ ~Installing /\ Report(Progress(status, says, 0)) /\ NextStep
               /\ recorded' \subseteq Remembered /\ vm' \in BOOLEAN
               /\ UNCHANGED <<limaVars, platform, screen, app, probing, last>>
    BY <1>1, <1>2, <2>1 DEF Skip, AtWork, OneAtWork
  <2>2. status \in {"skipped", "done"} /\ says \in BOOLEAN
    OBVIOUS
  <2> HIDE DEF status, says
  <2> QED
    BY <2>1, <2>2, GoesOn
<1>4. ASSUME NEW says \in BOOLEAN, worker.pc = "run", ~Installing, Done(says),
             vm' \in BOOLEAN, UNCHANGED <<limaVars, platform, screen, app, probing, last>>
      PROVE  IInv'
  <2> DEFINE status == "done"
  <2>1. /\ Report(Progress(status, says, 0)) /\ NextStep /\ AtWork
        /\ recorded' \subseteq Remembered /\ status \in {"skipped", "done"}
    BY <1>2, <1>4 DEF Done, AtWork
  <2> HIDE DEF status
  <2> QED
    BY <1>4, <2>1, GoesOn
<1>5. StepDone => IInv'
  <2> SUFFICES ASSUME StepDone PROVE IInv'
    OBVIOUS
  <2>1. /\ worker.pc = "run" /\ Step \notin DOMAIN Downloads
        /\ vm' = (vm \/ Step = "create_vm")
        /\ UNCHANGED <<limaVars, platform, screen, app, probing, last>>
    BY DEF StepDone
  <2>2. PICK says \in BOOLEAN : Done(says)
    BY DEF StepDone
  <2>3. ~Installing
    BY <1>1, <2>1 DEF OneAtWork
  <2>4. vm' \in BOOLEAN
    BY <2>1
  <2> QED
    BY <1>4, <2>1, <2>2, <2>3, <2>4
<1>6. DownloadDone => IInv'
  <2> SUFFICES ASSUME DownloadDone PROVE IInv'
    OBVIOUS
  <2> DEFINE says == FALSE
  <2>1. /\ worker.pc = "run" /\ Done(says) /\ says \in BOOLEAN /\ Here("done")
        /\ vm' = vm /\ UNCHANGED <<limaVars, platform, screen, app, probing, last>>
    BY DEF DownloadDone
  <2>2. ~Installing /\ vm' \in BOOLEAN
    BY <1>2, <2>1 DEF Installing, Here
  <2> HIDE DEF says
  <2> QED
    BY <1>4, <2>1, <2>2
<1>7. StepFails => IInv'
  <2> SUFFICES ASSUME StepFails PROVE IInv'
    OBVIOUS
  <2> DEFINE result == "failed"
  <2>1. /\ worker.pc = "run" /\ Step \notin DOMAIN Downloads /\ Raise(result, result)
        /\ result \in {"failed", "reboot"}
        /\ vm' = vm \/ vm' = TRUE
        /\ UNCHANGED <<part, archive, tree, previous, staged, inst, platform, recorded,
                       screen, app, probing, last>>
    BY DEF StepFails
  <2>2. faults' \in 0 .. MaxFaults
    BY <1>1 DEF StepFails, Fault, LimaInv, LimaTypeOK
  <2>3. ~Installing /\ vm' \in BOOLEAN /\ recorded' \subseteq Remembered
    BY <1>1, <1>2, <2>1 DEF OneAtWork
  <2> HIDE DEF result
  <2> QED
    BY <2>1, <2>2, <2>3, Raised
<1>8. DownloadFails => IInv'
  <2> SUFFICES ASSUME DownloadFails PROVE IInv'
    OBVIOUS
  <2> DEFINE result == "failed"
  <2>1. /\ worker.pc = "run" /\ Here("failed") /\ Raise(result, result)
        /\ result \in {"failed", "reboot"} /\ vm' = vm /\ recorded' = recorded
        /\ UNCHANGED <<part, archive, tree, previous, staged, inst, faults, platform,
                       screen, app, probing, last>>
    BY DEF DownloadFails, limaVars
  <2>2. faults' \in 0 .. MaxFaults
    BY <1>1, <2>1 DEF LimaInv, LimaTypeOK
  <2>3. ~Installing /\ vm' \in BOOLEAN /\ recorded' \subseteq Remembered
    BY <1>2, <2>1 DEF Installing, Here
  <2> HIDE DEF result
  <2> QED
    BY <2>1, <2>2, <2>3, Raised
<1>9. RebootRequired => IInv'
  <2> SUFFICES ASSUME RebootRequired PROVE IInv'
    OBVIOUS
  <2> DEFINE result == "reboot"
  <2>1. /\ worker.pc = "run" /\ Step = "reboot_gate" /\ Raise(result, result)
        /\ result \in {"failed", "reboot"} /\ vm' = vm /\ recorded' = recorded \cup {Step}
        /\ UNCHANGED <<part, archive, tree, previous, staged, inst, faults, platform,
                       screen, app, probing, last>>
    BY DEF RebootRequired, limaVars
  <2>2. faults' \in 0 .. MaxFaults
    BY <1>1, <2>1 DEF LimaInv, LimaTypeOK
  <2>3. "reboot_gate" \notin DOMAIN Downloads
    BY DEF Downloads
  <2>4. ~Installing /\ vm' \in BOOLEAN /\ recorded' \subseteq Remembered
    BY <1>1, <1>2, <2>1, <2>3 DEF OneAtWork, Remembered
  <2> HIDE DEF result
  <2> QED
    BY <2>1, <2>2, <2>4, Raised
<1> QED
  BY <1>3, <1>5, <1>6, <1>7, <1>8, <1>9, RunStepKeeps, EndKeeps, WorkingStepKeeps DEF Worker

-----------------------------------------------------------------------------
(* The steps of the window *)

LEMMA ScreensAre ==
  ASSUME AppTypes
  PROVE  /\ \A kind \in {"closed", "spinner", "status", "wizard"} :
              /\ Screen(kind) \in ScreenRec /\ Screen(kind).kind = kind
              /\ Screen(kind).finished = FALSE /\ Screen(kind).outcome = 0
              /\ Screen(kind).done = 0 /\ Screen(kind).bar = 0
         /\ NoWorker \in WorkerRec /\ NoWorker.pc = "none"
         /\ NoProbe \in ProbeRec /\ NoProbe.pc = "none"
         /\ \A auto \in BOOLEAN : Probe(auto) \in ProbeRec
         /\ [pc |-> "next", at |-> 1] \in WorkerRec
         /\ <<>> \in Seq(EventRec \cup {Sentinel})
<1>1. Len(Steps) \in {7, 9}
  BY StepsAre DEF AppTypes
<1>2. 1 \in 1 .. Len(Steps) /\ 0 \in 0 .. Len(Steps) /\ 0 \in Nat
  BY <1>1
<1>3. <<>> \in Seq(Nat) /\ <<>> \in Seq(EventRec \cup {Sentinel})
  OBVIOUS
<1>4. NoWorker \in WorkerRec /\ [pc |-> "next", at |-> 1] \in WorkerRec
  BY <1>2 DEF NoWorker, WorkerRec
<1>5. NoProbe \in ProbeRec /\ \A auto \in BOOLEAN : Probe(auto) \in ProbeRec
  BY DEF NoProbe, Probe, ProbeRec
<1>6. \A kind \in {"closed", "spinner", "status", "wizard"} : Screen(kind) \in ScreenRec
  BY <1>2, <1>3 DEF Screen, ScreenRec
<1> QED
  BY <1>3, <1>4, <1>5, <1>6 DEF Screen, NoWorker, NoProbe

\* Nobody is at work, and a run begins.
LEMMA StartKeeps ==
  ASSUME IInv, worker.pc = "none", StartWizard, app' \in [code : 0 .. 2, log : Seq(Nat)],
         UNCHANGED <<limaVars, platform, recorded, vm>>
  PROVE  IInv'
<1>1. AppTypes /\ LimaInv /\ OneAtWork
  BY DEF IInv
<1>2. /\ screen' = Screen("wizard") /\ worker' = [pc |-> "next", at |-> 1]
      /\ events' = <<>> /\ last' = "running" /\ probing' = NoProbe
  BY DEF StartWizard
<1>3. /\ screen' \in ScreenRec /\ screen'.kind = "wizard" /\ screen'.finished = FALSE
      /\ screen'.outcome = 0 /\ screen'.done = 0 /\ screen'.bar = 0
      /\ probing' \in ProbeRec /\ probing'.pc = "none" /\ worker' \in WorkerRec
      /\ events' \in Seq(EventRec \cup {Sentinel})
  BY <1>1, <1>2, ScreensAre
<1>4. worker'.pc = "next" /\ worker'.at = 1
  BY <1>2
<1>5. LimaInv' /\ ~Installing'
  BY <1>1 DEF limaVars, LimaInv, LimaTypeOK, InPlaceIsVerified, FailedRunKeepsLima, Here, RightBytes, Installing,
     OneAtWork
<1>6. AppTypes'
  <2>1. last' \in Results /\ recorded' \subseteq Remembered /\ vm' \in BOOLEAN
    BY <1>1, <1>2 DEF AppTypes, Results
  <2> QED
    BY <1>1, <1>3, <2>1, TypesNext
<1>7. OneAtWork' /\ Outcomes'
  BY <1>2, <1>3, <1>4, <1>5 DEF OneAtWork, OneRunAtATime, Outcomes, Shows
<1>8. Queue' /\ Bars'
  BY <1>2, <1>3, <1>4, Empties
<1> QED
  BY <1>5, <1>6, <1>7, <1>8 DEF IInv

\* Nobody is at work and nothing is in the queue, and a screen that is not a wizard's
\* comes up.
LEMMA ProbeKeeps ==
  ASSUME IInv, worker.pc = "none", worker' = worker, events' = <<>>,
         NEW kind \in {"spinner", "status"}, screen' = Screen(kind),
         probing' \in ProbeRec, probing'.pc # "none" => kind = "spinner",
         app' \in [code : 0 .. 2, log : Seq(Nat)], last' \in Results,
         app'.code = 0 => last' \in {"none", "ok"}, app'.code = 2 => last' = "reboot",
         UNCHANGED <<limaVars, platform, recorded, vm>>
  PROVE  IInv'
<1>1. AppTypes /\ LimaInv /\ OneAtWork
  BY DEF IInv
<1>2. /\ screen' \in ScreenRec /\ screen'.kind = kind /\ screen'.finished = FALSE
      /\ screen'.bar = 0 /\ screen'.done = 0
      /\ events' \in Seq(EventRec \cup {Sentinel})
  BY <1>1, ScreensAre
<1>3. LimaInv' /\ ~Installing'
  BY <1>1 DEF limaVars, LimaInv, LimaTypeOK, InPlaceIsVerified, FailedRunKeepsLima, Here, RightBytes, Installing,
     OneAtWork
<1>4. AppTypes'
  <2>1. worker' \in WorkerRec /\ recorded' \subseteq Remembered /\ vm' \in BOOLEAN
    BY <1>1 DEF AppTypes
  <2> QED
    BY <1>1, <1>2, <2>1, TypesNext
<1>5. OneAtWork' /\ Outcomes'
  BY <1>2, <1>3 DEF OneAtWork, OneRunAtATime, Outcomes, Shows
<1>6. Queue' /\ Bars'
  BY <1>2, Empties DEF AtWork
<1> QED
  BY <1>3, <1>4, <1>5, <1>6 DEF IInv

LEMMA UserKeeps ==
  ASSUME IInv, User \/ ProbeSeen
  PROVE  IInv'
<1>1. AppTypes /\ OneAtWork /\ Outcomes /\ Queue
  BY DEF IInv
<1>2. worker.pc = "none" /\ events = <<>>
  <2>1. CASE ~Shows("wizard")
    BY <1>1, <2>1 DEF OneAtWork, OneRunAtATime, Queue
  <2>2. CASE PressViewStatus
    BY <1>1, <2>2 DEF OneAtWork, OneRunAtATime, Queue, PressViewStatus
  <2>3. ProbeSeen => ~Shows("wizard")
    BY <1>1 DEF OneAtWork, ProbeSeen, Shows
  <2> QED
    BY <2>1, <2>2, <2>3 DEF User, OpenWindow, PressSetup, Shows
<1>3. /\ app \in [code : 0 .. 2, log : Seq(Nat)] /\ last \in Results
      /\ [code |-> 0, log |-> <<>>] \in [code : 0 .. 2, log : Seq(Nat)]
  <2>1. <<>> \in Seq(Nat)
    OBVIOUS
  <2> QED
    BY <1>1, <2>1 DEF AppTypes
<1>4. /\ NoProbe \in ProbeRec /\ NoProbe.pc = "none"
      /\ Probe(TRUE) \in ProbeRec /\ Probe(FALSE) \in ProbeRec
  BY <1>1, ScreensAre
<1>5. CASE OpenWindow
  <2>1. app' = [code |-> 0, log |-> <<>>] /\ UNCHANGED <<limaVars, platform, recorded, vm>>
    BY <1>5 DEF OpenWindow
  <2>2. app' \in [code : 0 .. 2, log : Seq(Nat)] /\ app'.code = 0
    BY <1>3, <2>1
  <2>3. CASE StartWizard
    BY <1>2, <2>1, <2>2, <2>3, StartKeeps
  <2>4. CASE BeginProbe(TRUE) /\ last' = "none" /\ UNCHANGED <<worker, events, said>>
    <3>1. screen' = Screen("spinner") /\ probing' = Probe(TRUE) /\ last' \in Results
      BY <2>4 DEF BeginProbe, Results
    <3> QED
      BY <1>2, <1>4, <2>1, <2>2, <2>4, <3>1, ProbeKeeps
  <2> QED
    BY <1>5, <2>3, <2>4 DEF OpenWindow
<1>6. CASE PressSetup
  <2>1. /\ StartWizard /\ UNCHANGED <<limaVars, platform, recorded, vm>>
        /\ app' \in [code : 0 .. 2, log : Seq(Nat)]
    BY <1>3, <1>6 DEF PressSetup
  <2> QED
    BY <1>2, <2>1, StartKeeps
<1>7. CASE PressViewStatus
  <2>1. /\ Shows("wizard") /\ screen.finished /\ screen.outcome # 0
        /\ screen' = Screen("spinner") /\ probing' = Probe(FALSE)
        /\ UNCHANGED <<limaVars, platform, recorded, vm>>
        /\ worker' = worker /\ events' = events /\ app' = app /\ last' = last
    BY <1>7 DEF PressViewStatus, BeginProbe
  <2>2. /\ app'.code = 0 => last' \in {"none", "ok"}
        /\ app'.code = 2 => last' = "reboot"
    BY <1>1, <2>1 DEF Outcomes
  <2>3. app' \in [code : 0 .. 2, log : Seq(Nat)] /\ last' \in Results
        /\ probing' \in ProbeRec /\ events' = <<>>
    BY <1>2, <1>3, <1>4, <2>1
  <2> QED
    BY <1>2, <2>1, <2>2, <2>3, ProbeKeeps
<1>8. CASE ProbeSeen
  <2>1. /\ probing.pc = "answered" /\ app' = app
        /\ UNCHANGED <<limaVars, platform, recorded, vm>>
        /\ \/ StartWizard
           \/ /\ screen' = Screen("status") /\ probing' = NoProbe
              /\ worker' = worker /\ events' = events /\ last' = last
    BY <1>8 DEF ProbeSeen
  <2>2. CASE StartWizard
    BY <1>2, <1>3, <2>1, <2>2, StartKeeps
  <2>3. CASE ~StartWizard
    <3>1. /\ app'.code = 0 => last' \in {"none", "ok"}
          /\ app'.code = 2 => last' = "reboot"
      BY <1>1, <2>1, <2>3 DEF Outcomes, OneAtWork, Shows
    <3>2. app' \in [code : 0 .. 2, log : Seq(Nat)] /\ last' \in Results
          /\ probing' \in ProbeRec /\ probing'.pc = "none" /\ events' = <<>>
      BY <1>2, <1>3, <1>4, <2>1, <2>3
    <3> QED
      BY <1>2, <2>1, <2>3, <3>1, <3>2, ProbeKeeps
  <2> QED
    BY <2>2, <2>3
<1> QED
  BY <1>5, <1>6, <1>7, <1>8 DEF User

LEMMA FinishKeeps ==
  ASSUME IInv, Finish
  PROVE  IInv' /\ (screen'.kind = "wizard" => NoFall)
<1>1. AppTypes /\ OneAtWork /\ Outcomes /\ Queue /\ LimaInv /\ Bars
  BY DEF IInv
<1>2. /\ screen.kind = "wizard" /\ ~screen.finished
      /\ events # <<>> /\ Head(events) = Sentinel /\ events' = Tail(events)
      /\ app' = [code |-> screen.outcome, log |-> Append(screen.log, 0)]
      /\ IF screen.outcome = 0
           THEN BeginProbe(FALSE)
           ELSE screen' = [screen EXCEPT !.finished = TRUE] /\ UNCHANGED probing
      /\ UNCHANGED <<limaVars, platform, recorded, vm>>
      /\ worker' = worker /\ last' = last
  BY DEF Finish, Keep, Shows
<1>3. worker.pc = "none" /\ events' = <<>>
  <2>1. /\ Len(events) \in Nat \ {0} /\ Head(events) = events[1]
        /\ Len(events) = 1 <=> Tail(events) = <<>>
    BY <1>1, <1>2, TailIs DEF AppTypes
  <2>2. 1 \in 1 .. Len(events) /\ events[1] = Sentinel
    BY <1>2, <2>1
  <2> QED
    BY <1>1, <1>2, <2>1, <2>2 DEF Queue
<1>4. /\ screen \in ScreenRec /\ worker \in WorkerRec /\ probing \in ProbeRec
      /\ last \in Results /\ recorded \subseteq Remembered /\ vm \in BOOLEAN
  BY <1>1 DEF AppTypes
<1>5. /\ app' \in [code : 0 .. 2, log : Seq(Nat)] /\ app'.code = screen.outcome
  <2>1. Append(screen.log, 0) \in Seq(Nat)
    BY <1>4 DEF ScreenRec
  <2>2. screen.outcome \in 0 .. 2
    BY <1>4 DEF ScreenRec
  <2> QED
    BY <1>2, <2>1, <2>2
<1>6. CASE screen.outcome = 0
  <2>1. screen' = Screen("spinner") /\ probing' = Probe(FALSE)
    BY <1>2, <1>6 DEF BeginProbe
  <2>2. last' \in {"none", "ok"} /\ app'.code = 0
    BY <1>1, <1>2, <1>3, <1>5, <1>6 DEF Outcomes, Shows
  <2>3. probing' \in ProbeRec /\ last' \in Results /\ screen'.kind = "spinner"
    BY <1>1, <1>2, <1>4, <2>1, ScreensAre
  <2>4. IInv'
    <3>1. /\ app'.code = 0 => last' \in {"none", "ok"}
          /\ app'.code = 2 => last' = "reboot"
      BY <2>2
    <3>2. worker' = worker /\ UNCHANGED <<limaVars, platform, recorded, vm>>
      BY <1>2
    <3>3. app' \in [code : 0 .. 2, log : Seq(Nat)]
      BY <1>5
    <3> QED
      BY <1>3, <2>1, <2>3, <3>1, <3>2, <3>3, ProbeKeeps
  <2> QED
    BY <2>3, <2>4
<1>7. CASE screen.outcome # 0
  <2>1. screen' = [screen EXCEPT !.finished = TRUE] /\ probing' = probing
    BY <1>2, <1>7
  <2>2. /\ screen' \in ScreenRec /\ screen'.kind = "wizard" /\ screen'.finished = TRUE
        /\ screen'.outcome = screen.outcome /\ screen'.done = screen.done
        /\ screen'.bar = screen.bar
    BY <1>2, <1>4, <2>1 DEF ScreenRec
  <2>3. events' \in Seq(EventRec \cup {Sentinel})
    BY <1>1, <1>3, ScreensAre
  <2>4. LimaInv' /\ ~Installing'
    BY <1>1, <1>2, <1>3 DEF limaVars, LimaInv, LimaTypeOK, InPlaceIsVerified, FailedRunKeepsLima, Here,
       RightBytes, Installing, OneAtWork
  <2>5. AppTypes'
    BY <1>1, <1>2, <1>4, <1>5, <2>1, <2>2, <2>3, TypesNext
  <2>6. OneAtWork' /\ Outcomes'
    <3>1. probing.pc = "none"
      BY <1>1, <1>2 DEF OneAtWork, Shows
    <3>2. OneAtWork'
      BY <1>2, <1>3, <2>1, <2>4, <3>1 DEF OneAtWork, OneRunAtATime
    <3>3. Outcomes'
      BY <1>1, <1>2, <1>3, <1>5, <1>7, <2>2 DEF Outcomes, Shows
    <3> QED
      BY <3>2, <3>3
  <2>7. screen.bar \in Nat
    BY <1>1, EventIs
  <2>8. Queue' /\ Bars'
    BY <1>2, <1>3, <2>2, Empties DEF AtWork
  <2>9. NoFall
    BY <2>2, <2>7 DEF NoFall
  <2> QED
    BY <2>4, <2>5, <2>6, <2>8, <2>9 DEF IInv
<1> QED
  BY <1>6, <1>7

LEMMA RenderStepKeeps ==
  ASSUME IInv, Render
  PROVE  IInv' /\ NoFall
<1>1. AppTypes /\ OneAtWork /\ Outcomes /\ Queue /\ LimaInv /\ Bars
  BY DEF IInv
<1>2. /\ screen.kind = "wizard" /\ ~screen.finished
      /\ UNCHANGED <<limaVars, platform, recorded, vm>>
      /\ worker' = worker /\ last' = last /\ app' = app /\ probing' = probing
  BY DEF Render, Shows
<1>3. /\ Queue' /\ Bars' /\ screen' \in ScreenRec /\ NoFall
      /\ screen'.kind = "wizard" /\ screen'.finished = FALSE
      /\ screen'.outcome = screen.outcome
      /\ events' \in Seq(EventRec \cup {Sentinel})
  BY <1>1, RenderKeeps
<1>4. LimaInv'
  BY <1>1, <1>2 DEF limaVars, LimaInv, LimaTypeOK, InPlaceIsVerified, FailedRunKeepsLima, Here, RightBytes
<1>5. AppTypes'
  <2>1. /\ worker' \in WorkerRec /\ probing' \in ProbeRec /\ last' \in Results
        /\ recorded' \subseteq Remembered /\ vm' \in BOOLEAN
        /\ app' \in [code : 0 .. 2, log : Seq(Nat)]
    BY <1>1, <1>2 DEF AppTypes
  <2> QED
    BY <1>1, <1>2, <1>3, <2>1, TypesNext
<1>6. OneAtWork'
  <2>1. Step' = Step /\ DOMAIN Downloads' = DOMAIN Downloads /\ Installing' = Installing
    BY <1>2 DEF Step, Steps, Downloads, Installing, limaVars
  <2> QED
    BY <1>1, <1>2, <1>3, <2>1 DEF OneAtWork, OneRunAtATime, Shows
<1>7. Outcomes'
  BY <1>1, <1>2, <1>3 DEF Outcomes, Shows
<1> QED
  BY <1>3, <1>4, <1>5, <1>6, <1>7 DEF IInv

LEMMA CloseKeeps ==
  ASSUME IInv, Close
  PROVE  IInv' /\ screen'.kind = "closed"
<1>1. AppTypes /\ OneAtWork /\ Outcomes /\ LimaInv
  BY DEF IInv
<1>2. /\ Killed /\ (faults' = faults \/ Fault)
      /\ app' = IF Shows("wizard") THEN [app EXCEPT !.code = Cancelled] ELSE app
      /\ screen' = Screen("closed")
      /\ worker' = NoWorker /\ events' = <<>> /\ probing' = NoProbe
      /\ platform' = platform /\ recorded' = recorded /\ vm' = vm /\ last' = last
  BY DEF Close
<1>3. LimaInv' /\ inst'.pc = "idle"
  <2>1. faults' \in 0 .. MaxFaults
    BY <1>1, <1>2 DEF Fault, LimaInv, LimaTypeOK
  <2> QED
    BY <1>1, <1>2, <2>1, KilledKeeps
<1>4. /\ screen' \in ScreenRec /\ screen'.kind = "closed" /\ screen'.finished = FALSE
      /\ screen'.bar = 0 /\ screen'.done = 0
      /\ worker' \in WorkerRec /\ worker'.pc = "none"
      /\ probing' \in ProbeRec /\ probing'.pc = "none"
      /\ events' \in Seq(EventRec \cup {Sentinel})
  BY <1>1, <1>2, ScreensAre
<1>5. /\ app' \in [code : 0 .. 2, log : Seq(Nat)]
      /\ app'.code = IF Shows("wizard") THEN Cancelled ELSE app.code
  <2>1. app \in [code : 0 .. 2, log : Seq(Nat)] /\ screen.outcome \in 0 .. 2
    BY <1>1 DEF AppTypes, ScreenRec
  <2>2. Cancelled \in 0 .. 2
    BY <2>1 DEF Cancelled
  <2> QED
    BY <1>2, <2>1, <2>2
<1>6. AppTypes'
  <2>1. last' \in Results /\ recorded' \subseteq Remembered /\ vm' \in BOOLEAN
    BY <1>1, <1>2 DEF AppTypes
  <2> QED
    BY <1>1, <1>2, <1>4, <1>5, <2>1, TypesNext
<1>7. OneAtWork'
  BY <1>3, <1>4 DEF OneAtWork, OneRunAtATime, Installing
<1>8. Outcomes'
  <2>1. /\ app'.code = 0 => last \in {"none", "ok"}
        /\ app'.code = 2 => last = "reboot"
    BY <1>1, <1>5 DEF Outcomes, Cancelled
  <2> QED
    BY <1>2, <1>4, <2>1 DEF Outcomes, Shows
<1>9. Queue' /\ Bars'
  BY <1>2, <1>4, Empties DEF AtWork
<1> QED
  BY <1>3, <1>4, <1>6, <1>7, <1>8, <1>9 DEF IInv

\* What does not touch the worker, the queue and the screen.
LEMMA AsideKeeps ==
  ASSUME IInv, LimaInv', part' = part, inst' = inst, probing' \in ProbeRec,
         probing'.pc # "none" => probing.pc # "none",
         UNCHANGED <<platform, recorded, vm, worker, events, screen, app, last>>
  PROVE  IInv'
<1>1. AppTypes /\ OneAtWork /\ Outcomes /\ LimaInv /\ Queue /\ Bars
  BY DEF IInv
<1>2. AppTypes'
  BY <1>1, TypesNext DEF AppTypes
<1>3. OneAtWork' /\ Outcomes'
  <2>1. Step' = Step /\ DOMAIN Downloads' = DOMAIN Downloads /\ Installing' = Installing
    BY DEF Step, Steps, Downloads, Installing
  <2> QED
    BY <1>1, <2>1 DEF OneAtWork, OneRunAtATime, Outcomes, Shows
<1>4. Queue' /\ Bars'
  <2>1. Ceiling' = Ceiling /\ Ceiling \in 0 .. Top
    BY <1>1, CeilingRange DEF Ceiling, Here, Share
  <2>2. Ceiling <= Ceiling' /\ AtWork' = AtWork
    BY <2>1 DEF AtWork
  <2> QED
    BY <1>1, <2>1, <2>2, Untold
<1> QED
  BY <1>2, <1>3, <1>4 DEF IInv

LEMMA ProbeAnswersKeeps ==
  ASSUME IInv, ProbeAnswers
  PROVE  IInv'
<1>1. AppTypes /\ LimaInv
  BY DEF IInv
<1>2. /\ probing.pc = "asking"
      /\ UNCHANGED <<limaVars, platform, recorded, vm, worker, events, screen, app, last>>
  BY DEF ProbeAnswers
<1>3. PICK seen \in {vm, FALSE} :
        probing' = [probing EXCEPT !.pc = "answered", !.vm = seen]
  BY DEF ProbeAnswers
<1>4. probing' \in ProbeRec
  <2>1. probing \in ProbeRec /\ seen \in BOOLEAN
    BY <1>1 DEF AppTypes
  <2> QED
    BY <1>3, <2>1 DEF ProbeRec
<1>5. LimaInv'
  BY <1>1, <1>2 DEF limaVars, LimaInv, LimaTypeOK, InPlaceIsVerified, FailedRunKeepsLima, Here, RightBytes
<1> QED
  BY <1>2, <1>4, <1>5, AsideKeeps DEF limaVars

-----------------------------------------------------------------------------
(* The invariant holds *)

LEMMA InitHolds ==
  ASSUME Init
  PROVE  IInv
<1>1. /\ part = NoPart /\ archive = "none" /\ tree \in {"none", "old"}
      /\ previous \in {"none", "old"} /\ staged = "none" /\ inst = Idle /\ faults = 0
      /\ platform \in Platforms /\ recorded = {} /\ vm = FALSE /\ worker = NoWorker
      /\ events = <<>> /\ screen = Screen("closed") /\ app = [code |-> 0, log |-> <<>>]
      /\ probing = NoProbe /\ last = "none"
  BY DEF Init, LimaInit
<1>2. LimaInv
  <2>1. part \in Part
    BY <1>1 DEF NoPart, Part, Longest
  <2>2. inst \in Run /\ inst.pc = "idle"
    BY <1>1, IdleIs
  <2> QED
    BY <1>1, <2>1, <2>2 DEF LimaInv, LimaTypeOK, InPlaceIsVerified, FailedRunKeepsLima, Here, Trees
<1>3. /\ worker.pc = "none" /\ probing.pc = "none" /\ screen.kind = "closed"
      /\ screen.finished = FALSE /\ screen.done = 0 /\ screen.bar = 0 /\ app.code = 0
      /\ inst.pc = "idle"
  BY <1>1 DEF NoWorker, NoProbe, Screen, Idle
<1>4. AppTypes
  <2>1. Len(Steps) \in {7, 9}
    BY <1>1, StepsAre
  <2>2. 1 \in 1 .. Len(Steps) /\ 0 \in 0 .. Len(Steps) /\ 0 \in Nat
    BY <2>1
  <2>3. <<>> \in Seq(Nat) /\ <<>> \in Seq(EventRec \cup {Sentinel})
    OBVIOUS
  <2>4. worker \in WorkerRec /\ probing \in ProbeRec
    BY <1>1, <2>2 DEF NoWorker, WorkerRec, NoProbe, ProbeRec
  <2>5. screen \in ScreenRec
    BY <1>1, <2>2, <2>3 DEF Screen, ScreenRec
  <2>6. app \in [code : 0 .. 2, log : Seq(Nat)]
    BY <1>1, <2>3
  <2> QED
    BY <1>1, <2>3, <2>4, <2>5, <2>6 DEF AppTypes, Results
<1>5. OneAtWork /\ Outcomes
  BY <1>1, <1>3 DEF OneAtWork, OneRunAtATime, Outcomes, Shows, Installing
<1>6. \A i \in 1 .. Len(events) : FALSE
  BY <1>1
<1>7. Queue /\ Bars
  BY <1>1, <1>3, <1>6 DEF Queue, Bars, AtWork
<1> QED
  BY <1>2, <1>4, <1>5, <1>7 DEF IInv

LEMMA Inductive ==
  ASSUME IInv, [Next]_allVars
  PROVE  IInv'
<1>1. AppTypes /\ LimaInv
  BY DEF IInv
<1>2. probing \in ProbeRec
  BY <1>1 DEF AppTypes
<1>3. CASE Damage /\ UNCHANGED appVars
  <2>1. LimaInv' /\ part' = part /\ inst' = inst
    BY <1>1, <1>3, DamageKeeps DEF Damage
  <2> QED
    BY <1>2, <1>3, <2>1, AsideKeeps DEF appVars
<1>4. CASE UNCHANGED allVars
  <2>1. LimaInv' /\ part' = part /\ inst' = inst
    BY <1>1, <1>4
       DEF allVars, limaVars, LimaInv, LimaTypeOK, InPlaceIsVerified, FailedRunKeepsLima, Here, RightBytes
  <2> QED
    BY <1>2, <1>4, <2>1, AsideKeeps DEF allVars, appVars
<1> QED
  BY <1>3, <1>4, WorkerKeeps, UserKeeps, FinishKeeps, RenderStepKeeps, CloseKeeps,
     ProbeAnswersKeeps DEF Next, Pump

LEMMA Always ==
  Spec => []IInv
<1>1. Init => IInv
  BY InitHolds
<1>2. IInv /\ [Next]_allVars => IInv'
  BY Inductive
<1> QED
  BY <1>1, <1>2, PTL DEF Spec

-----------------------------------------------------------------------------
(* The messages *)

\* An event whose message goes to the log.
Spoken(e) ==
    /\ e # Sentinel /\ e.says /\ e.status \notin {"percent", "running"}
    /\ Steps[e.step] # "finish"

Increasing(s) == \A i \in 1 .. Len(s), j \in 1 .. Len(s) : i < j => s[i] < s[j]

\* The log of a screen has the first messages of the run, and the others are those that
\* the events in the queue have.
Drawn(log, queue, messages) ==
    /\ Len(log) <= Len(messages) /\ \A i \in 1 .. Len(log) : log[i] = messages[i]
    /\ \A i \in 1 .. Len(messages) : i > Len(log) =>
         \E k \in 1 .. Len(queue) : Spoken(queue[k]) /\ queue[k].step = messages[i]
    /\ \A k \in 1 .. Len(queue) : Spoken(queue[k]) =>
         \E i \in 1 .. Len(messages) : i > Len(log) /\ queue[k].step = messages[i]

\* The messages are of one step after the other, and whoever is at work has not yet spoken
\* at its step.
Messaging ==
    /\ said \in Seq(1 .. Len(Steps)) /\ Increasing(said)
    /\ AtWork => \A i \in 1 .. Len(said) : said[i] < worker.at
    /\ Shows("wizard") /\ ~screen.finished => Drawn(screen.log, events, ButFinish(said))

\* All messages but that of the last step are for the log.
LEMMA ButFinishOther ==
  ASSUME platform \in Platforms, NEW s \in Seq(1 .. Len(Steps)),
         \A i \in 1 .. Len(s) : s[i] # Len(Steps)
  PROVE  ButFinish(s) = s
<1>1. s # <<>> => Len(s) \in 1 .. Len(s)
  <2>1. Len(s) \in Nat /\ (Len(s) = 0 => s = <<>>)
    OBVIOUS
  <2> QED
    BY <2>1
<1>2. s # <<>> => s[Len(s)] \in 1 .. Len(Steps) /\ s[Len(s)] # Len(Steps)
  BY <1>1
<1>3. s # <<>> => Steps[s[Len(s)]] # "finish"
  BY <1>2, StepsAre
<1> QED
  BY <1>3 DEF ButFinish

LEMMA ButFinishLast ==
  ASSUME platform \in Platforms, NEW s \in Seq(1 .. Len(Steps))
  PROVE  ButFinish(Append(s, Len(Steps))) = s
<1> DEFINE n == Len(Steps)
           t == Append(s, n)
           u == SubSeq(t, 1, Len(t) - 1)
<1>1. n \in 1 .. n /\ Steps[n] = "finish"
  <2>1. n \in {7, 9} /\ \A i \in 1 .. n : Steps[i] = "finish" <=> i = n
    BY StepsAre
  <2>2. n \in 1 .. n
    BY <2>1
  <2> QED
    BY <2>1, <2>2
<1> HIDE DEF n
<1>2. /\ t # <<>> /\ Len(t) = Len(s) + 1 /\ Len(s) \in Nat /\ t[Len(s) + 1] = n
      /\ \A i \in 1 .. Len(s) : t[i] = s[i]
  <2>1. s \in Seq(1 .. n)
    BY DEF n
  <2> QED
    BY <1>1, <2>1, AppendIs
<1> HIDE DEF t
<1>3. ButFinish(t) = u
  BY <1>1, <1>2 DEF ButFinish
<1>4. Len(t) - 1 = Len(s) /\ \A i \in 1 .. Len(s) : t[i] \in 1 .. Len(Steps)
  BY <1>2
<1>5. /\ u \in Seq(1 .. Len(Steps)) /\ Len(u) = Len(s)
      /\ \A i \in 1 .. Len(s) : u[i] = s[i]
  <2> DEFINE m == Len(s)
  <2>1. m \in Int /\ 1 \in Int /\ u = SubSeq(t, 1, m) /\ \A i \in 1 .. m : t[i] \in 1 .. Len(Steps)
    BY <1>2, <1>4
  <2> HIDE DEF m, u
  <2>2. /\ u \in Seq(1 .. Len(Steps))
        /\ Len(u) = IF 1 <= m THEN m - 1 + 1 ELSE 0
        /\ \A i \in 1 .. m - 1 + 1 : u[i] = t[1 + i - 1]
    BY <2>1, SubSeqProperties
  <2>3. Len(u) = m /\ \A i \in 1 .. m : u[i] = t[i]
    BY <1>2, <2>2 DEF m
  <2> QED
    BY <1>2, <2>2, <2>3 DEF m
<1> HIDE DEF u
<1>6. u = s
  BY <1>5, SeqEqual
<1> QED
  BY <1>3, <1>6 DEF t, n

\* What is for the log is in order as well.
LEMMA ButFinishOrder ==
  ASSUME platform \in Platforms, NEW s \in Seq(1 .. Len(Steps)), Increasing(s)
  PROVE  ButFinish(s) \in Seq(Nat) /\ Increasing(ButFinish(s))
<1> DEFINE m == Len(s) - 1
           u == SubSeq(s, 1, m)
<1>1. Len(s) \in Nat /\ \A i \in 1 .. Len(s) : s[i] \in Nat
  OBVIOUS
<1>2. m \in Int /\ 1 \in Int /\ \A i \in 1 .. m : s[i] \in Nat
  BY <1>1
<1>3. ButFinish(s) = s \/ (ButFinish(s) = u /\ s # <<>>)
  BY DEF ButFinish
<1> HIDE DEF m
<1>4. /\ u \in Seq(Nat) /\ Len(u) = IF 1 <= m THEN m - 1 + 1 ELSE 0
      /\ \A i \in 1 .. m - 1 + 1 : u[i] = s[1 + i - 1]
  BY <1>2, SubSeqProperties
<1> HIDE DEF u
<1>5. \A i \in 1 .. Len(u) : i \in 1 .. Len(s) /\ u[i] = s[i]
  BY <1>1, <1>4 DEF m
<1>6. Increasing(u)
  BY <1>5 DEF Increasing
<1>7. s \in Seq(Nat)
  BY <1>1
<1> QED
  BY <1>3, <1>4, <1>6, <1>7

LEMMA DrawnQuiet ==
  ASSUME NEW S, NEW queue \in Seq(S), NEW e \in S, ~Spoken(e), NEW log, NEW messages,
         Drawn(log, queue, messages)
  PROVE  Drawn(log, Append(queue, e), messages)
<1> DEFINE q == Append(queue, e)
<1>1. /\ Len(queue) \in Nat /\ Len(q) = Len(queue) + 1 /\ q[Len(queue) + 1] = e
      /\ \A i \in 1 .. Len(queue) : q[i] = queue[i]
  BY AppendIs
<1> HIDE DEF q
<1>2. \A k \in 1 .. Len(q) : Spoken(q[k]) => k \in 1 .. Len(queue) /\ q[k] = queue[k]
  BY <1>1
<1>3. \A k \in 1 .. Len(queue) : k \in 1 .. Len(q) /\ q[k] = queue[k]
  BY <1>1
<1> QED
  BY <1>2, <1>3 DEF Drawn, q

LEMMA DrawnSpoken ==
  ASSUME NEW S, NEW queue \in Seq(S), NEW e \in S, Spoken(e), NEW log \in Seq(Nat),
         NEW messages \in Seq(Nat), e.step \in Nat, Drawn(log, queue, messages)
  PROVE  Drawn(log, Append(queue, e), Append(messages, e.step))
<1> DEFINE q == Append(queue, e)
           m == Append(messages, e.step)
           n == Len(queue)
           l == Len(messages)
<1>1. /\ n \in Nat /\ Len(q) = n + 1 /\ q[n + 1] = e
      /\ \A k \in 1 .. n : q[k] = queue[k]
  BY AppendIs
<1>2. /\ l \in Nat /\ Len(m) = l + 1 /\ m[l + 1] = e.step
      /\ \A i \in 1 .. l : m[i] = messages[i]
  BY AppendIs
<1>3. Len(log) \in Nat /\ Len(log) <= l /\ \A i \in 1 .. Len(log) : log[i] = messages[i]
  BY DEF Drawn
<1> HIDE DEF q, m
<1>4. Len(log) <= Len(m) /\ \A i \in 1 .. Len(log) : log[i] = m[i]
  BY <1>2, <1>3
<1>5. ASSUME NEW i \in 1 .. Len(m), i > Len(log)
      PROVE  \E k \in 1 .. Len(q) : Spoken(q[k]) /\ q[k].step = m[i]
  <2>1. CASE i = l + 1
    <3>1. n + 1 \in 1 .. Len(q) /\ Spoken(q[n + 1]) /\ q[n + 1].step = m[i]
      BY <1>1, <1>2, <2>1
    <3> QED
      BY <3>1
  <2>2. CASE i # l + 1
    <3>1. i \in 1 .. l
      <4>1. i \in 1 .. l + 1
        BY <1>2
      <4> HIDE DEF l
      <4> QED
        BY <1>2, <2>2, <4>1
    <3>2. PICK k \in 1 .. n : Spoken(queue[k]) /\ queue[k].step = messages[i]
      BY <1>5, <3>1 DEF Drawn
    <3>3. k \in 1 .. Len(q)
      BY <1>1
    <3> QED
      BY <1>1, <1>2, <3>1, <3>2, <3>3
  <2> QED
    BY <2>1, <2>2
<1>6. ASSUME NEW k \in 1 .. Len(q), Spoken(q[k])
      PROVE  \E i \in 1 .. Len(m) : i > Len(log) /\ q[k].step = m[i]
  <2>1. CASE k = n + 1
    <3>1. l + 1 \in 1 .. Len(m) /\ l + 1 > Len(log) /\ q[k].step = m[l + 1]
      BY <1>1, <1>2, <1>3, <2>1
    <3> QED
      BY <3>1
  <2>2. CASE k # n + 1
    <3>1. k \in 1 .. n /\ q[k] = queue[k]
      <4>1. k \in 1 .. n + 1
        BY <1>1
      <4> HIDE DEF n
      <4> QED
        BY <1>1, <2>2, <4>1
    <3>2. PICK i \in 1 .. l : i > Len(log) /\ queue[k].step = messages[i]
      BY <1>6, <3>1 DEF Drawn
    <3>3. i \in 1 .. Len(m) /\ m[i] = messages[i]
      BY <1>2
    <3> QED
      BY <3>1, <3>2, <3>3
  <2> QED
    BY <2>1, <2>2
<1> QED
  BY <1>4, <1>5, <1>6 DEF Drawn, q, m

\* The first event of the queue, drawn: its message is the next one of the run.
LEMMA DrawnTail ==
  ASSUME NEW S, NEW queue \in Seq(S), queue # <<>>, NEW log \in Seq(Nat),
         NEW messages \in Seq(Nat), Increasing(messages),
         \A k \in 1 .. Len(queue) : Spoken(queue[k]) => queue[k].step \in Nat,
         \A k \in 1 .. Len(queue) :
           1 < k /\ Spoken(queue[1]) /\ Spoken(queue[k]) => queue[1].step < queue[k].step,
         Drawn(log, queue, messages)
  PROVE  Drawn(IF Spoken(queue[1]) THEN Append(log, queue[1].step) ELSE log,
               Tail(queue), messages)
<1> DEFINE q == Tail(queue)
           n == Len(queue)
           l == Len(log)
<1>1. n \in Nat \ {0} /\ Len(q) = n - 1 /\ \A k \in 1 .. n - 1 : q[k] = queue[k + 1]
  BY TailIs
<1> HIDE DEF q
<1>2. /\ l \in Nat /\ Len(messages) \in Nat /\ l <= Len(messages)
      /\ \A i \in 1 .. l : log[i] = messages[i]
      /\ \A i \in 1 .. Len(messages) : messages[i] \in Nat
  BY DEF Drawn
<1>3. \A k \in 1 .. Len(q) : q[k] = queue[k + 1] /\ k + 1 \in 1 .. n /\ 1 < k + 1
  <2> HIDE DEF n
  <2>1. \A k \in 1 .. n - 1 : k + 1 \in 1 .. n /\ 1 < k + 1
    BY <1>1
  <2> QED
    BY <1>1, <2>1
<1>4. \A k \in 1 .. n : k # 1 => k - 1 \in 1 .. Len(q) /\ q[k - 1] = queue[k]
  <2> TAKE k \in 1 .. n
  <2>1. k # 1 => k - 1 \in 1 .. Len(q) /\ (k - 1) + 1 = k
    BY <1>1
  <2> QED
    BY <1>3, <2>1
<1>5. 1 \in 1 .. n
  BY <1>1
<1>6. CASE Spoken(queue[1])
  <2> DEFINE first == queue[1].step
             to == Append(log, first)
  <2>1. first \in Nat
    BY <1>5, <1>6
  <2>2. PICK i \in 1 .. Len(messages) : i > l /\ first = messages[i]
    BY <1>5, <1>6 DEF Drawn
  <2>3. l + 1 \in 1 .. Len(messages) /\ l + 1 > l
    BY <1>2, <2>2
  <2>4. PICK k \in 1 .. n : Spoken(queue[k]) /\ queue[k].step = messages[l + 1]
    BY <2>3 DEF Drawn
  <2>5. first <= messages[l + 1]
    <3>1. CASE k = 1
      BY <1>2, <2>1, <2>3, <2>4, <3>1
    <3>2. CASE k # 1
      <4>1. 1 < k
        BY <3>2
      <4>2. first < messages[l + 1]
        BY <1>6, <2>4, <4>1
      <4>3. messages[l + 1] \in Nat
        BY <1>2, <2>3
      <4> HIDE DEF first
      <4> QED
        BY <2>1, <4>2, <4>3
    <3> QED
      BY <3>1, <3>2
  <2>6. i = l + 1
    <3>1. l + 1 < i => messages[l + 1] < messages[i]
      BY <2>2, <2>3 DEF Increasing
    <3> QED
      BY <1>2, <2>1, <2>2, <2>3, <2>5, <3>1
  <2>7. first = messages[l + 1]
    BY <2>2, <2>6
  <2> HIDE DEF first
  <2>8. /\ Len(to) = l + 1 /\ to[l + 1] = first /\ \A j \in 1 .. l : to[j] = log[j]
    BY <2>1, AppendIs
  <2> HIDE DEF to
  <2>9. Len(to) <= Len(messages) /\ \A j \in 1 .. Len(to) : to[j] = messages[j]
    <3> HIDE DEF l
    <3>1. \A j \in 1 .. l + 1 : j \in 1 .. l \/ j = l + 1
      BY <1>2
    <3>2. l + 1 <= Len(messages)
      BY <1>2, <2>3
    <3> QED
      BY <1>2, <2>7, <2>8, <3>1, <3>2
  <2>10. ASSUME NEW j \in 1 .. Len(messages), j > Len(to)
         PROVE  \E h \in 1 .. Len(q) : Spoken(q[h]) /\ q[h].step = messages[j]
    <3>1. j > l /\ l + 1 < j
      BY <1>2, <2>8, <2>10
    <3>2. PICK h \in 1 .. n : Spoken(queue[h]) /\ queue[h].step = messages[j]
      BY <3>1 DEF Drawn
    <3>3. messages[l + 1] < messages[j]
      BY <2>3, <3>1 DEF Increasing
    <3>4. h # 1
      BY <1>2, <2>1, <2>3, <2>7, <3>2, <3>3 DEF first
    <3> QED
      BY <1>4, <3>2, <3>4
  <2>11. ASSUME NEW h \in 1 .. Len(q), Spoken(q[h])
         PROVE  \E j \in 1 .. Len(messages) : j > Len(to) /\ q[h].step = messages[j]
    <3> DEFINE g == h + 1
    <3>1. g \in 1 .. n /\ 1 < g /\ q[h] = queue[g]
      BY <1>3
    <3> HIDE DEF g
    <3>2. PICK j \in 1 .. Len(messages) : j > l /\ queue[g].step = messages[j]
      BY <2>11, <3>1 DEF Drawn
    <3>3. first < queue[g].step
      BY <1>6, <2>11, <3>1 DEF first
    <3>4. j # l + 1
      BY <1>2, <2>1, <2>7, <3>2, <3>3
    <3>5. j > Len(to)
      BY <1>2, <2>8, <3>2, <3>4
    <3> QED
      BY <3>1, <3>2, <3>5
  <2> QED
    BY <1>6, <2>9, <2>10, <2>11 DEF Drawn, q, to, first
<1>7. CASE ~Spoken(queue[1])
  <2>1. ASSUME NEW i \in 1 .. Len(messages), i > l
        PROVE  \E h \in 1 .. Len(q) : Spoken(q[h]) /\ q[h].step = messages[i]
    <3>1. PICK k \in 1 .. n : Spoken(queue[k]) /\ queue[k].step = messages[i]
      BY <2>1 DEF Drawn
    <3> QED
      BY <1>4, <1>7, <3>1
  <2>2. ASSUME NEW h \in 1 .. Len(q), Spoken(q[h])
        PROVE  \E i \in 1 .. Len(messages) : i > l /\ q[h].step = messages[i]
    <3> DEFINE g == h + 1
    <3>1. g \in 1 .. n /\ q[h] = queue[g]
      BY <1>3
    <3> HIDE DEF g
    <3> QED
      BY <2>2, <3>1 DEF Drawn
  <2> QED
    BY <1>2, <1>7, <2>1, <2>2 DEF Drawn, q
<1> QED
  BY <1>6, <1>7

\* Nothing in the queue has a message any more.
LEMMA DrawnAll ==
  ASSUME NEW log \in Seq(Nat), NEW messages \in Seq(Nat), NEW queue,
         Drawn(log, queue, messages), \A k \in 1 .. Len(queue) : ~Spoken(queue[k])
  PROVE  log = messages
<1>1. Len(log) \in Nat /\ Len(messages) \in Nat /\ Len(log) <= Len(messages)
      /\ \A i \in 1 .. Len(log) : log[i] = messages[i]
  BY DEF Drawn
<1>2. \A i \in 1 .. Len(messages) : ~(i > Len(log))
  BY DEF Drawn
<1>3. Len(messages) \in 1 .. Len(messages) \/ Len(messages) = 0
  BY <1>1
<1>4. Len(log) = Len(messages)
  BY <1>1, <1>2, <1>3
<1> QED
  BY <1>1, <1>4, SeqEqual

\* What the screen has drawn and the queue holds, in the next state.
LEMMA DrawnNext ==
  ASSUME UNCHANGED platform, Drawn(screen'.log, events', ButFinish(said'))
  PROVE  Drawn(screen.log, events, ButFinish(said))'
<1>1. Steps' = Steps
  BY SamePlatform
<1> QED
  BY <1>1 DEF Drawn, Spoken, ButFinish, Sentinel

\* A report without a message, or the sentinel.
LEMMA Hushed ==
  ASSUME AppTypes, NEW e \in EventRec \cup {Sentinel}, ~Spoken(e),
         Drawn(screen.log, events, ButFinish(said)), ButFinish(said') = ButFinish(said),
         events' = Append(events, e), screen'.log = screen.log, UNCHANGED platform
  PROVE  Drawn(screen.log, events, ButFinish(said))'
<1>1. events \in Seq(EventRec \cup {Sentinel})
  BY DEF AppTypes
<1> DEFINE messages == ButFinish(said)
           log == screen.log
<1>2. Drawn(log, events, messages)
  OBVIOUS
<1> HIDE DEF messages, log
<1>3. Drawn(log, Append(events, e), messages)
  BY <1>1, <1>2, DrawnQuiet
<1> QED
  BY <1>3, DrawnNext DEF messages, log

LEMMA SaysNothing ==
  ASSUME AppTypes, Drawn(screen.log, events, ButFinish(said)), NEW status \in Statuses,
         Report(Progress(status, FALSE, 0)), UNCHANGED <<platform, screen>>
  PROVE  said' = said /\ Drawn(screen.log, events, ButFinish(said))'
<1> DEFINE e == Progress(status, FALSE, 0)
           says == FALSE
<1>1. e.says = FALSE
  BY DEF Progress
<1>2. said' = said
  BY <1>1 DEF Report
<1>3. e \in EventRec /\ events' = Append(events, e)
  <2>1. says \in BOOLEAN /\ 0 \in 0 .. Top
    OBVIOUS
  <2>2. e = Progress(status, says, 0) /\ Report(e)
    OBVIOUS
  <2> HIDE DEF e, says
  <2> QED
    BY <2>1, <2>2, ReportIs
<1>4. ~Spoken(e)
  BY <1>1 DEF Spoken
<1> HIDE DEF e
<1> QED
  BY <1>2, <1>3, <1>4, Hushed

\* What was said, and who is at work, in the next state: nothing new ...
LEMMA SaidSame ==
  ASSUME AppTypes, Messaging, said' = said, platform' = platform,
         AtWork' => AtWork /\ worker'.at \in Nat /\ worker.at <= worker'.at,
         (Shows("wizard") /\ ~screen.finished => Drawn(screen.log, events, ButFinish(said)))'
  PROVE  Messaging'
<1>1. Len(Steps)' = Len(Steps)
  BY SamePlatform
<1>2. said \in Seq(1 .. Len(Steps)) /\ Increasing(said) /\ worker.at \in Nat
      /\ \A i \in 1 .. Len(said) : said[i] \in Nat
  BY EventIs DEF Messaging
<1>3. ASSUME AtWork', NEW i \in 1 .. Len(said) PROVE said[i] < worker'.at
  <2>1. said[i] < worker.at
    BY <1>3 DEF Messaging
  <2> QED
    BY <1>2, <1>3, <2>1
<1> QED
  BY <1>1, <1>2, <1>3 DEF Messaging, Increasing

\* ... or something at this step.
LEMMA SaidMore ==
  ASSUME AppTypes, Messaging, AtWork, said' = Append(said, worker.at), platform' = platform,
         AtWork' => worker'.at = worker.at + 1,
         Drawn(screen.log, events, ButFinish(said))'
  PROVE  Messaging'
<1>1. Len(Steps)' = Len(Steps)
  BY SamePlatform
<1>2. /\ said \in Seq(1 .. Len(Steps)) /\ worker.at \in 1 .. Len(Steps) /\ worker.at \in Nat
      /\ \A i \in 1 .. Len(said) : said[i] \in Nat /\ said[i] < worker.at
  BY EventIs DEF Messaging, AppTypes, WorkerRec
<1> DEFINE t == Append(said, worker.at)
<1>3. /\ t \in Seq(1 .. Len(Steps)) /\ Len(t) = Len(said) + 1 /\ Len(said) \in Nat
      /\ t[Len(said) + 1] = worker.at /\ \A i \in 1 .. Len(said) : t[i] = said[i]
  BY <1>2, AppendIs
<1> HIDE DEF t
<1>4. \A i \in 1 .. Len(t) :
        \/ i \in 1 .. Len(said) /\ t[i] = said[i]
        \/ i = Len(said) + 1 /\ t[i] = worker.at
  BY <1>3
<1>5. Increasing(t)
  <2> SUFFICES ASSUME NEW i \in 1 .. Len(t), NEW j \in 1 .. Len(t), i < j
               PROVE  t[i] < t[j]
    BY DEF Increasing
  <2>1. i \in 1 .. Len(said) /\ t[i] = said[i]
    BY <1>3, <1>4
  <2>2. CASE j \in 1 .. Len(said)
    BY <1>4, <2>1, <2>2, <1>3 DEF Messaging, Increasing
  <2>3. CASE j \notin 1 .. Len(said)
    BY <1>2, <1>4, <2>1, <2>3
  <2> QED
    BY <2>2, <2>3
<1>6. ASSUME AtWork', NEW i \in 1 .. Len(t) PROVE t[i] < worker'.at
  BY <1>2, <1>4, <1>6
<1>7. said' = t
  BY DEF t
<1> QED
  BY <1>1, <1>3, <1>5, <1>6, <1>7 DEF Messaging, Increasing

\* A report with a message: it waits in the queue, unless it is that of the last step.
LEMMA Speaks ==
  ASSUME AppTypes, Messaging, AtWork, Drawn(screen.log, events, ButFinish(said)),
         NEW status \in {"done", "failed"}, Report(Progress(status, TRUE, 0)),
         UNCHANGED <<platform, screen>>
  PROVE  /\ said' = Append(said, worker.at)
         /\ Drawn(screen.log, events, ButFinish(said))'
<1> DEFINE e == Progress(status, TRUE, 0)
           says == TRUE
<1>1. e.says = TRUE /\ e.status = status /\ e.step = worker.at
  BY DEF Progress
<1>2. said' = Append(said, worker.at)
  BY <1>1 DEF Report
<1>3. e \in EventRec /\ events' = Append(events, e)
  <2>1. status \in Statuses /\ says \in BOOLEAN /\ 0 \in 0 .. Top
    BY DEF Statuses
  <2>2. e = Progress(status, says, 0) /\ Report(e)
    OBVIOUS
  <2> HIDE DEF e, says
  <2> QED
    BY <2>1, <2>2, ReportIs
<1>4. /\ worker.at \in 1 .. Len(Steps) /\ worker.at \in Nat /\ platform \in Platforms
      /\ said \in Seq(1 .. Len(Steps)) /\ \A i \in 1 .. Len(said) : said[i] < worker.at
      /\ Steps[worker.at] = "finish" <=> worker.at = Len(Steps)
  <2>1. worker.at \in 1 .. Len(Steps) /\ platform \in Platforms
    BY DEF AppTypes, WorkerRec
  <2> QED
    BY <2>1, EventIs, StepsAre DEF Messaging
<1>5. \A i \in 1 .. Len(said) : said[i] \in Nat /\ said[i] # Len(Steps)
  <2>1. Len(Steps) \in Nat /\ \A i \in 1 .. Len(said) : said[i] \in 1 .. Len(Steps)
    BY <1>4, EventIs
  <2>2. \A i \in 1 .. Len(said) : said[i] \in Nat /\ said[i] < worker.at
    BY <1>4, <2>1
  <2> QED
    BY <1>4, <2>1, <2>2
<1>6. ButFinish(said) = said
  <2>1. \A i \in 1 .. Len(said) : said[i] \in Nat /\ said[i] # Len(Steps)
    BY <1>5
  <2> QED
    BY <1>4, <2>1, ButFinishOther
<1> HIDE DEF e
<1>7. CASE worker.at = Len(Steps)
  <2>1. ~Spoken(e)
    BY <1>1, <1>4, <1>7 DEF Spoken
  <2>2. ButFinish(said') = ButFinish(said)
    BY <1>2, <1>4, <1>6, <1>7, ButFinishLast
  <2> QED
    BY <1>2, <1>3, <2>1, <2>2, Hushed
<1>8. CASE worker.at # Len(Steps)
  <2>1. Spoken(e)
    <3>1. e # Sentinel
      BY <1>3, EventIs
    <3> QED
      BY <1>1, <1>4, <1>8, <3>1 DEF Spoken
  <2> DEFINE t == Append(said, worker.at)
  <2>2. t \in Seq(1 .. Len(Steps)) /\ \A i \in 1 .. Len(t) : t[i] # Len(Steps)
    <3>1. /\ t \in Seq(1 .. Len(Steps)) /\ Len(t) = Len(said) + 1 /\ Len(said) \in Nat
          /\ t[Len(said) + 1] = worker.at /\ \A i \in 1 .. Len(said) : t[i] = said[i]
      BY <1>4, AppendIs
    <3> HIDE DEF t
    <3>2. \A i \in 1 .. Len(t) : i \in 1 .. Len(said) \/ i = Len(said) + 1
      BY <3>1
    <3>3. \A i \in 1 .. Len(said) : said[i] \in Nat /\ said[i] # Len(Steps)
      BY <1>5
    <3> QED
      BY <1>8, <3>1, <3>2, <3>3
  <2> HIDE DEF t
  <2>3. ButFinish(t) = t
    BY <1>4, <2>2, ButFinishOther
  <2>4. Drawn(screen.log, Append(events, e), Append(said, e.step))
    <3> DEFINE log == screen.log
    <3>1. /\ log \in Seq(Nat) /\ said \in Seq(Nat) /\ e.step \in Nat
          /\ events \in Seq(EventRec \cup {Sentinel}) /\ e \in EventRec \cup {Sentinel}
          /\ Drawn(log, events, said)
      <4>1. log \in Seq(Nat) /\ events \in Seq(EventRec \cup {Sentinel})
        BY DEF AppTypes, ScreenRec
      <4>2. said \in Seq(Nat)
        <5>1. \A i \in 1 .. Len(said) : said[i] \in Nat
          BY <1>4
        <5> QED
          BY <1>4, <5>1
      <4> QED
        BY <1>1, <1>3, <1>4, <1>6, <4>1, <4>2
    <3> HIDE DEF log
    <3>2. Drawn(log, Append(events, e), Append(said, e.step))
      BY <2>1, <3>1, DrawnSpoken
    <3> QED
      BY <3>2 DEF log
  <2>5. Drawn(screen'.log, events', ButFinish(said'))
    BY <1>1, <1>2, <1>3, <2>3, <2>4 DEF t
  <2> QED
    BY <1>2, <2>5, DrawnNext
<1> QED
  BY <1>7, <1>8

\* A worker that goes on after a step has said what it had to.
LEMMA OnKeeps ==
  ASSUME IInv, Messaging, AtWork, NEW status \in {"skipped", "done"}, NEW says \in BOOLEAN,
         says => status = "done",
         Report(Progress(status, says, 0)), NextStep, UNCHANGED <<platform, screen>>
  PROVE  Messaging'
<1>1. AppTypes /\ OneRunAtATime
  BY DEF IInv, OneAtWork
<1>2. Drawn(screen.log, events, ButFinish(said))
  BY <1>1 DEF Messaging, OneRunAtATime, AtWork
<1>3. Len(Steps) \in Nat /\ worker.at \in Nat
  BY <1>1, EventIs DEF AppTypes, WorkerRec
<1>4. AtWork' => worker'.at = worker.at + 1
  <2>1. CASE worker.at < Len(Steps)
    BY <2>1 DEF NextStep
  <2>2. CASE ~(worker.at < Len(Steps))
    <3>1. worker \in WorkerRec
      BY <1>1 DEF AppTypes
    <3> QED
      BY <2>2, <3>1 DEF NextStep, AtWork, WorkerRec
  <2> QED
    BY <2>1, <2>2
<1>5. CASE ~says
  <2> DEFINE e == Progress(status, FALSE, 0)
  <2>1. Progress(status, says, 0) = e /\ status \in Statuses
    BY <1>5 DEF Progress, Statuses
  <2>2. Report(e)
    BY <2>1
  <2>3. said' = said /\ Drawn(screen.log, events, ButFinish(said))'
    BY <1>1, <1>2, <2>1, <2>2, SaysNothing
  <2>4. AtWork' => worker'.at \in Nat /\ worker.at <= worker'.at
    BY <1>3, <1>4
  <2> QED
    BY <1>1, <2>3, <2>4, SaidSame
<1>6. CASE says
  <2> DEFINE s == "done"
  <2>1. Report(Progress(s, TRUE, 0)) /\ s \in {"done", "failed"}
    <3>1. Progress(status, says, 0) = Progress(s, TRUE, 0)
      BY <1>6 DEF Progress
    <3> QED
      BY <3>1
  <2> HIDE DEF s
  <2>2. /\ said' = Append(said, worker.at)
        /\ Drawn(screen.log, events, ButFinish(said))'
    BY <1>1, <1>2, <2>1, Speaks
  <2> QED
    BY <1>1, <1>4, <2>2, SaidMore
<1> QED
  BY <1>5, <1>6

\* A worker that has an exception: a failure has a message, a restart has none.
LEMMA RaiseKeeps ==
  ASSUME IInv, Messaging, worker.pc = "run",
         Raise("failed", "failed") \/ Raise("reboot", "reboot"),
         UNCHANGED <<platform, screen>>
  PROVE  Messaging'
<1>1. AppTypes /\ OneRunAtATime /\ AtWork
  BY DEF IInv, OneAtWork, AtWork
<1>2. Drawn(screen.log, events, ButFinish(said))
  BY <1>1 DEF Messaging, OneRunAtATime, AtWork
<1>3. ~AtWork'
  <2>1. worker \in WorkerRec
    BY <1>1 DEF AppTypes
  <2> QED
    BY <2>1 DEF Raise, AtWork, WorkerRec
<1>4. CASE Raise("failed", "failed")
  <2> DEFINE s == "failed"
  <2>1. Report(Progress(s, TRUE, 0)) /\ s \in {"done", "failed"}
    <3>1. Progress(s, s = "failed", 0) = Progress(s, TRUE, 0)
      BY DEF Progress
    <3> QED
      BY <1>4, <3>1 DEF Raise
  <2> HIDE DEF s
  <2>2. /\ said' = Append(said, worker.at)
        /\ Drawn(screen.log, events, ButFinish(said))'
    BY <1>1, <1>2, <2>1, Speaks
  <2> QED
    BY <1>1, <1>3, <2>2, SaidMore
<1>5. CASE Raise("reboot", "reboot")
  <2> DEFINE s == "reboot"
  <2>1. Report(Progress(s, FALSE, 0)) /\ s \in Statuses
    <3>1. Progress(s, s = "failed", 0) = Progress(s, FALSE, 0)
      BY DEF Progress
    <3> QED
      BY <1>5, <3>1 DEF Raise, Statuses
  <2> HIDE DEF s
  <2>2. said' = said /\ Drawn(screen.log, events, ButFinish(said))'
    BY <1>1, <1>2, <2>1, SaysNothing
  <2> QED
    BY <1>1, <1>3, <2>2, SaidSame
<1> QED
  BY <1>4, <1>5

\* The rest of what a worker does has no message.
LEMMA WorkKeeps ==
  ASSUME IInv, Messaging, RunStep \/ Caught \/ Announce \/ Working
  PROVE  Messaging'
<1>1. AppTypes /\ OneRunAtATime /\ LimaInv /\ OneAtWork
  BY DEF IInv, OneAtWork
<1>2. /\ worker.pc # "none" /\ platform' = platform
      /\ Drawn(screen.log, events, ButFinish(said))
  <2>1. worker.pc # "none" /\ platform' = platform
    BY DEF RunStep, Caught, Announce, Working, AtWork
  <2> QED
    BY <1>1, <2>1 DEF Messaging, OneRunAtATime
<1>4. worker \in WorkerRec /\ screen \in ScreenRec
  BY <1>1 DEF AppTypes
<1>5. CASE RunStep
  <2> DEFINE s == "running"
  <2>1. Report(Progress(s, FALSE, 0)) /\ s \in Statuses /\ UNCHANGED <<platform, screen>>
    BY <1>5 DEF RunStep, Statuses
  <2> HIDE DEF s
  <2>2. said' = said /\ Drawn(screen.log, events, ButFinish(said))'
    BY <1>1, <1>2, <2>1, SaysNothing
  <2>3. AtWork /\ worker'.at = worker.at /\ worker.at \in Nat
    BY <1>1, <1>4, <1>5, EventIs DEF RunStep, AtWork, WorkerRec
  <2>4. AtWork' => worker'.at \in Nat /\ worker.at <= worker'.at
    BY <2>3
  <2> QED
    BY <1>1, <1>2, <2>2, <2>3, <2>4, SaidSame
<1>6. CASE Caught
  <2>1. screen'.log = screen.log /\ ~AtWork' /\ events' = events /\ said' = said
    BY <1>4, <1>6 DEF Caught, AtWork, WorkerRec, ScreenRec
  <2>2. Drawn(screen.log, events, ButFinish(said))'
    BY <1>2, <2>1, DrawnNext
  <2> QED
    BY <1>1, <1>2, <2>1, <2>2, SaidSame
<1>7. CASE Announce
  <2>1. /\ screen'.log = screen.log /\ ~AtWork' /\ events' = Append(events, Sentinel)
        /\ said' = said
    BY <1>4, <1>7 DEF Announce, AtWork, WorkerRec
  <2>2. ~Spoken(Sentinel)
    BY DEF Spoken
  <2>3. Drawn(screen.log, events, ButFinish(said))'
    <3> DEFINE e == Sentinel
    <3>1. /\ e \in EventRec \cup {Sentinel} /\ ~Spoken(e) /\ events' = Append(events, e)
          /\ ButFinish(said') = ButFinish(said)
      BY <2>1, <2>2
    <3> HIDE DEF e
    <3> QED
      BY <1>1, <1>2, <2>1, <3>1, Hushed
  <2> QED
    BY <1>1, <1>2, <2>1, <2>3, SaidSame
<1>8. CASE Working
  <2>1. /\ AtWork /\ worker' = worker /\ screen' = screen /\ said' = said
        /\ worker'.at \in Nat /\ worker.at <= worker'.at
        /\ \/ events' = Append(events, Progress("percent", FALSE, Share(part'.n)))
           \/ events' = events
    <3>1. worker.at \in Nat
      BY <1>1, EventIs
    <3>2. AtWork /\ worker' = worker /\ screen' = screen /\ said' = said
      BY <1>8 DEF Working
    <3>3. \/ events' = Append(events, Progress("percent", FALSE, Share(part'.n)))
          \/ events' = events
      BY <1>8 DEF Working
    <3>4. worker'.at \in Nat /\ worker.at <= worker'.at
      BY <3>1, <3>2
    <3> QED
      BY <3>2, <3>3, <3>4
  <2>2. CASE events' = events
    <3>1. Drawn(screen.log, events, ButFinish(said))'
      BY <1>2, <2>1, <2>2, DrawnNext
    <3> QED
      BY <1>1, <1>2, <2>1, <3>1, SaidSame
  <2>3. CASE events' = Append(events, Progress("percent", FALSE, Share(part'.n)))
    <3> DEFINE e == Progress("percent", FALSE, Share(part'.n))
    <3>1. events' = Append(events, e) /\ e.says = FALSE
      BY <2>1, <2>3 DEF Progress
    <3>2. ~Spoken(e)
      BY <3>1 DEF Spoken
    <3> HIDE DEF e
    <3>3. e \in EventRec \cup {Sentinel}
      <4>1. events' \in Seq(EventRec \cup {Sentinel})
        BY <1>2, <1>8, SamePlatform, WorkingStepKeeps DEF IInv, AppTypes, Sentinel
      <4>2. events \in Seq(EventRec \cup {Sentinel})
        BY <1>1 DEF AppTypes
      <4> QED
        BY <3>1, <4>1, <4>2
    <3>4. Drawn(screen.log, events, ButFinish(said))'
      BY <1>1, <1>2, <2>1, <3>1, <3>2, <3>3, Hushed
    <3> QED
      BY <1>1, <1>2, <2>1, <3>4, SaidSame
  <2> QED
    BY <2>1, <2>2, <2>3
<1> QED
  BY <1>5, <1>6, <1>7, <1>8

LEMMA MessagingWorker ==
  ASSUME IInv, Messaging, Worker
  PROVE  Messaging'
<1>1. AppTypes /\ OneAtWork
  BY DEF IInv
<1>2. CASE Skip
  <2> DEFINE s == "skipped"
             says == FALSE
  <2>1. /\ AtWork /\ Report(Progress(s, says, 0)) /\ NextStep
        /\ UNCHANGED <<platform, screen>>
    BY <1>2 DEF Skip, AtWork
  <2>2. s \in {"skipped", "done"} /\ says \in BOOLEAN /\ ~says
    OBVIOUS
  <2> HIDE DEF s, says
  <2> QED
    BY <2>1, <2>2, OnKeeps
<1>3. ASSUME NEW says \in BOOLEAN, worker.pc = "run", Done(says), UNCHANGED <<platform, screen>>
      PROVE  Messaging'
  <2> DEFINE s == "done"
  <2>1. /\ Report(Progress(s, says, 0)) /\ NextStep /\ AtWork
        /\ s \in {"skipped", "done"} /\ s = "done"
    BY <1>3 DEF Done, AtWork
  <2> HIDE DEF s
  <2> QED
    BY <1>3, <2>1, OnKeeps
<1>4. CASE StepDone
  <2>1. PICK says \in BOOLEAN : Done(says)
    BY <1>4 DEF StepDone
  <2> QED
    BY <1>3, <1>4, <2>1 DEF StepDone
<1>5. CASE DownloadDone
  <2> DEFINE says == FALSE
  <2>1. Done(says) /\ says \in BOOLEAN /\ ~says
    BY <1>5 DEF DownloadDone
  <2>2. worker.pc = "run" /\ UNCHANGED <<platform, screen>>
    BY <1>5 DEF DownloadDone
  <2> HIDE DEF says
  <2> QED
    BY <1>3, <2>1, <2>2
<1>6. CASE StepFails \/ DownloadFails \/ RebootRequired
  <2>1. /\ worker.pc = "run" /\ UNCHANGED <<platform, screen>>
        /\ Raise("failed", "failed") \/ Raise("reboot", "reboot")
    BY <1>6 DEF StepFails, DownloadFails, RebootRequired
  <2> QED
    BY <2>1, RaiseKeeps
<1> QED
  BY <1>2, <1>4, <1>5, <1>6, WorkKeeps DEF Worker

\* What drawing an event does to the log.
LEMMA DrawsLog ==
  ASSUME AppTypes, NEW e \in EventRec, screen' = Rendered(e)
  PROVE  screen'.log = IF Spoken(e) THEN Append(screen.log, e.step) ELSE screen.log
<1>1. screen \in ScreenRec
  BY DEF AppTypes
<1>2. e # Sentinel
  BY EventIs
<1>3. CASE e.status = "percent"
  BY <1>1, <1>3 DEF Rendered, Spoken, ScreenRec
<1>4. CASE e.status = "running"
  BY <1>4 DEF Rendered, Spoken
<1>5. CASE e.status \notin {"percent", "running"}
  <2> DEFINE log == IF e.says /\ ~(Steps[e.step] = "finish") THEN Append(screen.log, e.step)
                                                             ELSE screen.log
  <2>1. screen'.log = log
    BY <1>1, <1>5 DEF Rendered, ScreenRec
  <2> QED
    BY <1>2, <1>5, <2>1 DEF Spoken
<1> QED
  BY <1>3, <1>4, <1>5

LEMMA MessagingRender ==
  ASSUME IInv, Messaging, Render
  PROVE  Messaging'
<1>1. AppTypes /\ OneAtWork
  BY DEF IInv
<1>2. /\ Shows("wizard") /\ ~screen.finished /\ events # <<>> /\ Head(events) # Sentinel
      /\ screen' = Rendered(Head(events)) /\ events' = Tail(events)
      /\ platform' = platform /\ worker' = worker /\ said' = said
  BY DEF Render
<1> DEFINE e == events[1]
           log == screen.log
           messages == ButFinish(said)
<1>3. events \in Seq(EventRec \cup {Sentinel})
  BY <1>1 DEF AppTypes
<1>4. Head(events) = e /\ e \in EventRec
  <2>1. Head(events) = e /\ Len(events) \in Nat \ {0}
    BY <1>2, <1>3, TailIs
  <2>2. e \in EventRec \cup {Sentinel}
    BY <1>3, <2>1
  <2> QED
    BY <1>2, <2>1, <2>2
<1>5. Drawn(log, events, messages)
  BY <1>2 DEF Messaging
<1> HIDE DEF e, log, messages
<1>6. screen'.log = IF Spoken(e) THEN Append(log, e.step) ELSE log
  BY <1>1, <1>2, <1>4, DrawsLog DEF log
<1>7. Drawn(screen'.log, events', messages)
  <2>1. messages \in Seq(Nat) /\ Increasing(messages) /\ log \in Seq(Nat)
    BY <1>1, ButFinishOrder DEF Messaging, AppTypes, ScreenRec, messages, log
  <2>2. ASSUME NEW k \in 1 .. Len(events), Spoken(events[k])
        PROVE  /\ events[k].step \in Nat
               /\ 1 < k /\ Spoken(events[1]) => events[1].step < events[k].step
    <3>1. events[k] # Sentinel /\ events[k] \in EventRec /\ events[k].step \in Nat
      BY <1>1, <2>2, EventIs DEF Spoken
    <3>2. 1 < k => /\ 1 \in 1 .. Len(events) /\ After(events[1]) <= events[k].step
      BY <1>1, <3>1 DEF IInv, Queue
    <3>3. Spoken(events[1]) => After(events[1]) = events[1].step + 1
      BY DEF Spoken, After
    <3>4. events[1].step \in Nat
      BY <1>1, <1>4, EventIs DEF e
    <3> QED
      BY <3>1, <3>2, <3>3, <3>4
  <2> QED
    BY <1>2, <1>3, <1>5, <1>6, <2>1, <2>2, DrawnTail DEF e
<1>8. Drawn(screen.log, events, ButFinish(said))'
  BY <1>2, <1>7, DrawnNext DEF messages
<1>9. AtWork' = AtWork /\ worker'.at \in Nat /\ worker.at <= worker'.at
  BY <1>1, <1>2, EventIs DEF AtWork
<1> QED
  BY <1>1, <1>2, <1>8, <1>9, SaidSame

\* A run that begins has said nothing.
LEMMA MessagingStart ==
  ASSUME IInv, StartWizard, UNCHANGED platform
  PROVE  Messaging'
<1>1. screen'.log = <<>> /\ events' = <<>> /\ said' = <<>>
  BY DEF StartWizard, Screen
<1>2. ButFinish(said') = <<>> /\ Len(events') = 0 /\ Len(said') = 0 /\ Len(screen'.log) = 0
  BY <1>1 DEF ButFinish
<1>3. Drawn(screen'.log, events', ButFinish(said'))
  BY <1>1, <1>2 DEF Drawn
<1>4. said' \in Seq(1 .. Len(Steps)') /\ Increasing(said')
  BY <1>1, <1>2 DEF Increasing
<1>5. \A i \in 1 .. Len(said') : FALSE
  BY <1>2
<1> QED
  BY <1>1, <1>3, <1>4, <1>5, DrawnNext DEF Messaging, Increasing

LEMMA MessagingStep ==
  ASSUME IInv, Messaging, [Next]_allVars
  PROVE  Messaging'
<1>1. IInv' /\ AppTypes
  BY Inductive DEF IInv
\* Where no wizard is at work, there is nothing to say.
<1>2. ASSUME screen'.kind # "wizard" \/ screen'.finished, said' = said, platform' = platform
      PROVE  Messaging'
  <2>1. ~AtWork'
    BY <1>1, <1>2 DEF IInv, OneAtWork, OneRunAtATime, AtWork, Shows
  <2> QED
    BY <1>1, <1>2, <2>1, SaidSame DEF Shows
<1>3. ASSUME UNCHANGED <<platform, worker, events, screen, said>>
      PROVE  Messaging'
  <2>1. Shows("wizard") /\ ~screen.finished
          => Drawn(screen.log, events, ButFinish(said))'
    BY <1>3, DrawnNext DEF Messaging
  <2>2. AtWork' = AtWork /\ worker'.at \in Nat /\ worker.at <= worker'.at
    BY <1>1, <1>3, EventIs DEF AtWork
  <2> QED
    BY <1>1, <1>3, <2>1, <2>2, SaidSame DEF Shows
<1>4. ASSUME BeginProbe(FALSE) \/ BeginProbe(TRUE) PROVE screen'.kind # "wizard"
  BY <1>1, <1>4, ScreensAre DEF BeginProbe
<1>5. CASE Finish
  <2>1. screen'.kind # "wizard" \/ screen'.finished
    <3>1. screen \in ScreenRec
      BY <1>1 DEF AppTypes
    <3> QED
      BY <1>4, <1>5, <3>1 DEF Finish, ScreenRec
  <2> QED
    BY <1>2, <1>5, <2>1 DEF Finish
<1>6. CASE User \/ ProbeSeen
  <2>1. \/ StartWizard /\ UNCHANGED platform
        \/ screen'.kind # "wizard" /\ said' = said /\ platform' = platform
    <3>1. Screen("status").kind # "wizard"
      BY <1>1, ScreensAre
    <3> QED
      BY <1>4, <1>6, <3>1 DEF User, OpenWindow, PressSetup, PressViewStatus, ProbeSeen
  <2> QED
    BY <1>2, <2>1, MessagingStart
<1>7. CASE Close
  BY <1>2, <1>7, CloseKeeps DEF Close
<1>8. CASE ProbeAnswers \/ (Damage /\ UNCHANGED appVars) \/ UNCHANGED allVars
  BY <1>3, <1>8 DEF ProbeAnswers, appVars, allVars
<1> QED
  BY <1>5, <1>6, <1>7, <1>8, MessagingWorker, MessagingRender DEF Next, Pump

LEMMA MessagingAlways ==
  Spec => []Messaging
<1>1. Init => Messaging
  <2> SUFFICES ASSUME Init PROVE Messaging
    OBVIOUS
  <2>1. said = <<>> /\ ~AtWork /\ ~Shows("wizard")
    BY DEF Init, AtWork, NoWorker, Shows, Screen
  <2>2. said \in Seq(1 .. Len(Steps)) /\ \A i \in 1 .. Len(said) : FALSE
    BY <2>1
  <2> QED
    BY <2>1, <2>2 DEF Messaging, Increasing
<1>2. IInv /\ Messaging /\ [Next]_allVars => Messaging'
  BY MessagingStep
<1> QED
  BY <1>1, <1>2, Always, PTL DEF Spec

-----------------------------------------------------------------------------
(* What is proved *)

\* Every variable keeps its type: whatever servers answer, whatever the user presses and
\* whenever the window is closed, the steps that the screen counts are steps of the run.
THEOREM SetupAppTypes == Spec => []TypeOK
<1>1. IInv => TypeOK
  <2> SUFFICES ASSUME IInv PROVE TypeOK
    OBVIOUS
  <2>1. AppTypes /\ LimaTypeOK /\ OneAtWork
    BY DEF IInv, LimaInv
  <2>2. worker.at \in DOMAIN Steps /\ worker.pc \in {"none", "next", "run", "failed",
          "reboot", "announce"}
    <3>1. DOMAIN Steps = 1 .. Len(Steps)
      BY <2>1, StepsAre DEF AppTypes
    <3> QED
      BY <2>1, <3>1 DEF AppTypes, WorkerRec
  <2>3. /\ screen.kind \in {"closed", "spinner", "status", "wizard"}
        /\ screen.done \in 0 .. Len(Steps) /\ screen.bar \in Nat
    BY <2>1 DEF AppTypes, ScreenRec
  <2>4. recorded \subseteq Remembered /\ app.code \in 0 .. 2 /\ last \in Results
    BY <2>1 DEF AppTypes
  <2>5. Installing => AtWork
    BY <2>1 DEF OneAtWork, AtWork
  <2> QED
    BY <2>1, <2>2, <2>3, <2>4, <2>5 DEF TypeOK
<1> QED
  BY <1>1, Always, PTL

\* lima_install.py: only what came out of an archive with the right digest is ever in
\* place or aside, for a download of any size and any number of cuts and wrong answers.
THEOREM InPlaceStands == Spec => []InPlaceIsVerified
<1>1. IInv => InPlaceIsVerified
  BY DEF IInv, LimaInv
<1> QED
  BY <1>1, Always, PTL

\* lima_install.py: an installation that fails leaves the Lima that it found where it was,
\* also when the last rename was the one that failed -- or, if the rename that would put it
\* back fails as well, whole beside its place.
THEOREM FailedRunStands == Spec => []FailedRunKeepsLima
<1>1. IInv => FailedRunKeepsLima
  BY DEF IInv, LimaInv
<1> QED
  BY <1>1, Always, PTL

\* app.py and wizard.py: no screen that could start another run comes up while a run's
\* thread is at work.
THEOREM OneRun == Spec => []OneRunAtATime
<1>1. IInv => OneRunAtATime
  BY DEF IInv, OneAtWork
<1> QED
  BY <1>1, Always, PTL

\* app.py: the exit code of a window that is closed tells how its last run ended, a run
\* that was cut short by closing it included.
THEOREM ExitStands == Spec => []ExitTellsLastRun
<1>1. IInv => ExitTellsLastRun
  BY DEF IInv, Outcomes, ExitTellsLastRun, Shows
<1> QED
  BY <1>1, Always, PTL

\* wizard.py: drawn behind the worker, one event at a time, the bar of a wizard never goes
\* back while a download starts again where its partial file ended -- but for a download
\* that told of more than there was, at whose end the bar shows the end of the step.
THEOREM BarStands == Spec => BarNeverFalls
<1>1. ASSUME IInv, [Next]_allVars
      PROVE  [Shows("wizard") /\ screen'.kind = "wizard" /\ screen'.bar < screen.bar =>
                /\ screen.bar > 100 * (screen.done + 1)
                /\ screen'.bar = 100 * screen'.done /\ screen'.done = screen.done + 1]_allVars
  <2> SUFFICES ASSUME Next, screen.kind = "wizard", screen'.kind = "wizard"
               PROVE  NoFall
    BY <1>1 DEF Shows, NoFall
  <2>1. AppTypes /\ OneAtWork
    BY <1>1 DEF IInv
  <2>2. screen.bar \in Nat /\ screen \in ScreenRec
    BY <2>1, EventIs DEF AppTypes
  <2>3. CASE screen' = screen
    BY <2>2, <2>3 DEF NoFall
  <2>4. CASE Caught
    <3>1. screen' = [screen EXCEPT !.outcome = Code[worker.pc]]
      BY <2>4 DEF Caught
    <3>2. screen'.bar = screen.bar
      BY <2>2, <3>1 DEF ScreenRec
    <3> QED
      BY <2>2, <3>2 DEF NoFall
  <2>5. CASE Pump
    BY <1>1, <2>5, RenderStepKeeps, FinishKeeps DEF Pump
  <2>6. ProbeSeen \/ OpenWindow \/ PressSetup => screen.kind # "wizard"
    BY <2>1 DEF ProbeSeen, OpenWindow, PressSetup, OneAtWork, Shows
  <2>7. PressViewStatus => screen'.kind # "wizard"
    BY <2>1, ScreensAre DEF PressViewStatus, BeginProbe
  <2>8. Close => screen'.kind # "wizard"
    BY <1>1, CloseKeeps
  <2>9. CASE Worker /\ ~Caught
    <3>1. screen' = screen
      BY <2>9 DEF Worker, Skip, RunStep, StepDone, DownloadDone, StepFails, DownloadFails,
         RebootRequired, Announce, Working
    <3> QED
      BY <2>3, <3>1
  <2>10. ProbeAnswers \/ (Damage /\ UNCHANGED appVars) => screen' = screen
    BY DEF ProbeAnswers, appVars
  <2> QED
    BY <2>3, <2>4, <2>5, <2>6, <2>7, <2>8, <2>9, <2>10 DEF Next, User
<1> QED
  BY <1>1, Always, PTL DEF Spec, BarNeverFalls

\* wizard.py: the log that the window leaves behind when a run's screen comes to its end
\* has every message of that run and the outcome's, however far the worker was ahead.
THEOREM LogStands == Spec => LogIsWhole
<1>1. ASSUME IInv, Messaging, [Next]_allVars
      PROVE  [app'.log # app.log /\ app'.log # <<>> =>
                app'.log = Append(ButFinish(said), 0)]_allVars
  <2> SUFFICES ASSUME Next, app'.log # app.log, app'.log # <<>>
               PROVE  app'.log = Append(ButFinish(said), 0)
    BY <1>1
  <2>1. AppTypes /\ Queue
    BY <1>1 DEF IInv
  <2>2. app \in [code : 0 .. 2, log : Seq(Nat)]
    BY <2>1 DEF AppTypes
  <2>3. CASE Finish
    <3>1. /\ Shows("wizard") /\ ~screen.finished /\ events # <<>>
          /\ Head(events) = Sentinel /\ app'.log = Append(screen.log, 0)
      BY <2>3 DEF Finish, Keep
    <3>2. Len(events) = 1 /\ events[1] = Sentinel
      <4>1. /\ Len(events) \in Nat \ {0} /\ Head(events) = events[1]
        BY <2>1, <3>1, TailIs DEF AppTypes
      <4>2. 1 \in 1 .. Len(events) /\ events[1] = Sentinel
        BY <3>1, <4>1
      <4> QED
        BY <2>1, <4>2 DEF Queue
    <3>3. \A i \in 1 .. Len(events) : ~Spoken(events[i])
      BY <3>2 DEF Spoken
    <3>4. screen.log = ButFinish(said)
      <4>1. screen.log \in Seq(Nat) /\ ButFinish(said) \in Seq(Nat)
        BY <1>1, <2>1, ButFinishOrder DEF Messaging, AppTypes, ScreenRec
      <4>2. Drawn(screen.log, events, ButFinish(said))
        BY <1>1, <3>1 DEF Messaging
      <4> QED
        BY <3>3, <4>1, <4>2, DrawnAll
    <3> QED
      BY <3>1, <3>4
  <2>4. CASE Close
    BY <2>2, <2>4 DEF Close
  <2>5. OpenWindow => app'.log = <<>>
    BY DEF OpenWindow
  <2>6. CASE Worker \/ Render \/ PressSetup \/ PressViewStatus \/ ProbeAnswers \/ ProbeSeen
             \/ (Damage /\ UNCHANGED appVars)
    <3>1. app' = app
      BY <2>6 DEF Worker, Skip, RunStep, StepDone, DownloadDone, StepFails, DownloadFails,
         RebootRequired, Caught, Announce, Working, Render, PressSetup, PressViewStatus,
         ProbeAnswers, ProbeSeen, appVars
    <3> QED
      BY <3>1
  <2> QED
    BY <2>3, <2>4, <2>5, <2>6 DEF Next, Pump, User
<1> QED
  BY <1>1, Always, MessagingAlways, PTL DEF Spec, LogIsWhole

=============================================================================
