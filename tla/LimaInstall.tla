---------------------------- MODULE LimaInstall ----------------------------
(***************************************************************************)
(* A verified download (host/core/download.py) and what setup does with it *)
(* on macOS: it puts the pinned Lima in place of the one that is there     *)
(* (host/providers/lima_install.py).  On Windows the download is the       *)
(* Linux image and the work ends with it.                                  *)
(*                                                                         *)
(* One action per file operation, with the process killed between any two. *)
(***************************************************************************)
EXTENDS Naturals

CONSTANTS
    Size,       \* the file to download, in chunks
    MaxFaults   \* what goes wrong from outside

ASSUME SizeAssumption  == Size \in Nat \ {0}
ASSUME FaultAssumption == MaxFaults \in Nat

VARIABLES
    part,       \* the .part file: its length, and whether its bytes are the right ones
    archive,    \* the file in the cache
    tree,       \* root/lima
    previous,   \* root/lima.previous
    staged,     \* this run's staging directory
    inst,       \* the run: where it is, and the answer it is reading
    faults      \* what MaxFaults counts

limaVars == <<part, archive, tree, previous, staged, inst, faults>>

\* Lengths beyond Longest behave like Longest.
Longest == 2 * Size

Part   == [n : 0 .. Longest, good : BOOLEAN]
NoPart == [n |-> 0, good |-> TRUE]

\* What a directory holds: nothing, the Lima of an earlier release (or what is left of it),
\* the pinned one, or something that was never the file it should be.
Trees == {"none", "old", "new", "bad"}

Run == [pc : {"idle", "look", "cached", "open", "read", "digest", "rename", "extract",
              "verify", "clear", "aside", "movein", "putback", "tidy", "done", "failed"},
        job : {"runtime", "image"}, left : 0 .. Size, honest : BOOLEAN,
        total : 0 .. Longest + Size,   \* what the answer is taken to amount to
        had : Trees,
        refused : BOOLEAN]             \* history: the old tree could not be put back

Idle == [pc |-> "idle", job |-> "image", left |-> 0, honest |-> TRUE, total |-> 0,
         had |-> "none", refused |-> FALSE]

Here(pc)   == inst.pc = pc
GoTo(pc)   == inst' = [inst EXCEPT !.pc = pc, !.total = 0]
\* An exception: the `finally` removes the staging directory.
GiveUp     == GoTo("failed") /\ staged' = "none"
Installing == inst.pc \notin {"idle", "done", "failed"}

Fault == faults < MaxFaults /\ faults' = faults + 1

Begin(job) ==
    /\ ~Installing
    /\ inst' = [Idle EXCEPT !.job = job, !.had = tree,
                            !.pc = IF job = "runtime" THEN "look" ELSE "cached"]
    /\ UNCHANGED <<part, archive, tree, previous, staged, faults>>

\* A binary and a matching .version are the whole check.
Look ==
    /\ Here("look")
    /\ GoTo(IF tree = "new" THEN "done" ELSE "cached")
    /\ UNCHANGED <<part, archive, tree, previous, staged, faults>>

-----------------------------------------------------------------------------
(* fetch *)

Fetched == GoTo(IF inst.job = "runtime" THEN "extract" ELSE "done")

Cached ==
    /\ Here("cached")
    /\ IF archive = "good" THEN Fetched ELSE GoTo("open")
    /\ UNCHANGED <<part, archive, tree, previous, staged, faults>>

\* The answer's length is added to that of the partial file; an answer without one
\* counts as 0.
Reading(left, honest) ==
    \E length \in {left, 0} :
        inst' = [inst EXCEPT !.pc = "read", !.left = left, !.honest = honest,
                             !.total = part.n + length]

\* The rest of the file, from where the partial one ends.  A range that begins at the
\* end of the file or behind it cannot be satisfied: 416, which raises.
Open ==
    /\ Here("open")
    /\ IF part.n < Size THEN Reading(Size - part.n, TRUE) /\ UNCHANGED staged
                        ELSE GiveUp
    /\ UNCHANGED <<part, archive, tree, previous, faults>>

\* Nobody answers; the whole file, whatever range was asked for; or a page that is not
\* the file at all.
OpenAmiss ==
    /\ Here("open")
    /\ Fault
    /\ \/ GiveUp
       \/ UNCHANGED staged /\ (Reading(Size, part.n = 0) \/ Reading(1, FALSE))
    /\ UNCHANGED <<part, archive, tree, previous>>

ReadChunk ==
    /\ Here("read") /\ inst.left > 0
    /\ part' = [n    |-> IF part.n < Longest THEN part.n + 1 ELSE Longest,
                good |-> part.good /\ inst.honest]
    /\ inst' = [inst EXCEPT !.left = @ - 1]
    /\ UNCHANGED <<archive, tree, previous, staged, faults>>

EndOfStream ==
    /\ Here("read") /\ inst.left = 0
    /\ GoTo("digest")
    /\ UNCHANGED <<part, archive, tree, previous, staged, faults>>

\* The connection drops: an exception, which keeps the partial file, or what looks
\* like the end of the stream.
StreamBreaks ==
    /\ Here("read") /\ inst.left > 0
    /\ Fault
    /\ GiveUp \/ (GoTo("digest") /\ UNCHANGED staged)
    /\ UNCHANGED <<part, archive, tree, previous>>

RightBytes == part.n = Size /\ part.good

\* MUTANT of Digest: only the length is compared.
DigestOfLength ==
    /\ Here("digest")
    /\ IF part.n = Size
       THEN GoTo("rename") /\ UNCHANGED <<part, archive, staged>>
       ELSE GiveUp /\ part' = NoPart /\ archive' = "none"
    /\ UNCHANGED <<tree, previous, faults>>

Digest ==
    /\ Here("digest")
    /\ IF RightBytes
       THEN GoTo("rename") /\ UNCHANGED <<part, archive, staged>>
       ELSE GiveUp /\ part' = NoPart /\ archive' = "none"
    /\ UNCHANGED <<tree, previous, faults>>

RenamePart ==
    /\ Here("rename")
    /\ archive' = IF RightBytes THEN "good" ELSE "bad"
    /\ part' = NoPart
    /\ Fetched
    /\ UNCHANGED <<tree, previous, staged, faults>>

-----------------------------------------------------------------------------
(* install: extract, verify, swap *)

Extract ==
    /\ Here("extract")
    /\ staged' = IF archive = "good" THEN "new" ELSE "bad"
    /\ GoTo("verify")
    /\ UNCHANGED <<part, archive, tree, previous, faults>>

RequireVersion ==
    /\ Here("verify")
    /\ GoTo("clear")
    /\ UNCHANGED <<part, archive, tree, previous, staged, faults>>

\* The disk is full, the binary does not run here, the old tree cannot be moved.
InstallAmiss ==
    /\ inst.pc \in {"extract", "verify", "aside"}
    /\ Fault
    /\ GiveUp
    /\ UNCHANGED <<part, archive, tree, previous>>

\* rmtree(previous, ignore_errors=True): it goes, or something of it stays and nobody
\* hears of it.
RemovePrevious ==
    \/ previous' = "none" /\ UNCHANGED faults
    \/ previous # "none" /\ Fault /\ UNCHANGED previous

ClearPrevious ==
    /\ Here("clear")
    /\ RemovePrevious
    /\ GoTo("aside")
    /\ UNCHANGED <<part, archive, tree, staged>>

\* os.replace(target, previous), where there is a target.  It raises over what is left.
SetAside ==
    /\ Here("aside")
    /\ \/ tree = "none" /\ GoTo("movein") /\ UNCHANGED <<tree, previous, staged>>
       \/ tree # "none" /\ previous # "none" /\ GiveUp /\ UNCHANGED <<tree, previous>>
       \/ /\ tree # "none" /\ previous = "none"
          /\ previous' = tree /\ tree' = "none"
          /\ GoTo("movein") /\ UNCHANGED staged
    /\ UNCHANGED <<part, archive, faults>>

MoveIn ==
    /\ Here("movein")
    /\ tree' = staged
    /\ staged' = "none"
    /\ GoTo("tidy")
    /\ UNCHANGED <<part, archive, previous, faults>>

\* os.replace(staging, target) refuses.
MoveInFails ==
    /\ Here("movein")
    /\ Fault
    /\ GoTo("putback")
    /\ UNCHANGED <<part, archive, tree, previous, staged>>

\* MUTANT of PutBack: the old tree stays beside its place.
PutBackNever ==
    /\ Here("putback")
    /\ GiveUp
    /\ UNCHANGED <<part, archive, tree, previous, faults>>

\* os.replace(previous, target), where there is a previous.
PutBack ==
    /\ Here("putback")
    /\ IF previous = "none" THEN UNCHANGED <<tree, previous>>
                            ELSE tree' = previous /\ previous' = "none"
    /\ GiveUp
    /\ UNCHANGED <<part, archive, faults>>

\* It refuses as the replace before it did: its exception is the run's.
PutBackFails ==
    /\ Here("putback") /\ previous # "none"
    /\ Fault
    /\ inst' = [inst EXCEPT !.pc = "failed", !.refused = TRUE]
    /\ staged' = "none"
    /\ UNCHANGED <<part, archive, tree, previous>>

Tidy ==
    /\ Here("tidy")
    /\ RemovePrevious
    /\ GoTo("done")
    /\ UNCHANGED <<part, archive, tree, staged>>

Install ==
    \/ Look \/ Cached \/ Open \/ ReadChunk \/ EndOfStream \/ Digest \/ RenamePart
    \/ Extract \/ RequireVersion \/ ClearPrevious \/ SetAside \/ MoveIn \/ PutBack \/ Tidy

Amiss == OpenAmiss \/ StreamBreaks \/ InstallAmiss \/ MoveInFails \/ PutBackFails

-----------------------------------------------------------------------------

\* The process ends; its staging directory is never looked at again.
Killed ==
    /\ inst' = Idle
    /\ staged' = "none"
    /\ UNCHANGED <<part, archive, tree, previous>>

\* Between two runs somebody cleans the cache, or damages it.
Damage ==
    /\ ~Installing /\ archive # "none"
    /\ Fault
    /\ archive' \in {"none", "bad"}
    /\ UNCHANGED <<part, tree, previous, staged, inst>>

\* What runs of an earlier release have left, wherever they were cut short.
LimaInit ==
    /\ part = NoPart
    /\ archive = "none"
    /\ tree \in {"none", "old"} /\ previous \in {"none", "old"}
    /\ staged = "none"
    /\ inst = Idle
    /\ faults = 0

\* The installation by itself, run again until it is there, where nobody kills a run and
\* nobody touches the cache: only the network fails.
LimaNext == Begin("runtime") \/ Install \/ OpenAmiss \/ StreamBreaks

LimaFairness == WF_limaVars(Install) /\ WF_limaVars(Begin("runtime"))

LimaSpec == LimaInit /\ [][LimaNext]_limaVars /\ LimaFairness

-----------------------------------------------------------------------------
(* Properties *)

\* Every variable keeps its type.
LimaTypeOK ==
    /\ part \in Part
    /\ archive \in {"none", "good", "bad"}
    /\ tree \in Trees /\ previous \in Trees /\ staged \in Trees
    /\ inst \in Run
    /\ faults \in 0 .. MaxFaults

\* Only what came out of an archive with the right digest is ever in place, whatever
\* servers answer and wherever runs are cut short (lima_install.py: "a wrong value here
\* is a failed install, never a silently substituted binary").
InPlaceIsVerified == {tree, previous} \subseteq {"none", "old", "new"}

\* A run that fails leaves the Lima it found where it found it (test_lima_install.py: a
\* bad download "never disturbs a working install"), but for the one that could not be
\* put back either: that one is all there, beside its place.
FailedRunKeepsLima ==
    Here("failed") /\ inst.had # "none" =>
        \/ tree = inst.had
        \/ inst.refused /\ tree = "none" /\ previous = inst.had

\* What no later run resumes: a partial file as long as the whole one, or longer.  It is
\* left by a run that was killed after it wrote the last byte and before the rename, and
\* by one whose connection dropped while it appended the whole file, sent in answer to a
\* request for the rest, to a partial one.
Unresumable == part.n >= Size

(* What install.py says and the model refutes *)

\* Setup that is run again goes on with the download until it is there, where nothing
\* but the network fails (install.py: "A dropped internet connection resumes on the next
\* run").
DropResumes == <>(tree = "new")

=============================================================================
