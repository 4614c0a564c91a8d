----------------------------- MODULE JobStream -----------------------------
(***************************************************************************)
(* What following a job promises its reader: chunks of the job's log in    *)
(* the order they were written, none twice, none left out, and an end that *)
(* comes only after the whole log of a job that is over.                   *)
(***************************************************************************)
EXTENDS Sequences, Naturals

CONSTANTS Jobs, Readers, Chunks, None

VARIABLES
    log,      \* what each job has written
    ended,    \* the jobs that are over
    at,       \* the job each reader follows, or None
    read,     \* what each reader has been given of it
    result    \* how each reader's last stream ended

streamVars == <<log, ended, at, read, result>>

Init ==
    /\ log = [j \in Jobs |-> <<>>]
    /\ ended = {}
    /\ at = [r \in Readers |-> None]
    /\ read = [r \in Readers |-> <<>>]
    /\ result = [r \in Readers |-> "none"]

Write(j, c) ==
    /\ j \notin ended
    /\ log' = [log EXCEPT ![j] = Append(@, c)]
    /\ UNCHANGED <<ended, at, read, result>>

End(j) ==
    /\ ended' = ended \cup {j}
    /\ UNCHANGED <<log, at, read, result>>

Open(r, j) ==
    /\ at[r] = None
    /\ at' = [at EXCEPT ![r] = j]
    /\ result' = [result EXCEPT ![r] = "none"]
    /\ UNCHANGED <<log, ended, read>>

\* The reader is given what comes next in the log.
Read(r) ==
    /\ at[r] # None
    /\ \E n \in Len(read[r]) .. Len(log[at[r]]) :
         read' = [read EXCEPT ![r] = SubSeq(log[at[r]], 1, n)]
    /\ UNCHANGED <<log, ended, at, result>>

Stop(r, how) ==
    /\ at' = [at EXCEPT ![r] = None]
    /\ read' = [read EXCEPT ![r] = <<>>]
    /\ result' = [result EXCEPT ![r] = how]
    /\ UNCHANGED <<log, ended>>

\* The stream ends: the reader has the whole log, and nothing will be added to it.
Complete(r) ==
    /\ at[r] \in ended
    /\ read[r] = log[at[r]]
    /\ Stop(r, "complete")

\* The reader goes away, or is told that there is no such job.
Leave(r) == Stop(r, "cut")

Next ==
    \/ \E j \in Jobs : (\E c \in Chunks : Write(j, c)) \/ End(j)
    \/ \E r \in Readers : (\E j \in Jobs : Open(r, j)) \/ Read(r) \/ Complete(r)
                          \/ Leave(r)

Spec == Init /\ [][Next]_streamVars

=============================================================================
