------------------------------- MODULE JobQueue -------------------------------
(***************************************************************************)
(* What the office counts on of the document queue, whoever works it and   *)
(* however often: a job is put once and taken by one worker at a time, it  *)
(* is tried a limited number of times and waits again only while it has a  *)
(* try left, and once it is done, given up or lost with its worker it is   *)
(* never touched again.  DocumentJobs is shown to implement it.            *)
(***************************************************************************)
EXTENDS Naturals

CONSTANTS
    MaxJobs,   \* jobs that may be put
    MaxTries   \* tries a job has

VARIABLE queue  \* what has become of each job, and how often it was taken

Jobs == 1 .. MaxJobs

Init == queue = [j \in Jobs |-> [phase |-> "absent", tries |-> 0]]

-----------------------------------------------------------------------------

Becomes(j, from, to, tries) ==
    /\ queue[j].phase = from
    /\ queue' = [queue EXCEPT ![j] = [phase |-> to, tries |-> tries]]

(* Jobs are put one after the other. *)
Put(j) ==
    /\ \A i \in 1 .. j - 1 : queue[i].phase # "absent"
    /\ Becomes(j, "absent", "waiting", 0)

Take(j)     == queue[j].tries < MaxTries /\ Becomes(j, "waiting", "held", queue[j].tries + 1)
GiveBack(j) == queue[j].tries < MaxTries /\ Becomes(j, "held", "waiting", queue[j].tries)
GiveUp(j)   == queue[j].tries = MaxTries /\ Becomes(j, "held", "given_up", queue[j].tries)
Finish(j)   == Becomes(j, "held", "done", queue[j].tries)
Lose(j)     == Becomes(j, "held", "lost", queue[j].tries)

Next == \E j \in Jobs : Put(j) \/ Take(j) \/ GiveBack(j) \/ GiveUp(j) \/ Finish(j) \/ Lose(j)
Spec == Init /\ [][Next]_queue
=============================================================================
