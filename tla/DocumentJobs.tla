----------------------------- MODULE DocumentJobs -----------------------------
(***************************************************************************)
(* The PDF queue: the versions of one contract are edited, locked and      *)
(* issued by the desk, each issue queues a job, and the scheduled command  *)
(* claims the jobs, renders and stores the files and retries what failed.  *)
(*                                                                         *)
(* The desk's handlers read the contract and write in a later statement;   *)
(* "doing" holds what they have read.  A worker is one run of the command: *)
(* the claim, the reading of the text, each stored file and the last       *)
(* transaction are steps, and it may die between any two of them.          *)
(* The jobs of other contracts share the queue and nothing else.           *)
(***************************************************************************)
EXTENDS Naturals, Sequences, FiniteSets

CONSTANTS
    Texts,          \* values of field_values_json that matter
    Parts,          \* files of a version: the main document and its annexes
    Workers,        \* runs of the command that may overlap
    None,
    MaxVersions,    \* bound: contract_versions of the contract
    MaxJobs,        \* bound: document_jobs of the contract
    MaxAttempts,    \* attempts before a job has failed (5)
    MaxDoing,       \* bound: desk requests in flight
    MaxCrashes      \* bound: workers that die

ASSUME CountsAssumption ==
    /\ Parts \in Nat \ {0} /\ MaxVersions \in Nat \ {0} /\ MaxAttempts \in Nat \ {0}
    /\ MaxJobs \in Nat /\ MaxDoing \in Nat /\ MaxCrashes \in Nat
ASSUME TextsAssumption == None \notin Texts /\ Texts # {}

VARIABLES
    contract,   \* the row of contracts
    versions,   \* its contract_versions
    files,      \* contract_document_files: the text stored for each part
    jobs,       \* document_jobs, in order of id
    workers,    \* what each worker has claimed, read and stored
    doing,      \* desk handlers between their read and their write
    crashes     \* history: workers that died

vars == <<contract, versions, files, jobs, workers, doing, crashes>>

-----------------------------------------------------------------------------

Versions    == 1 .. MaxVersions
JobIds      == 1 .. Len(jobs)
Waiting     == {"pending", "retry"}
JobStatuses == Waiting \cup {"processing", "completed", "failed"}
JobRows     == [version : Versions, status : JobStatuses, attempts : 0 .. MaxAttempts, due : BOOLEAN]
Idle        == [job |-> 0, text |-> None, stored |-> 0]

TypeOK ==
    /\ contract \in [status : {"in_progress", "locked", "issued"}, version : Versions, text : Texts,
                     pdf : {"not_requested", "queued", "processing", "ready", "failed"}]
    /\ versions \in [Versions -> [status : {"none", "draft", "locked", "issued"}, hash : Texts \cup {None}]]
    /\ files \in [Versions -> [1 .. Parts -> Texts \cup {None}]]
    /\ jobs \in Seq(JobRows) /\ Len(jobs) <= MaxJobs
    /\ workers \in [Workers -> [job : 0 .. Len(jobs), text : Texts \cup {None}, stored : 0 .. Parts]]
    /\ doing \subseteq [what : {"edit", "lock", "issue"}, version : Versions, text : Texts]
    /\ crashes \in 0 .. MaxCrashes

Init ==
    /\ \E t \in Texts : contract = [status |-> "in_progress", version |-> 1, text |-> t, pdf |-> "not_requested"]
    /\ versions = [v \in Versions |-> [status |-> IF v = 1 THEN "draft" ELSE "none", hash |-> None]]
    /\ files = [v \in Versions |-> [p \in 1 .. Parts |-> None]]
    /\ jobs = <<>>
    /\ workers = [w \in Workers |-> Idle]
    /\ doing = {}
    /\ crashes = 0

-----------------------------------------------------------------------------
(* The desk.                                                               *)

Queue == <<files, jobs, workers, crashes>>

Begin(what, text) ==
    /\ Cardinality(doing) < MaxDoing
    /\ doing' = doing \cup {[what |-> what, version |-> contract.version, text |-> text]}
    /\ UNCHANGED <<contract, versions, Queue>>

EditRead  == versions[contract.version].status = "draft" /\ \E t \in Texts : Begin("edit", t)
LockRead  == contract.status = "in_progress" /\ Begin("lock", contract.text)
IssueRead == contract.status = "locked" /\ Begin("issue", contract.text)

(* updateVersion: the fields of the contract follow those of the version.  *)
EditWrite ==
    \E e \in doing :
        /\ e.what = "edit"
        /\ versions' = [versions EXCEPT ![e.version].status = "draft"]
        /\ contract' = [contract EXCEPT !.text = e.text, !.status = "in_progress"]
        /\ doing' = doing \ {e}
        /\ UNCHANGED Queue

(* lockSnapshot: the hash is of the fields that were read.                 *)
LockWrite ==
    \E e \in doing :
        /\ e.what = "lock"
        /\ versions' = [versions EXCEPT ![e.version] = [status |-> "locked", hash |-> e.text]]
        /\ contract' = [contract EXCEPT !.status = "locked"]
        /\ doing' = doing \ {e}
        /\ UNCHANGED Queue

IssueWrite ==
    \E e \in doing :
        /\ e.what = "issue"
        /\ Len(jobs) < MaxJobs
        /\ contract' = [contract EXCEPT !.status = "issued", !.pdf = "queued"]
        /\ versions' = [versions EXCEPT ![e.version].status = "issued"]
        /\ jobs' = Append(jobs, [version |-> e.version, status |-> "pending", attempts |-> 0, due |-> TRUE])
        /\ doing' = doing \ {e}
        /\ UNCHANGED <<files, workers, crashes>>

(* createVersion, of an issued contract too: the jobs of the version that  *)
(* is left are not touched.                                                *)
CreateVersion ==
    LET next == Cardinality({v \in Versions : versions[v].status # "none"}) + 1 IN
    /\ next \in Versions
    /\ versions' = [versions EXCEPT ![next].status = "draft"]
    /\ contract' = [contract EXCEPT !.version = next, !.status = "in_progress", !.pdf = "not_requested"]
    /\ UNCHANGED <<Queue, doing>>

-----------------------------------------------------------------------------
(* The workers.                                                            *)

Desk == <<versions, doing>>

Claimable_Unfinished(j) == jobs[j].status \in Waiting \cup {"processing"} /\ jobs[j].due

Claimable_FirstTry(j) == jobs[j].status = "pending" /\ jobs[j].due

Claimable(j) == jobs[j].status \in Waiting /\ jobs[j].due

Claim(w) ==
    /\ workers[w] = Idle
    /\ \E j \in JobIds :
        /\ Claimable(j)
        /\ \A i \in 1 .. j - 1 : ~Claimable(i)
        /\ jobs' = [jobs EXCEPT ![j].status = "processing", ![j].attempts = @ + 1]
        /\ workers' = [workers EXCEPT ![w] = [Idle EXCEPT !.job = j]]
    /\ contract' = [contract EXCEPT !.pdf = "processing"]
    /\ UNCHANGED <<Desk, files, crashes>>

(* process reads the clauses of the job's version and the contract's       *)
(* current fields.                                                         *)
Load(w) ==
    /\ workers[w].job # 0 /\ workers[w].text = None
    /\ workers' = [workers EXCEPT ![w].text = contract.text]
    /\ UNCHANGED <<contract, Desk, files, jobs, crashes>>

(* A file is rendered and its row written, over the one of an earlier run. *)
Persist(w) ==
    /\ workers[w].text # None /\ workers[w].stored < Parts
    /\ workers' = [workers EXCEPT ![w].stored = @ + 1]
    /\ files' = [files EXCEPT ![jobs[workers[w].job].version][workers[w].stored + 1] = workers[w].text]
    /\ UNCHANGED <<contract, Desk, jobs, crashes>>

Stored_MainOnly(w) == workers[w].stored >= 1

Stored(w) == workers[w].stored = Parts

Ends(w, status, pdf, due) ==
    /\ jobs' = [jobs EXCEPT ![workers[w].job].status = status, ![workers[w].job].due = due]
    /\ contract' = [contract EXCEPT !.pdf = pdf]
    /\ workers' = [workers EXCEPT ![w] = Idle]
    /\ UNCHANGED <<Desk, files, crashes>>

Complete(w) == Stored(w) /\ Ends(w, "completed", "ready", TRUE)

Exhausted_Late(w) == jobs[workers[w].job].attempts > MaxAttempts

Exhausted(w) == jobs[workers[w].job].attempts >= MaxAttempts

Fail_StillQueued(w) ==
    /\ workers[w].job # 0
    /\ IF Exhausted(w) THEN Ends(w, "failed", "queued", TRUE) ELSE Ends(w, "retry", "queued", FALSE)

(* failJob: rendering or storing raised, or the renderer's timeout passed. *)
Fail(w) ==
    /\ workers[w].job # 0
    /\ IF Exhausted(w) THEN Ends(w, "failed", "failed", TRUE) ELSE Ends(w, "retry", "queued", FALSE)

(* available_at has come.                                                  *)
BecomesDue(j) ==
    /\ ~jobs[j].due
    /\ jobs' = [jobs EXCEPT ![j].due = TRUE]
    /\ UNCHANGED <<contract, Desk, files, workers, crashes>>

(* The worker's process is killed; nothing looks for its job again.        *)
Crash(w) ==
    /\ workers[w] # Idle /\ crashes < MaxCrashes
    /\ workers' = [workers EXCEPT ![w] = Idle]
    /\ crashes' = crashes + 1
    /\ UNCHANGED <<contract, Desk, files, jobs>>

-----------------------------------------------------------------------------

DeskNext == EditRead \/ LockRead \/ IssueRead \/ EditWrite \/ LockWrite \/ IssueWrite \/ CreateVersion

Work(w) == Load(w) \/ Persist(w) \/ Complete(w) \/ Fail(w)

Next ==
    \/ DeskNext
    \/ \E w \in Workers : Claim(w) \/ Work(w) \/ Crash(w)
    \/ \E j \in JobIds : BecomesDue(j)

(* The scheduler starts the command every minute, a started run works the  *)
(* job to an end (the renderer has a timeout), and time passes.            *)
Fairness ==
    /\ \A w \in Workers : WF_vars(Claim(w)) /\ WF_vars(Work(w))
    /\ \A j \in 1 .. MaxJobs : WF_vars(j \in JobIds /\ BecomesDue(j))

Spec == Init /\ [][Next]_vars /\ Fairness

-----------------------------------------------------------------------------
(* Properties.                                                             *)

Holders(j) == {w \in Workers : workers[w].job = j}

(* Two overlapping runs of the command never render the same job, and only *)
(* a job somebody claimed is rendered.                                     *)
OneWorkerPerJob ==
    \A j \in JobIds : Cardinality(Holders(j)) <= IF jobs[j].status = "processing" THEN 1 ELSE 0

(* A job that is reported complete has stored every file of its version,   *)
(* however many of its earlier runs failed or died half way.               *)
CompletedIsStored ==
    \A j \in JobIds :
        jobs[j].status = "completed" => \A p \in 1 .. Parts : files[jobs[j].version][p] # None

(* A contract that shows its document as queued or in the making has a job *)
(* behind it that is waiting or claimed, also when it was issued twice or  *)
(* a job of a former version ends in between.                              *)
StatusIsServed ==
    /\ contract.pdf = "queued" => \E j \in JobIds : jobs[j].status \in Waiting
    /\ contract.pdf = "processing" => \E j \in JobIds : jobs[j].status = "processing"

Orphaned(j) == jobs[j].status = "processing" /\ Holders(j) = {}

(* Every job completes or fails for good, unless its worker died: that one *)
(* stays "processing" and is never tried again.                            *)
EveryJobEnds ==
    \A id \in 1 .. MaxJobs :
        id \in JobIds ~> id \in JobIds /\ (jobs[id].status \in {"completed", "failed"} \/ Orphaned(id))

(* The files of an issued version carry the text its hash was taken of.    *)
IssuedTextIsHashed ==
    \A v \in Versions :
        versions[v].status = "issued" /\ versions[v].hash # None =>
            \A p \in 1 .. Parts : files[v][p] \in {None, versions[v].hash}

=============================================================================
