------------------------- MODULE DocumentJobs_proofs -------------------------
(***************************************************************************)
(* The safety properties of the PDF queue, for every number of workers,    *)
(* versions, parts, jobs and attempts, and any crashes.                    *)
(*                                                                         *)
(* What the properties rest on: a job that a worker holds is "processing", *)
(* so that no other worker can claim it; what a worker has counted as      *)
(* stored is in the files of its job's version; and a waiting job has an   *)
(* attempt left.                                                           *)
(***************************************************************************)
EXTENDS DocumentJobs, TLAPS, FiniteSetTheorems, SequenceTheorems

HeldIsProcessing ==
    \A w \in Workers : workers[w].job # 0 => jobs[workers[w].job].status = "processing"
HeldOnce ==
    \A v, w \in Workers : workers[v].job = workers[w].job /\ workers[w].job # 0 => v = w
NoJobNothingStored ==
    \A w \in Workers : workers[w].job = 0 => workers[w].text = None /\ workers[w].stored = 0
CountedIsStored ==
    \A w \in Workers : workers[w].job # 0 =>
        \A p \in 1 .. workers[w].stored : files[jobs[workers[w].job].version][p] # None
AttemptLeft ==
    \A j \in JobIds : jobs[j].status \in Waiting => jobs[j].attempts < MaxAttempts

JobsInv ==
    /\ TypeOK
    /\ HeldIsProcessing /\ HeldOnce /\ NoJobNothingStored /\ CountedIsStored /\ AttemptLeft
    /\ CompletedIsStored /\ StatusIsServed

WorkerRows == [job : 0 .. Len(jobs), text : Texts \cup {None}, stored : 0 .. Parts]

-----------------------------------------------------------------------------
(* Writing one row of a table.                                             *)

(* Writing a job leaves the others and their number.                       *)
LEMMA WriteJob ==
    ASSUME jobs \in Seq(JobRows), NEW j \in JobIds, NEW row \in JobRows
    PROVE  /\ [jobs EXCEPT ![j] = row] \in Seq(JobRows)
           /\ Len([jobs EXCEPT ![j] = row]) = Len(jobs)
           /\ \A i \in JobIds : [jobs EXCEPT ![j] = row][i] = IF i = j THEN row ELSE jobs[i]
<1>1. j \in 1 .. Len(jobs)
  BY DEF JobIds
<1>2. QED BY <1>1, ExceptSeq DEF JobIds

(* So does writing the row of a worker.                                    *)
LEMMA WriteWorker ==
    ASSUME workers \in [Workers -> WorkerRows], NEW w \in Workers, NEW row \in WorkerRows
    PROVE  /\ [workers EXCEPT ![w] = row] \in [Workers -> WorkerRows]
           /\ \A v \in Workers : [workers EXCEPT ![w] = row][v] = IF v = w THEN row ELSE workers[v]
OBVIOUS

(* What every row of a well-typed state is.                                *)
LEMMA Rows ==
    ASSUME TypeOK
    PROVE  /\ jobs \in Seq(JobRows) /\ Len(jobs) \in Nat
           /\ \A j \in JobIds : jobs[j] \in JobRows
           /\ workers \in [Workers -> WorkerRows]
           /\ Idle \in WorkerRows
           /\ Parts \in Nat \ {0} /\ MaxAttempts \in Nat \ {0}
           /\ None \notin Texts
<1>1. jobs \in Seq(JobRows) /\ Len(jobs) \in Nat
  BY DEF TypeOK
<1>2. \A j \in JobIds : jobs[j] \in JobRows
  BY <1>1, ElementOfSeq DEF JobIds
<1>3. Idle \in WorkerRows
  BY <1>1, CountsAssumption DEF Idle, WorkerRows
<1>4. QED BY <1>1, <1>2, <1>3, CountsAssumption, TextsAssumption DEF TypeOK, WorkerRows

(* The jobs a worker holds, and what is in the row of a worker.            *)
LEMMA Held ==
    ASSUME JobsInv, NEW w \in Workers
    PROVE  /\ workers[w].job \in 0 .. Len(jobs)
           /\ workers[w].text \in Texts \cup {None}
           /\ workers[w].stored \in 0 .. Parts
           /\ workers[w].text # None \/ workers[w].stored # 0 => workers[w].job # 0
           /\ workers[w].job # 0 => workers[w].job \in JobIds
<1>1. workers[w] \in WorkerRows
  BY Rows DEF JobsInv
<1>2. /\ workers[w].job \in 0 .. Len(jobs)
      /\ workers[w].text \in Texts \cup {None}
      /\ workers[w].stored \in 0 .. Parts
  BY <1>1 DEF WorkerRows
<1>3. workers[w].text # None \/ workers[w].stored # 0 => workers[w].job # 0
  BY DEF JobsInv, NoJobNothingStored
<1>4. QED BY <1>2, <1>3, Rows DEF JobsInv, JobIds

-----------------------------------------------------------------------------
(* The initial state and the steps of the desk.                            *)

LEMMA JobsInit == Init => JobsInv
<1> SUFFICES ASSUME Init PROVE JobsInv
  OBVIOUS
<1> USE CountsAssumption, TextsAssumption
<1>1. JobIds = {}
  BY DEF Init, JobIds
<1>2. TypeOK
  <2>1. contract \in [status : {"in_progress", "locked", "issued"}, version : Versions, text : Texts,
                       pdf : {"not_requested", "queued", "processing", "ready", "failed"}]
    BY DEF Init, Versions
  <2>2. /\ versions \in [Versions -> [status : {"none", "draft", "locked", "issued"}, hash : Texts \cup {None}]]
        /\ files \in [Versions -> [1 .. Parts -> Texts \cup {None}]]
    BY DEF Init
  <2>3. jobs \in Seq(JobRows) /\ Len(jobs) = 0
    BY EmptySeq DEF Init
  <2>4. workers \in [Workers -> [job : 0 .. Len(jobs), text : Texts \cup {None}, stored : 0 .. Parts]]
    BY <2>3 DEF Init, Idle
  <2>5. QED BY <2>1, <2>2, <2>3, <2>4 DEF Init, TypeOK
<1>3. \A w \in Workers : workers[w] = Idle
  BY DEF Init
<1>4. contract.pdf = "not_requested"
  BY DEF Init
<1>5. QED BY <1>1, <1>2, <1>3, <1>4 DEF JobsInv, Idle, HeldIsProcessing, HeldOnce,
          NoJobNothingStored, CountedIsStored, AttemptLeft, CompletedIsStored, StatusIsServed

(* A step that leaves the queue alone, and the status of the document too  *)
(* unless it is "not_requested", keeps all but the types.                  *)
LEMMA QueueLeftAlone ==
    ASSUME JobsInv, TypeOK', UNCHANGED <<files, jobs, workers>>,
           contract'.pdf \in {contract.pdf, "not_requested"}
    PROVE  JobsInv'
BY DEF JobsInv, HeldIsProcessing, HeldOnce, NoJobNothingStored, CountedIsStored, AttemptLeft,
       CompletedIsStored, StatusIsServed, JobIds

LEMMA DeskStep ==
    ASSUME JobsInv, EditRead \/ LockRead \/ IssueRead \/ EditWrite \/ LockWrite \/ CreateVersion
    PROVE  JobsInv'
<1> DEFINE Doing == [what : {"edit", "lock", "issue"}, version : Versions, text : Texts]
           Row == [status : {"in_progress", "locked", "issued"}, version : Versions, text : Texts,
                   pdf : {"not_requested", "queued", "processing", "ready", "failed"}]
           Version == [status : {"none", "draft", "locked", "issued"}, hash : Texts \cup {None}]
<1>0. contract \in Row /\ versions \in [Versions -> Version] /\ doing \subseteq Doing
  BY DEF JobsInv, TypeOK
<1>1. ASSUME NEW what \in {"edit", "lock", "issue"}, NEW t \in Texts, Begin(what, t)
      PROVE  JobsInv'
  <2>1. [what |-> what, version |-> contract.version, text |-> t] \in Doing
    BY <1>0
  <2>2. doing' \subseteq Doing
    BY <1>0, <1>1, <2>1 DEF Begin
  <2>3. TypeOK'
    BY <1>1, <2>2 DEF Begin, Queue, JobsInv, TypeOK, JobIds
  <2>4. QED BY <1>1, <2>3, QueueLeftAlone DEF Begin, Queue
<1>2. CASE EditRead
  BY <1>1, <1>2 DEF EditRead
<1>3. CASE LockRead \/ IssueRead
  BY <1>0, <1>1, <1>3 DEF LockRead, IssueRead
<1>4. ASSUME NEW e \in doing,
             \/ /\ versions' = [versions EXCEPT ![e.version].status = "draft"]
                /\ contract' = [contract EXCEPT !.text = e.text, !.status = "in_progress"]
             \/ /\ versions' = [versions EXCEPT ![e.version] = [status |-> "locked", hash |-> e.text]]
                /\ contract' = [contract EXCEPT !.status = "locked"],
             doing' = doing \ {e}, UNCHANGED Queue
      PROVE  JobsInv'
  <2>1. e.version \in Versions /\ e.text \in Texts
    BY <1>0
  <2>2. contract' \in Row /\ contract'.pdf = contract.pdf
    BY <1>0, <1>4, <2>1
  <2>3. versions' \in [Versions -> Version]
    BY <1>0, <1>4, <2>1
  <2>4. TypeOK'
    BY <1>0, <1>4, <2>2, <2>3 DEF Queue, JobsInv, TypeOK, JobIds
  <2>5. QED BY <1>4, <2>2, <2>4, QueueLeftAlone DEF Queue
<1>5. CASE EditWrite \/ LockWrite
  BY <1>4, <1>5 DEF EditWrite, LockWrite
<1>6. CASE CreateVersion
  <2>1. PICK next \in Versions :
            /\ versions' = [versions EXCEPT ![next].status = "draft"]
            /\ contract' = [contract EXCEPT !.version = next, !.status = "in_progress", !.pdf = "not_requested"]
    BY <1>6 DEF CreateVersion
  <2>2. contract' \in Row /\ contract'.pdf = "not_requested" /\ versions' \in [Versions -> Version]
    BY <1>0, <2>1
  <2>3. TypeOK'
    BY <1>6, <2>2 DEF CreateVersion, Queue, JobsInv, TypeOK, JobIds
  <2>4. QED BY <1>6, <2>2, <2>3, QueueLeftAlone DEF CreateVersion, Queue
<1>7. QED BY <1>2, <1>3, <1>5, <1>6

(* Issuing appends a job that nobody holds and that has an attempt left.   *)
LEMMA IssueStep ==
    ASSUME JobsInv, IssueWrite
    PROVE  JobsInv'
<1> DEFINE new(e) == [version |-> e.version, status |-> "pending", attempts |-> 0, due |-> TRUE]
<1>1. PICK e \in doing :
         /\ Len(jobs) < MaxJobs
         /\ contract' = [contract EXCEPT !.status = "issued", !.pdf = "queued"]
         /\ versions' = [versions EXCEPT ![e.version].status = "issued"]
         /\ jobs' = Append(jobs, new(e))
         /\ doing' = doing \ {e}
         /\ UNCHANGED <<files, workers, crashes>>
  BY DEF IssueWrite
<1>2. new(e) \in JobRows /\ e.version \in Versions
  BY CountsAssumption DEF JobsInv, TypeOK, JobRows, JobStatuses, Waiting
<1> HIDE DEF new
<1>3. /\ jobs' \in Seq(JobRows) /\ Len(jobs') = Len(jobs) + 1
      /\ \A j \in JobIds : jobs'[j] = jobs[j]
      /\ jobs'[Len(jobs) + 1] = new(e)
      /\ JobIds' = JobIds \cup {Len(jobs) + 1} /\ JobIds \subseteq JobIds'
  <2>1. jobs \in Seq(JobRows) /\ Len(jobs) \in Nat
    BY Rows DEF JobsInv
  <2>2. /\ jobs' \in Seq(JobRows) /\ Len(jobs') = Len(jobs) + 1
        /\ \A j \in 1 .. Len(jobs) : jobs'[j] = jobs[j]
        /\ jobs'[Len(jobs) + 1] = new(e)
    BY <1>1, <1>2, <2>1, AppendProperties
  <2>3. QED BY <2>1, <2>2 DEF JobIds
<1>4. new(e).status = "pending" /\ new(e).attempts = 0 /\ new(e).version = e.version
  BY DEF new
<1>5. TypeOK'
  <2>1. contract' \in [status : {"in_progress", "locked", "issued"}, version : Versions, text : Texts,
                       pdf : {"not_requested", "queued", "processing", "ready", "failed"}]
    BY <1>1 DEF JobsInv, TypeOK
  <2>2. versions' \in [Versions -> [status : {"none", "draft", "locked", "issued"}, hash : Texts \cup {None}]]
    BY <1>1, <1>2 DEF JobsInv, TypeOK
  <2>3. workers' \in [Workers -> [job : 0 .. Len(jobs'), text : Texts \cup {None}, stored : 0 .. Parts]]
    <3>1. 0 .. Len(jobs) \subseteq 0 .. Len(jobs')
      BY <1>3, Rows DEF JobsInv
    <3>2. \A w \in Workers : workers'[w] \in [job : 0 .. Len(jobs'), text : Texts \cup {None}, stored : 0 .. Parts]
      BY <1>1, <3>1 DEF JobsInv, TypeOK
    <3>3. QED BY <1>1, <3>2 DEF JobsInv, TypeOK
  <2>4. Len(jobs') <= MaxJobs
    BY <1>1, <1>3, Rows, CountsAssumption DEF JobsInv
  <2>5. QED BY <1>1, <1>3, <2>1, <2>2, <2>3, <2>4 DEF JobsInv, TypeOK
<1>6. \A w \in Workers : workers[w].job # 0 => workers[w].job \in JobIds
  BY Held
<1>7. HeldIsProcessing' /\ HeldOnce' /\ NoJobNothingStored' /\ CountedIsStored'
  BY <1>1, <1>3, <1>6 DEF JobsInv, HeldIsProcessing, HeldOnce, NoJobNothingStored, CountedIsStored
<1>8. AttemptLeft'
  BY <1>3, <1>4, CountsAssumption DEF JobsInv, AttemptLeft
<1>9. CompletedIsStored'
  <2>1. ASSUME NEW j \in JobIds', jobs'[j].status = "completed", NEW p \in 1 .. Parts
        PROVE  files'[jobs'[j].version][p] # None
    <3>1. j \in JobIds /\ jobs'[j] = jobs[j]
      BY <1>3, <1>4, <2>1
    <3>2. QED BY <1>1, <2>1, <3>1 DEF JobsInv, CompletedIsStored
  <2>2. QED BY <2>1 DEF CompletedIsStored
<1>10. StatusIsServed'
  <2>1. contract'.pdf = "queued"
    BY <1>1 DEF JobsInv, TypeOK
  <2>2. Len(jobs) + 1 \in JobIds' /\ jobs'[Len(jobs) + 1].status \in Waiting
    BY <1>3, <1>4 DEF Waiting
  <2>3. QED BY <2>1, <2>2 DEF StatusIsServed
<1>11. QED BY <1>5, <1>7, <1>8, <1>9, <1>10 DEF JobsInv

-----------------------------------------------------------------------------
(* The steps of the workers.                                               *)

(* A worker that claims a waiting job is the only one to hold it.          *)
LEMMA ClaimStep ==
    ASSUME JobsInv, NEW w \in Workers, Claim(w)
    PROVE  JobsInv'
<1> DEFINE taken(j) == [jobs[j] EXCEPT !.status = "processing", !.attempts = @ + 1]
           row(j) == [Idle EXCEPT !.job = j]
<1>1. PICK j \in JobIds :
         /\ jobs[j].status \in Waiting
         /\ jobs' = [jobs EXCEPT ![j] = taken(j)]
         /\ workers' = [workers EXCEPT ![w] = row(j)]
  <2>1. PICK j \in JobIds :
           /\ jobs[j].status \in Waiting
           /\ jobs' = [jobs EXCEPT ![j].status = "processing", ![j].attempts = @ + 1]
           /\ workers' = [workers EXCEPT ![w] = row(j)]
    BY DEF Claim, Claimable
  <2>2. jobs[j] \in JobRows /\ jobs \in Seq(JobRows) /\ j \in DOMAIN jobs
    BY Rows DEF JobsInv, JobIds
  <2>3. [jobs EXCEPT ![j].status = "processing", ![j].attempts = @ + 1] = [jobs EXCEPT ![j] = taken(j)]
    BY <2>2 DEF JobRows
  <2>4. QED BY <2>1, <2>3
<1>2. /\ contract' = [contract EXCEPT !.pdf = "processing"]
      /\ UNCHANGED <<versions, doing, files, crashes>>
  BY DEF Claim, Desk
<1>3. taken(j) \in JobRows /\ taken(j).status = "processing" /\ taken(j).version = jobs[j].version
  <2>1. jobs[j] \in JobRows /\ jobs[j].attempts < MaxAttempts
    BY <1>1, Rows DEF JobsInv, AttemptLeft
  <2>2. jobs[j].attempts + 1 \in 0 .. MaxAttempts
    BY <2>1, CountsAssumption DEF JobRows
  <2>3. QED BY <2>1, <2>2 DEF JobRows, JobStatuses
<1>4. /\ row(j) \in WorkerRows
      /\ row(j).job = j /\ row(j).stored = 0
  BY Rows, CountsAssumption DEF JobsInv, Idle, WorkerRows, JobIds
<1> HIDE DEF taken, row
<1>5. /\ jobs' \in Seq(JobRows) /\ Len(jobs') = Len(jobs)
      /\ \A i \in JobIds : jobs'[i] = IF i = j THEN taken(j) ELSE jobs[i]
      /\ JobIds' = JobIds
  BY <1>1, <1>3, Rows, WriteJob DEF JobsInv, JobIds
<1>6. /\ workers' \in [Workers -> WorkerRows]
      /\ \A v \in Workers : workers'[v] = IF v = w THEN row(j) ELSE workers[v]
  BY <1>1, <1>4, Rows, WriteWorker DEF JobsInv
<1>7. \A v \in Workers : workers[v].job # j
  BY <1>1 DEF JobsInv, HeldIsProcessing, Waiting, JobIds
<1>8. TypeOK'
  BY <1>2, <1>5, <1>6 DEF JobsInv, TypeOK, WorkerRows
<1>9. \A v \in Workers : workers[v].job # 0 => workers[v].job \in JobIds
  BY Held
<1>10. HeldIsProcessing'
  BY <1>3, <1>4, <1>5, <1>6, <1>9 DEF JobsInv, HeldIsProcessing
<1>11. HeldOnce'
  BY <1>4, <1>6, <1>7 DEF JobsInv, HeldOnce
<1>12. NoJobNothingStored'
  BY <1>4, <1>6 DEF JobsInv, NoJobNothingStored, JobIds
<1>13. CountedIsStored'
  BY <1>2, <1>3, <1>4, <1>5, <1>6, <1>7, <1>9 DEF JobsInv, CountedIsStored
<1>14. AttemptLeft'
  BY <1>3, <1>5 DEF JobsInv, AttemptLeft, Waiting
<1>15. CompletedIsStored'
  BY <1>2, <1>3, <1>5 DEF JobsInv, CompletedIsStored
<1>16. StatusIsServed'
  <2>1. contract'.pdf = "processing"
    BY <1>2 DEF JobsInv, TypeOK
  <2>2. QED BY <1>3, <1>5, <2>1 DEF StatusIsServed
<1>17. QED BY <1>8, <1>10, <1>11, <1>12, <1>13, <1>14, <1>15, <1>16 DEF JobsInv

(* Reading the text and storing a file change nothing but the worker's row *)
(* and one file.                                                           *)
LEMMA RenderStep ==
    ASSUME JobsInv, NEW w \in Workers, Load(w) \/ Persist(w)
    PROVE  JobsInv'
<1>0. /\ workers[w].job # 0 /\ workers[w].job \in JobIds
      /\ workers[w] \in WorkerRows
      /\ UNCHANGED <<contract, versions, doing, jobs, crashes>>
      /\ JobIds' = JobIds
  BY Held, Rows DEF JobsInv, Load, Persist, Desk, JobIds
<1>1. ASSUME NEW row \in WorkerRows, row.job = workers[w].job,
             workers' = [workers EXCEPT ![w] = row],
             files' \in [Versions -> [1 .. Parts -> Texts \cup {None}]],
             \A v \in Versions : \A p \in 1 .. Parts : files[v][p] # None => files'[v][p] # None,
             \A p \in 1 .. row.stored : files'[jobs[row.job].version][p] # None
      PROVE  JobsInv'
  <2>1. /\ workers' \in [Workers -> WorkerRows]
        /\ \A v \in Workers : workers'[v] = IF v = w THEN row ELSE workers[v]
    BY <1>1, Rows, WriteWorker DEF JobsInv
  <2>2. TypeOK'
    BY <1>0, <1>1, <2>1 DEF JobsInv, TypeOK, WorkerRows
  <2>3. HeldIsProcessing' /\ HeldOnce' /\ NoJobNothingStored'
    BY <1>0, <1>1, <2>1 DEF JobsInv, HeldIsProcessing, HeldOnce, NoJobNothingStored
  <2>4. \A j \in JobIds : jobs[j].version \in Versions
    BY Rows DEF JobsInv, JobRows
  <2>5. CountedIsStored'
    <3>1. ASSUME NEW v \in Workers, workers'[v].job # 0, NEW p \in 1 .. workers'[v].stored
          PROVE  files'[jobs'[workers'[v].job].version][p] # None
      <4>1. CASE v = w
        BY <1>0, <1>1, <2>1, <3>1, <4>1
      <4>2. CASE v # w
        <5>1. workers'[v] = workers[v] /\ workers[v].job \in JobIds /\ workers[v].stored \in 0 .. Parts
          BY <2>1, <3>1, <4>2, Held
        <5>2. p \in 1 .. Parts
          BY <3>1, <5>1, CountsAssumption
        <5>3. QED BY <1>0, <1>1, <2>4, <3>1, <5>1, <5>2 DEF JobsInv, CountedIsStored
      <4>3. QED BY <4>1, <4>2
    <3>2. QED BY <3>1 DEF CountedIsStored
  <2>6. CompletedIsStored'
    BY <1>0, <1>1, <2>4 DEF JobsInv, CompletedIsStored
  <2>7. AttemptLeft' /\ StatusIsServed'
    BY <1>0 DEF JobsInv, AttemptLeft, StatusIsServed
  <2>8. QED BY <2>2, <2>3, <2>5, <2>6, <2>7 DEF JobsInv
<1>2. CASE Load(w)
  <2> DEFINE row == [workers[w] EXCEPT !.text = contract.text]
  <2>1. row \in WorkerRows /\ row.job = workers[w].job /\ row.stored = workers[w].stored
    BY <1>0 DEF JobsInv, TypeOK, WorkerRows
  <2>2. workers' = [workers EXCEPT ![w] = row] /\ files' = files
    BY <1>2 DEF Load
  <2>3. \A p \in 1 .. row.stored : files[jobs[row.job].version][p] # None
    BY <1>0, <2>1 DEF JobsInv, CountedIsStored
  <2>4. files' \in [Versions -> [1 .. Parts -> Texts \cup {None}]]
    BY <2>2 DEF JobsInv, TypeOK
  <2> HIDE DEF row
  <2>5. QED BY <1>1, <2>1, <2>2, <2>3, <2>4
<1>3. CASE Persist(w)
  <2> DEFINE row == [workers[w] EXCEPT !.stored = @ + 1]
             n == workers[w].stored + 1
             v == jobs[workers[w].job].version
  <2>1. /\ workers[w].text # None /\ workers[w].stored < Parts
        /\ workers' = [workers EXCEPT ![w] = row]
        /\ files' = [files EXCEPT ![v][n] = workers[w].text]
    BY <1>3 DEF Persist
  <2>2. n \in 1 .. Parts /\ v \in Versions /\ workers[w].text \in Texts
    BY <1>0, <2>1, Rows DEF JobsInv, WorkerRows, JobRows
  <2>3. row \in WorkerRows /\ row.job = workers[w].job /\ row.stored = n
    BY <1>0, <2>2 DEF WorkerRows
  <2>4. files \in [Versions -> [1 .. Parts -> Texts \cup {None}]]
    BY DEF JobsInv, TypeOK
  <2>5. /\ files' \in [Versions -> [1 .. Parts -> Texts \cup {None}]]
        /\ \A u \in Versions : \A p \in 1 .. Parts :
              files'[u][p] = IF u = v /\ p = n THEN workers[w].text ELSE files[u][p]
    BY <2>1, <2>2, <2>4
  <2>6. \A u \in Versions : \A p \in 1 .. Parts : files[u][p] # None => files'[u][p] # None
    BY <2>2, <2>5, TextsAssumption
  <2>7. \A p \in 1 .. row.stored : files'[jobs[row.job].version][p] # None
    <3>1. ASSUME NEW p \in 1 .. n PROVE files'[v][p] # None
      <4>1. CASE p = n
        BY <2>2, <2>5, <4>1, TextsAssumption
      <4>2. CASE p # n
        <5>1. p \in 1 .. workers[w].stored /\ p \in 1 .. Parts
          BY <1>0, <2>2, <3>1, <4>2, CountsAssumption DEF WorkerRows
        <5>2. files[v][p] # None
          BY <1>0, <5>1 DEF JobsInv, CountedIsStored
        <5>3. QED BY <2>2, <2>6, <5>1, <5>2
      <4>3. QED BY <4>1, <4>2
    <3>2. QED BY <2>3, <3>1
  <2> HIDE DEF row, n, v
  <2>8. QED BY <1>1, <2>1, <2>3, <2>5, <2>6, <2>7
<1>4. QED BY <1>2, <1>3

(* A job ends, or waits for another attempt, with a status of the document *)
(* to match.                                                               *)
LEMMA EndStep ==
    ASSUME JobsInv, NEW w \in Workers, workers[w].job # 0,
           NEW status \in {"completed", "failed", "retry"},
           NEW pdf \in {"ready", "failed", "queued"}, NEW due \in BOOLEAN,
           pdf = "queued" => status = "retry",
           status = "retry" => jobs[workers[w].job].attempts < MaxAttempts,
           status = "completed" => workers[w].stored = Parts,
           Ends(w, status, pdf, due)
    PROVE  JobsInv'
<1> DEFINE j == workers[w].job
           row == [jobs[j] EXCEPT !.status = status, !.due = due]
<1>1. j \in JobIds /\ jobs[j] \in JobRows /\ jobs[j].status = "processing"
  BY Held, Rows DEF JobsInv, HeldIsProcessing
<1>2. /\ row \in JobRows
      /\ row.status = status /\ row.version = jobs[j].version /\ row.attempts = jobs[j].attempts
  BY <1>1 DEF JobRows, JobStatuses, Waiting
<1>3. /\ jobs' = [jobs EXCEPT ![j] = row]
      /\ contract' = [contract EXCEPT !.pdf = pdf]
      /\ workers' = [workers EXCEPT ![w] = Idle]
      /\ UNCHANGED <<versions, doing, files, crashes>>
  <2>1. jobs \in Seq(JobRows) /\ j \in DOMAIN jobs
    BY <1>1, Rows DEF JobsInv, JobIds
  <2>2. [jobs EXCEPT ![j].status = status, ![j].due = due] = [jobs EXCEPT ![j] = row]
    BY <1>1, <2>1 DEF JobRows
  <2>3. QED BY <2>2 DEF Ends, Desk
<1> HIDE DEF row
<1>4. /\ jobs' \in Seq(JobRows) /\ Len(jobs') = Len(jobs)
      /\ \A i \in JobIds : jobs'[i] = IF i = j THEN row ELSE jobs[i]
      /\ JobIds' = JobIds
  BY <1>1, <1>2, <1>3, Rows, WriteJob DEF JobsInv, JobIds
<1>5. /\ workers' \in [Workers -> WorkerRows]
      /\ \A v \in Workers : workers'[v] = IF v = w THEN Idle ELSE workers[v]
  BY <1>3, Rows, WriteWorker DEF JobsInv
<1>6. TypeOK'
  <2>1. contract' \in [status : {"in_progress", "locked", "issued"}, version : Versions, text : Texts,
                       pdf : {"not_requested", "queued", "processing", "ready", "failed"}]
    BY <1>3 DEF JobsInv, TypeOK
  <2>2. QED BY <1>3, <1>4, <1>5, <2>1 DEF JobsInv, TypeOK, WorkerRows
<1>7. \A v \in Workers : workers'[v].job # 0 =>
          v # w /\ workers'[v] = workers[v] /\ workers[v].job \in JobIds /\ workers[v].job # j
  BY <1>5, Held DEF Idle, JobsInv, HeldOnce
<1>8. HeldIsProcessing' /\ HeldOnce'
  BY <1>4, <1>7 DEF JobsInv, HeldIsProcessing, HeldOnce
<1>9. NoJobNothingStored'
  BY <1>5 DEF JobsInv, NoJobNothingStored, Idle
<1>10. CountedIsStored'
  BY <1>3, <1>4, <1>7 DEF JobsInv, CountedIsStored
<1>11. AttemptLeft'
  BY <1>2, <1>4 DEF JobsInv, AttemptLeft, Waiting
<1>12. CompletedIsStored'
  <2>1. status = "completed" => \A p \in 1 .. Parts : files[jobs[j].version][p] # None
    BY DEF JobsInv, CountedIsStored
  <2>2. ASSUME NEW i \in JobIds, jobs'[i].status = "completed", NEW p \in 1 .. Parts
        PROVE  files'[jobs'[i].version][p] # None
    BY <1>2, <1>3, <1>4, <2>1, <2>2 DEF JobsInv, CompletedIsStored
  <2>3. QED BY <1>4, <2>2 DEF CompletedIsStored
<1>13. StatusIsServed'
  <2>1. contract'.pdf = pdf
    BY <1>3 DEF JobsInv, TypeOK
  <2>2. pdf = "queued" => jobs'[j].status \in Waiting
    BY <1>1, <1>2, <1>4 DEF Waiting
  <2>3. QED BY <1>1, <1>4, <2>1, <2>2 DEF StatusIsServed
<1>14. QED BY <1>6, <1>8, <1>9, <1>10, <1>11, <1>12, <1>13 DEF JobsInv

LEMMA CompleteOrFailStep ==
    ASSUME JobsInv, NEW w \in Workers, Complete(w) \/ Fail(w)
    PROVE  JobsInv'
<1>1. CASE Complete(w)
  <2>1. workers[w].stored = Parts /\ workers[w].job # 0
    BY <1>1, Held, CountsAssumption DEF Complete, Stored
  <2>2. QED BY <1>1, <2>1, EndStep DEF Complete
<1>2. CASE Fail(w)
  <2>1. workers[w].job # 0 /\ workers[w].job \in JobIds /\ jobs[workers[w].job] \in JobRows
    BY <1>2, Held, Rows DEF Fail, JobsInv
  <2>2. ~Exhausted(w) => jobs[workers[w].job].attempts < MaxAttempts
    BY <2>1, CountsAssumption DEF Exhausted, JobRows
  <2>3. CASE Exhausted(w)
    <3>1. Ends(w, "failed", "failed", TRUE)
      BY <1>2, <2>3 DEF Fail
    <3>2. QED BY <2>1, <3>1, EndStep
  <2>4. CASE ~Exhausted(w)
    <3>1. Ends(w, "retry", "queued", FALSE)
      BY <1>2, <2>4 DEF Fail
    <3>2. QED BY <2>1, <2>2, <2>4, <3>1, EndStep
  <2>5. QED BY <2>3, <2>4
<1>3. QED BY <1>1, <1>2

(* Time passes, and a worker dies with its job.                            *)
LEMMA DueStep ==
    ASSUME JobsInv, NEW j \in JobIds, BecomesDue(j)
    PROVE  JobsInv'
<1> DEFINE row == [jobs[j] EXCEPT !.due = TRUE]
<1>1. jobs[j] \in JobRows
  BY Rows DEF JobsInv
<1>2. /\ row \in JobRows /\ row.status = jobs[j].status
      /\ row.version = jobs[j].version /\ row.attempts = jobs[j].attempts
  BY <1>1 DEF JobRows
<1>3. jobs' = [jobs EXCEPT ![j] = row] /\ UNCHANGED <<contract, versions, doing, files, workers, crashes>>
  BY DEF BecomesDue, Desk
<1> HIDE DEF row
<1>4. /\ jobs' \in Seq(JobRows) /\ Len(jobs') = Len(jobs) /\ JobIds' = JobIds
      /\ \A i \in JobIds : /\ jobs'[i].status = jobs[i].status
                          /\ jobs'[i].version = jobs[i].version
                          /\ jobs'[i].attempts = jobs[i].attempts
  BY <1>2, <1>3, Rows, WriteJob DEF JobsInv, JobIds
<1>5. TypeOK'
  BY <1>3, <1>4 DEF JobsInv, TypeOK
<1>6. \A w \in Workers : workers[w].job # 0 => workers[w].job \in JobIds
  BY Held
<1>7. HeldIsProcessing' /\ HeldOnce' /\ NoJobNothingStored' /\ CountedIsStored'
  BY <1>3, <1>4, <1>6 DEF JobsInv, HeldIsProcessing, HeldOnce, NoJobNothingStored, CountedIsStored
<1>8. AttemptLeft' /\ CompletedIsStored'
  BY <1>3, <1>4 DEF JobsInv, AttemptLeft, CompletedIsStored
<1>9. StatusIsServed'
  BY <1>3, <1>4 DEF JobsInv, StatusIsServed
<1>10. QED BY <1>5, <1>7, <1>8, <1>9 DEF JobsInv

LEMMA CrashStep ==
    ASSUME JobsInv, NEW w \in Workers, Crash(w)
    PROVE  JobsInv'
<1>1. /\ workers' \in [Workers -> WorkerRows]
      /\ \A v \in Workers : workers'[v] = IF v = w THEN Idle ELSE workers[v]
  BY Rows, WriteWorker DEF JobsInv, Crash
<1>2. UNCHANGED <<contract, versions, doing, files, jobs>> /\ JobIds' = JobIds
  BY DEF Crash, Desk, JobIds
<1>3. crashes' \in 0 .. MaxCrashes
  BY CountsAssumption DEF Crash, JobsInv, TypeOK
<1>4. TypeOK'
  BY <1>1, <1>2, <1>3 DEF JobsInv, TypeOK, WorkerRows
<1>5. HeldIsProcessing' /\ HeldOnce' /\ NoJobNothingStored' /\ CountedIsStored'
  BY <1>1, <1>2 DEF JobsInv, HeldIsProcessing, HeldOnce, NoJobNothingStored, CountedIsStored, Idle
<1>6. AttemptLeft' /\ CompletedIsStored' /\ StatusIsServed'
  BY <1>2 DEF JobsInv, AttemptLeft, CompletedIsStored, StatusIsServed
<1>7. QED BY <1>4, <1>5, <1>6 DEF JobsInv

-----------------------------------------------------------------------------
(* The theorems.                                                           *)

LEMMA JobsInductive == JobsInv /\ [Next]_vars => JobsInv'
<1> SUFFICES ASSUME JobsInv, [Next]_vars PROVE JobsInv'
  OBVIOUS
<1>1. CASE DeskNext
  BY <1>1, DeskStep, IssueStep DEF DeskNext
<1>2. ASSUME NEW w \in Workers, Claim(w) \/ Work(w) \/ Crash(w) PROVE JobsInv'
  BY <1>2, ClaimStep, RenderStep, CompleteOrFailStep, CrashStep DEF Work
<1>3. ASSUME NEW j \in JobIds, BecomesDue(j) PROVE JobsInv'
  BY <1>3, DueStep
<1>4. CASE UNCHANGED vars
  BY <1>4 DEF vars, JobsInv, TypeOK, HeldIsProcessing, HeldOnce, NoJobNothingStored,
     CountedIsStored, AttemptLeft, CompletedIsStored, StatusIsServed, JobIds
<1>5. QED BY <1>1, <1>2, <1>3, <1>4 DEF Next

LEMMA JobsInvariant == Spec => []JobsInv
<1>1. QED BY JobsInit, JobsInductive, PTL DEF Spec

(* Every state of the queue is well typed: no job makes more attempts than *)
(* it has.                                                                 *)
THEOREM JobsWellTyped == Spec => []TypeOK
<1>1. JobsInv => TypeOK
  BY DEF JobsInv
<1>2. QED BY <1>1, JobsInvariant, PTL

(* However many runs of the command overlap, and whichever of them die, no *)
(* two render the same job, and a job that is rendered is in processing    *)
(* (claim).  A job whose worker died is not taken up again.                *)
THEOREM NoTwoWorkersOnAJob == Spec => []OneWorkerPerJob
<1>1. ASSUME JobsInv, NEW j \in JobIds
      PROVE  Cardinality(Holders(j)) <= IF jobs[j].status = "processing" THEN 1 ELSE 0
  <2>1. \A w \in Holders(j) : w \in Workers /\ workers[w].job = j /\ j # 0
    BY <1>1, Rows DEF Holders, JobIds, JobsInv
  <2>2. CASE Holders(j) = {}
    <3>1. Cardinality(Holders(j)) = 0
      BY <2>2, FS_EmptySet
    <3>2. QED BY <3>1
  <2>3. CASE Holders(j) # {}
    <3>1. PICK w : w \in Holders(j)
      BY <2>3
    <3>2. Holders(j) = {w}
      BY <1>1, <2>1, <3>1 DEF JobsInv, HeldOnce
    <3>3. Cardinality(Holders(j)) = 1
      BY <3>2, FS_Singleton
    <3>4. jobs[j].status = "processing"
      BY <1>1, <2>1, <3>1 DEF JobsInv, HeldIsProcessing
    <3>5. QED BY <3>3, <3>4
  <2>4. QED BY <2>2, <2>3
<1>2. JobsInv => OneWorkerPerJob
  BY <1>1 DEF OneWorkerPerJob
<1>3. QED BY <1>2, JobsInvariant, PTL

(* A job that is complete has all the files of its version, whichever of   *)
(* its attempts wrote them.                                                *)
THEOREM CompletedHasItsFiles == Spec => []CompletedIsStored
<1>1. JobsInv => CompletedIsStored
  BY DEF JobsInv
<1>2. QED BY <1>1, JobsInvariant, PTL

(* A contract that shows its PDF as queued has a job that waits, and one   *)
(* that shows it as in the making a job in processing, which may have lost *)
(* its worker (issue, claim, failJob).                                     *)
THEOREM ShownStatusIsServed == Spec => []StatusIsServed
<1>1. JobsInv => StatusIsServed
  BY DEF JobsInv
<1>2. QED BY <1>1, JobsInvariant, PTL

-----------------------------------------------------------------------------
(* The queue the office counts on.                                         *)

(* A job that is "processing" is held by the worker that renders it, or    *)
(* lost with the one that died.                                            *)
IsHeld(id) == \E w \in Workers : workers[w].job = id
Phase(id) ==
    CASE jobs[id].status \in Waiting    -> "waiting"
      [] jobs[id].status = "processing" -> IF IsHeld(id) THEN "held" ELSE "lost"
      [] jobs[id].status = "completed"  -> "done"
      [] OTHER                          -> "given_up"
Seen(id) ==
    IF id \in JobIds THEN [phase |-> Phase(id), tries |-> jobs[id].attempts]
    ELSE [phase |-> "absent", tries |-> 0]

Office == INSTANCE JobQueue WITH MaxTries <- MaxAttempts, queue <- [id \in 1 .. MaxJobs |-> Seen(id)]

(* However the runs of the command overlap, fail and die, the rows of      *)
(* document_jobs are the queue of JobQueue: no job is held twice, waits    *)
(* without a try left, or is taken up again after it has ended.            *)
ImplementsQueue == Office!Spec

(* What a job looks like to the office depends on its row and on whether a *)
(* worker has it.                                                          *)
LEMMA SameSeen ==
    ASSUME NEW id, id \in JobIds' <=> id \in JobIds,
           id \in JobIds => /\ jobs'[id].status = jobs[id].status
                            /\ jobs'[id].attempts = jobs[id].attempts
                            /\ IsHeld(id)' <=> IsHeld(id)
    PROVE  Seen(id)' = Seen(id)
<1>1. CASE id \in JobIds
  <2>1. Phase(id)' = Phase(id)
    BY <1>1 DEF Phase, Waiting
  <2>2. QED BY <1>1, <2>1 DEF Seen
<1>2. CASE id \notin JobIds
  BY <1>2 DEF Seen
<1>3. QED BY <1>1, <1>2

(* A step that one job only shows.                                         *)
LEMMA OneSeen ==
    ASSUME NEW j \in 1 .. MaxJobs, \A i \in 1 .. MaxJobs : i # j => Seen(i)' = Seen(i)
    PROVE  [id \in 1 .. MaxJobs |-> Seen(id)]' =
              [[id \in 1 .. MaxJobs |-> Seen(id)] EXCEPT ![j] = Seen(j)']
OBVIOUS

LEMMA NoneSeen ==
    ASSUME \A i \in 1 .. MaxJobs : Seen(i)' = Seen(i)
    PROVE  UNCHANGED [id \in 1 .. MaxJobs |-> Seen(id)]
OBVIOUS

(* A worker that changes its job changes whether that job is held, and     *)
(* whether the new one is, and no other.                                   *)
LEMMA OthersHeld ==
    ASSUME NEW w \in Workers, NEW row,
           \A v \in Workers : workers'[v] = IF v = w THEN row ELSE workers[v],
           NEW id, id # workers[w].job, id # row.job
    PROVE  IsHeld(id)' <=> IsHeld(id)
BY DEF IsHeld

LEMMA SeenIds ==
    ASSUME JobsInv
    PROVE  /\ JobIds \subseteq 1 .. MaxJobs
           /\ \A j \in JobIds : j # 0 /\ jobs[j] \in JobRows
BY Rows, CountsAssumption DEF JobsInv, TypeOK, JobIds

LEMMA DeskSeen ==
    ASSUME JobsInv, DeskNext
    PROVE  [Office!Next]_([id \in 1 .. MaxJobs |-> Seen(id)])
<1> DEFINE queue == [id \in 1 .. MaxJobs |-> Seen(id)]
<1>1. CASE EditRead \/ LockRead \/ IssueRead \/ EditWrite \/ LockWrite \/ CreateVersion
  <2>1. UNCHANGED <<jobs, workers>>
    BY <1>1 DEF EditRead, LockRead, IssueRead, EditWrite, LockWrite, CreateVersion, Begin, Queue
  <2>2. \A i \in 1 .. MaxJobs : Seen(i)' = Seen(i)
    BY <2>1, SameSeen DEF JobIds, IsHeld
  <2>3. QED BY <2>2, NoneSeen
<1>2. CASE IssueWrite
  <2>0. PICK j : j = Len(jobs) + 1
    OBVIOUS
  <2>1. PICK row : /\ Len(jobs) < MaxJobs /\ jobs' = Append(jobs, row) /\ UNCHANGED workers
                   /\ row.status = "pending" /\ row.attempts = 0
    BY <1>2 DEF IssueWrite
  <2>2. jobs \in Seq(JobRows) /\ Len(jobs) \in Nat /\ MaxJobs \in Nat
    BY Rows, CountsAssumption DEF JobsInv
  <2>3. /\ Len(jobs') = j /\ jobs'[j] = row
        /\ \A i \in JobIds : jobs'[i] = jobs[i]
    BY <2>0, <2>1, <2>2 DEF JobIds
  <2>4. /\ j \in 1 .. MaxJobs /\ j \notin JobIds /\ j \in JobIds'
        /\ \A i \in 1 .. MaxJobs : i # j => (i \in JobIds' <=> i \in JobIds)
        /\ \A i \in 1 .. j - 1 : i \in JobIds /\ i \in 1 .. MaxJobs
    BY <2>0, <2>1, <2>2, <2>3 DEF JobIds
  <2>5. \A i \in 1 .. MaxJobs : i # j => Seen(i)' = Seen(i)
    BY <2>1, <2>3, <2>4, SameSeen DEF IsHeld
  <2>6. Seen(j) = [phase |-> "absent", tries |-> 0] /\ Seen(j)' = [phase |-> "waiting", tries |-> 0]
    BY <2>1, <2>3, <2>4 DEF Seen, Phase, Waiting
  <2>7. \A i \in 1 .. j - 1 : Seen(i).phase # "absent"
    BY <2>4 DEF Seen, Phase
  <2>8. queue' = [queue EXCEPT ![j] = [phase |-> "waiting", tries |-> 0]]
    BY <2>4, <2>5, <2>6, OneSeen
  <2>9. Office!Put(j)
    BY <2>4, <2>6, <2>7, <2>8 DEF Office!Put, Office!Becomes
  <2>10. QED BY <2>4, <2>9 DEF Office!Next, Office!Jobs
<1>3. QED BY <1>1, <1>2 DEF DeskNext

LEMMA ClaimSeen ==
    ASSUME JobsInv, NEW w \in Workers, Claim(w)
    PROVE  Office!Next
<1> DEFINE queue == [id \in 1 .. MaxJobs |-> Seen(id)]
<1>1. PICK j \in JobIds :
        /\ jobs[j].status \in Waiting
        /\ jobs' = [jobs EXCEPT ![j].status = "processing", ![j].attempts = @ + 1]
        /\ workers' = [workers EXCEPT ![w] = [Idle EXCEPT !.job = j]]
  BY DEF Claim, Claimable
<1>2. /\ workers[w].job = 0 /\ j # 0 /\ j \in 1 .. MaxJobs /\ jobs[j] \in JobRows
      /\ jobs[j].attempts < MaxAttempts /\ jobs \in Seq(JobRows) /\ j \in DOMAIN jobs
  BY <1>1, SeenIds, Rows DEF Claim, Idle, JobsInv, AttemptLeft, JobIds
<1>3. /\ Len(jobs') = Len(jobs) /\ JobIds' = JobIds
      /\ jobs'[j].status = "processing" /\ jobs'[j].attempts = jobs[j].attempts + 1
      /\ \A i \in JobIds : i # j => jobs'[i] = jobs[i]
  <2> DEFINE row == [jobs[j] EXCEPT !.status = "processing", !.attempts = @ + 1]
  <2>1. row.status = "processing" /\ row.attempts = jobs[j].attempts + 1
    BY <1>2 DEF JobRows
  <2>2. jobs' = [jobs EXCEPT ![j] = row]
    BY <1>1, <1>2 DEF JobRows
  <2> HIDE DEF row
  <2>3. QED BY <1>2, <2>1, <2>2 DEF JobIds
<1>4. /\ [Idle EXCEPT !.job = j].job = j
      /\ \A v \in Workers : workers'[v] = IF v = w THEN [Idle EXCEPT !.job = j] ELSE workers[v]
  BY <1>1, Rows DEF Idle, JobsInv
<1>5. IsHeld(j)' /\ \A i \in JobIds : i # j => (IsHeld(i)' <=> IsHeld(i))
  <2>1. IsHeld(j)'
    BY <1>4 DEF IsHeld
  <2>2. ASSUME NEW i \in JobIds, i # j PROVE IsHeld(i)' <=> IsHeld(i)
    <3>1. i # workers[w].job
      BY <1>2, SeenIds
    <3>2. QED BY <1>4, <2>2, <3>1, OthersHeld
  <2>3. QED BY <2>1, <2>2
<1>6. \A i \in 1 .. MaxJobs : i # j => Seen(i)' = Seen(i)
  BY <1>3, <1>5, SameSeen
<1>7. /\ Seen(j) = [phase |-> "waiting", tries |-> jobs[j].attempts]
      /\ Seen(j)' = [phase |-> "held", tries |-> jobs[j].attempts + 1]
  BY <1>1, <1>3, <1>5 DEF Seen, Phase, Waiting
<1>8. queue' = [queue EXCEPT ![j] = [phase |-> "held", tries |-> jobs[j].attempts + 1]]
  BY <1>2, <1>6, <1>7, OneSeen
<1>9. Office!Take(j)
  <2>1. queue[j].phase = "waiting" /\ queue[j].tries = jobs[j].attempts
    BY <1>2, <1>7
  <2>2. QED BY <1>2, <1>8, <2>1 DEF Office!Take, Office!Becomes
<1>10. QED BY <1>2, <1>9 DEF Office!Next, Office!Jobs

(* A worker that lets go of its job: the others are seen as they were.     *)
LEMMA ReleaseSeen ==
    ASSUME JobsInv, NEW w \in Workers, NEW j, j = workers[w].job, j # 0,
           workers' = [workers EXCEPT ![w] = Idle],
           JobIds' = JobIds, \A i \in JobIds : i # j => jobs'[i] = jobs[i]
    PROVE  /\ j \in JobIds /\ j \in 1 .. MaxJobs
           /\ Seen(j) = [phase |-> "held", tries |-> jobs[j].attempts]
           /\ ~IsHeld(j)'
           /\ \A i \in 1 .. MaxJobs : i # j => Seen(i)' = Seen(i)
<1>1. j \in JobIds /\ j \in 1 .. MaxJobs /\ jobs[j].status = "processing" /\ IsHeld(j)
  BY Held, SeenIds DEF JobsInv, HeldIsProcessing, IsHeld
<1>2. /\ Idle.job = 0
      /\ \A v \in Workers : workers'[v] = IF v = w THEN Idle ELSE workers[v]
  BY Rows DEF Idle, JobsInv
<1>3. ~IsHeld(j)'
  BY <1>2 DEF IsHeld, JobsInv, HeldOnce
<1>4. \A i \in JobIds : i # j => (IsHeld(i)' <=> IsHeld(i))
  BY <1>2, SeenIds, OthersHeld
<1>5. \A i \in 1 .. MaxJobs : i # j => Seen(i)' = Seen(i)
  BY <1>4, SameSeen
<1>6. Seen(j) = [phase |-> "held", tries |-> jobs[j].attempts]
  BY <1>1 DEF Seen, Phase, Waiting
<1>7. QED BY <1>1, <1>3, <1>5, <1>6

LEMMA EndSeen ==
    ASSUME JobsInv, NEW w \in Workers, NEW j, j = workers[w].job, j # 0,
           NEW status \in {"completed", "failed", "retry"}, NEW pdf, NEW due,
           status = "failed" => jobs[j].attempts >= MaxAttempts,
           status = "retry" => jobs[j].attempts < MaxAttempts,
           Ends(w, status, pdf, due)
    PROVE  Office!Next
<1> DEFINE queue == [id \in 1 .. MaxJobs |-> Seen(id)]
<1>0. PICK tries : tries = jobs[j].attempts
  OBVIOUS
<1>1. /\ jobs' = [jobs EXCEPT ![j].status = status, ![j].due = due]
      /\ workers' = [workers EXCEPT ![w] = Idle]
  BY DEF Ends
<1>2. /\ j \in JobIds /\ jobs[j] \in JobRows /\ jobs \in Seq(JobRows) /\ j \in DOMAIN jobs
      /\ tries \in 0 .. MaxAttempts /\ MaxAttempts \in Nat
  BY <1>0, Held, SeenIds, Rows DEF JobsInv, JobIds, JobRows
<1>3. /\ JobIds' = JobIds
      /\ jobs'[j].status = status /\ jobs'[j].attempts = tries
      /\ \A i \in JobIds : i # j => jobs'[i] = jobs[i]
  BY <1>0, <1>1, <1>2 DEF JobIds, JobRows
<1>4. /\ j \in 1 .. MaxJobs /\ Seen(j) = [phase |-> "held", tries |-> tries]
      /\ \A i \in 1 .. MaxJobs : i # j => Seen(i)' = Seen(i)
  BY <1>0, <1>1, <1>3, ReleaseSeen
<1>5. Seen(j)' = [phase |-> CASE status = "completed" -> "done" [] status = "failed" -> "given_up"
                              [] OTHER -> "waiting",
                  tries |-> tries]
  BY <1>2, <1>3 DEF Seen, Phase, Waiting
<1>6. /\ queue' = [queue EXCEPT ![j] = Seen(j)']
      /\ queue[j].phase = "held" /\ queue[j].tries = tries
  BY <1>4, OneSeen
<1>7. CASE status = "completed"
  <2>0. queue' = [queue EXCEPT ![j] = [phase |-> "done", tries |-> queue[j].tries]]
    BY <1>5, <1>6, <1>7
  <2>1. Office!Finish(j)
    BY <1>6, <2>0 DEF Office!Finish, Office!Becomes
  <2>2. QED BY <1>4, <2>1 DEF Office!Next, Office!Jobs
<1>8. CASE status = "failed"
  <2>0. queue' = [queue EXCEPT ![j] = [phase |-> "given_up", tries |-> queue[j].tries]]
    BY <1>5, <1>6, <1>8
  <2>1. Office!GiveUp(j)
    BY <1>0, <1>2, <1>6, <1>8, <2>0 DEF Office!GiveUp, Office!Becomes
  <2>2. QED BY <1>4, <2>1 DEF Office!Next, Office!Jobs
<1>9. CASE status = "retry"
  <2>0. queue' = [queue EXCEPT ![j] = [phase |-> "waiting", tries |-> queue[j].tries]]
    BY <1>5, <1>6, <1>9
  <2>1. Office!GiveBack(j)
    BY <1>0, <1>2, <1>6, <1>9, <2>0 DEF Office!GiveBack, Office!Becomes
  <2>2. QED BY <1>4, <2>1 DEF Office!Next, Office!Jobs
<1>10. QED BY <1>7, <1>8, <1>9

LEMMA CrashSeen ==
    ASSUME JobsInv, NEW w \in Workers, Crash(w)
    PROVE  Office!Next
<1> DEFINE queue == [id \in 1 .. MaxJobs |-> Seen(id)]
<1>0. PICK j : j = workers[w].job
  OBVIOUS
<1>1. workers[w] # Idle /\ workers' = [workers EXCEPT ![w] = Idle] /\ UNCHANGED jobs
  BY DEF Crash
<1>2. j # 0
  BY <1>0, <1>1, Rows DEF JobsInv, NoJobNothingStored, WorkerRows, Idle
<1>3. /\ j \in JobIds /\ j \in 1 .. MaxJobs /\ ~IsHeld(j)'
      /\ Seen(j) = [phase |-> "held", tries |-> jobs[j].attempts]
      /\ \A i \in 1 .. MaxJobs : i # j => Seen(i)' = Seen(i)
  BY <1>0, <1>1, <1>2, ReleaseSeen DEF JobIds
<1>4. jobs[j].status = "processing"
  BY <1>0, <1>2 DEF JobsInv, HeldIsProcessing
<1>5. Seen(j)' = [phase |-> "lost", tries |-> jobs[j].attempts]
  BY <1>1, <1>3, <1>4 DEF Seen, Phase, Waiting, JobIds
<1>6. queue' = [queue EXCEPT ![j] = [phase |-> "lost", tries |-> jobs[j].attempts]]
  BY <1>3, <1>5, OneSeen
<1>7. Office!Lose(j)
  <2>1. queue[j].phase = "held" /\ queue[j].tries = jobs[j].attempts
    BY <1>3
  <2>2. QED BY <1>6, <2>1 DEF Office!Lose, Office!Becomes
<1>8. QED BY <1>3, <1>7 DEF Office!Next, Office!Jobs

(* Reading a text, storing a file and the coming of a time are not seen.   *)
LEMMA UnseenSteps ==
    ASSUME JobsInv,
           \/ \E w \in Workers : Load(w) \/ Persist(w)
           \/ \E j \in JobIds : BecomesDue(j)
    PROVE  UNCHANGED [id \in 1 .. MaxJobs |-> Seen(id)]
<1>1. ASSUME NEW w \in Workers, Load(w) \/ Persist(w)
      PROVE  \A i \in 1 .. MaxJobs : Seen(i)' = Seen(i)
  <2>1. UNCHANGED jobs
    BY <1>1 DEF Load, Persist
  <2>2. \A v \in Workers : workers'[v].job = workers[v].job
    <3>1. workers[w] \in WorkerRows /\ workers \in [Workers -> WorkerRows]
      BY Rows DEF JobsInv
    <3>2. PICK row : row.job = workers[w].job /\ workers' = [workers EXCEPT ![w] = row]
      BY <1>1, <3>1 DEF Load, Persist, WorkerRows
    <3>3. QED BY <3>1, <3>2
  <2>3. QED BY <2>1, <2>2, SameSeen DEF JobIds, IsHeld
<1>2. ASSUME NEW j \in JobIds, BecomesDue(j)
      PROVE  \A i \in 1 .. MaxJobs : Seen(i)' = Seen(i)
  <2>1. jobs \in Seq(JobRows) /\ jobs[j] \in JobRows /\ j \in DOMAIN jobs
    BY Rows DEF JobsInv, JobIds
  <2>2. /\ JobIds' = JobIds /\ UNCHANGED workers
        /\ \A i \in JobIds : jobs'[i].status = jobs[i].status /\ jobs'[i].attempts = jobs[i].attempts
    BY <1>2, <2>1 DEF BecomesDue, JobIds, JobRows
  <2>3. QED BY <2>2, SameSeen DEF IsHeld
<1>3. QED BY <1>1, <1>2, NoneSeen

(* Every step of the desk and of the workers - a job put, claimed, failed, *)
(* completed, or lost with its worker - is a step of the queue the office  *)
(* counts on, or one it does not see.                                      *)
THEOREM JobsImplementQueue == Spec => ImplementsQueue
<1> DEFINE queue == [id \in 1 .. MaxJobs |-> Seen(id)]
<1>1. Init => Office!Init
  <2> SUFFICES ASSUME Init PROVE Office!Init
    OBVIOUS
  <2>1. JobIds = {}
    BY DEF Init, JobIds
  <2>2. QED BY <2>1 DEF Office!Init, Office!Jobs, Seen
<1>2. JobsInv /\ [Next]_vars => [Office!Next]_queue
  <2> SUFFICES ASSUME JobsInv, [Next]_vars PROVE [Office!Next]_queue
    OBVIOUS
  <2>1. CASE DeskNext
    BY <2>1, DeskSeen
  <2>2. ASSUME NEW w \in Workers, Claim(w) PROVE Office!Next
    BY <2>2, ClaimSeen
  <2>3. ASSUME NEW w \in Workers, Crash(w) PROVE Office!Next
    BY <2>3, CrashSeen
  <2>4. ASSUME NEW w \in Workers, Complete(w) PROVE Office!Next
    <3>1. workers[w].job # 0
      BY <2>4, Held, CountsAssumption DEF Complete, Stored
    <3>2. QED BY <2>4, <3>1, EndSeen DEF Complete
  <2>5. ASSUME NEW w \in Workers, Fail(w) PROVE Office!Next
    <3>1. workers[w].job # 0 /\ jobs[workers[w].job] \in JobRows
      BY <2>5, Held, Rows DEF Fail, JobsInv
    <3>2. ~Exhausted(w) => jobs[workers[w].job].attempts < MaxAttempts
      BY <3>1, CountsAssumption DEF Exhausted, JobRows
    <3>3. CASE Exhausted(w)
      BY <2>5, <3>1, <3>3, EndSeen DEF Fail, Exhausted
    <3>4. CASE ~Exhausted(w)
      BY <2>5, <3>1, <3>2, <3>4, EndSeen DEF Fail
    <3>5. QED BY <3>3, <3>4
  <2>6. CASE (\E w \in Workers : Load(w) \/ Persist(w)) \/ (\E j \in JobIds : BecomesDue(j))
    BY <2>6, UnseenSteps
  <2>7. CASE UNCHANGED vars
    BY <2>7 DEF vars, Seen, Phase, IsHeld, JobIds
  <2>8. QED BY <2>1, <2>2, <2>3, <2>4, <2>5, <2>6, <2>7 DEF Next, Work
<1>3. QED BY <1>1, <1>2, JobsInvariant, PTL DEF Spec, ImplementsQueue, Office!Spec
=============================================================================
