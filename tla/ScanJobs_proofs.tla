--------------------------- MODULE ScanJobs_proofs ---------------------------
(***************************************************************************)
(* The promises of scanning-service, for every number of requests, scans,  *)
(* findings, runs and failures.                                            *)
(*                                                                         *)
(* A completed job has its findings because the local state of a callback  *)
(* knows which it created (FindingsInv); one scan per run holds because    *)
(* every request that has still to ask the scanner holds a run of its own  *)
(* (RunsInv).  Only a repeated callback, or one that a client forestalled, *)
(* mixes runs up because otherwise the run in progress is held by one      *)
(* request or one scan (HeldInv), a request whose run a client ended can   *)
(* move the job no more (OverruledInv), and a callback creates each        *)
(* finding once (ReportsInv).                                              *)
(***************************************************************************)
EXTENDS ScanJobs, TLAPS

\* The callback of a scan has created the findings it is done with.
PostHasCreated(post, rows) ==
    /\ post.step = "create" =>
        post.next \in Nat /\ \A i \in 1..Parts : i < post.next => rows[i] >= 1
    /\ post.step \in {"finish", "stamp"} => \A i \in 1..Parts : rows[i] >= 1

FindingsInv ==
    /\ findings \in [ScanIds -> [1..Parts -> 0..2]]
    /\ DOMAIN posts = ScanIds
    /\ \A k \in ScanIds : PostHasCreated(posts[k], findings[k])
    /\ CompletedHasItsFindings

\* A callback moves on without touching the findings.
LEMMA PostMoves ==
    ASSUME FindingsInv, NEW k \in ScanIds, NEW state, GotoPost(k, state),
           UNCHANGED findings, PostHasCreated(state, findings[k])
    PROVE  /\ DOMAIN posts' = ScanIds
           /\ \A j \in ScanIds : PostHasCreated(posts'[j], findings[j])
BY DEF FindingsInv, GotoPost

LEMMA IdleHasCreated == ASSUME NEW rows PROVE PostHasCreated(Idle, rows)
BY DEF PostHasCreated, Idle

\* A step that leaves findings and finisher alone and does not complete the
\* job keeps the promise.
LEMMA StaysCompleted ==
    ASSUME FindingsInv, UNCHANGED <<findings, finisher>>,
           job'.status = "completed" => job.status = "completed"
    PROVE  CompletedHasItsFindings'
BY DEF FindingsInv, CompletedHasItsFindings

LEMMA InitFindings == ScanJobsInit => FindingsInv
<1> SUFFICES ASSUME ScanJobsInit PROVE FindingsInv
  OBVIOUS
<1>1. findings \in [ScanIds -> [1..Parts -> 0..2]]
  BY DEF ScanJobsInit
<1>2. DOMAIN posts = ScanIds /\ \A k \in ScanIds : posts[k] = Idle
  BY DEF ScanJobsInit
<1>3. CompletedHasItsFindings
  BY DEF ScanJobsInit, InitialJob, CompletedHasItsFindings
<1> QED BY <1>1, <1>2, <1>3, IdleHasCreated DEF FindingsInv

\* RunScanJob never touches findings nor completes a job.
LEMMA RunsKeepFindings ==
    ASSUME FindingsInv, NEW c \in Calls,
           LoadToRun(c) \/ RunSteps(c) \/ Rejected(c) \/ Unreachable(c) \/ BreakRun(c)
    PROVE  FindingsInv'
<1>1. UNCHANGED <<findings, posts>>
  BY DEF LoadToRun, RunSteps, QueueJob, HandedOver, WalkRejected, Rejected, Unreachable,
     BreakRun
<1>2. CompletedHasItsFindings'
  <2>1. CASE LoadToRun(c) \/ HandedOver(c) \/ Rejected(c) \/ Unreachable(c) \/ BreakRun(c)
    BY <2>1, StaysCompleted DEF LoadToRun, HandedOver, Rejected, Unreachable, BreakRun
  <2>2. CASE QueueJob(c)
    <3>1. finisher' = finisher /\ (job' = job \/ job'.status = "queued")
      BY <2>2 DEF QueueJob, Moved
    <3> QED BY <1>1, <3>1, StaysCompleted
  <2>3. CASE WalkRejected(c)
    <3>1. \/ UNCHANGED <<job, finisher>>
          \/ job'.status \in {"running", "failed"}
      BY <2>3 DEF WalkRejected, Moved
    <3>2. CASE UNCHANGED <<job, finisher>>
      BY <1>1, <3>2, StaysCompleted
    <3>3. CASE job'.status \in {"running", "failed"}
      BY <3>3 DEF CompletedHasItsFindings
    <3> QED BY <3>1, <3>2, <3>3
  <2> QED BY <2>1, <2>2, <2>3 DEF RunSteps
<1> QED BY <1>1, <1>2 DEF FindingsInv

\* SubmitFindings, up to the end of the run.
LEMMA CreateKeepsFindings ==
    ASSUME FindingsInv, NEW k \in ScanIds,
           Post(k) \/ CreateFinding(k) \/ FailCreate(k) \/ WalkQueued(k)
    PROVE  FindingsInv'
<1> USE ScanJobsAssumption
<1>1. CASE Post(k)
  <2> DEFINE state == [step |-> "create", next |-> 1,
                       status |-> job.status, version |-> job.version]
  <2>1. GotoPost(k, state) /\ UNCHANGED <<job, findings, finisher>>
    BY <1>1 DEF Post
  <2>2. PostHasCreated(state, findings[k])
    BY DEF PostHasCreated
  <2> HIDE DEF state
  <2>3. /\ DOMAIN posts' = ScanIds
        /\ \A j \in ScanIds : PostHasCreated(posts'[j], findings[j])
    BY <2>1, <2>2, PostMoves
  <2> QED BY <2>1, <2>3, StaysCompleted DEF FindingsInv
<1>2. CASE CreateFinding(k)
  <2> DEFINE i == posts[k].next
             n == SeveralAtMost(findings[k][i] + 1)
             row == [findings[k] EXCEPT ![i] = n]
             state == [step |-> "create", next |-> i + 1,
                       status |-> posts[k].status, version |-> posts[k].version]
  <2>1. /\ posts[k].step = "create" /\ i <= Parts
        /\ GotoPost(k, state)
        /\ UNCHANGED <<job, finisher>>
    BY <1>2 DEF CreateFinding
  <2>2. findings' = [findings EXCEPT ![k] = row]
    BY <1>2 DEF CreateFinding
  <2>3. i \in Nat /\ findings[k] \in [1..Parts -> 0..2]
    BY <2>1 DEF FindingsInv, PostHasCreated
  <2>4. i \in 1..Parts => n \in 1..2
    <3>1. ASSUME NEW m \in 0..2 PROVE SeveralAtMost(m + 1) \in 1..2
      BY DEF SeveralAtMost
    <3> QED BY <2>3, <3>1
  <2> HIDE DEF n
  <2>5. /\ row \in [1..Parts -> 0..2]
        /\ \A j \in 1..Parts : row[j] = findings[k][j] \/ (j = i /\ row[j] \in 1..2)
        /\ i \in 1..Parts => row[i] \in 1..2
    <3>1. DOMAIN row = 1..Parts
      BY <2>3
    <3>2. \A j \in 1..Parts : row[j] = IF j = i THEN n ELSE findings[k][j]
      BY <2>3
    <3>3. \A j \in 1..Parts : findings[k][j] \in 0..2
      BY <2>3
    <3>4. row = [j \in 1..Parts |-> row[j]]
      BY <2>3
    <3> HIDE DEF row
    <3>5. \A j \in 1..Parts : row[j] \in 0..2
      BY <2>4, <3>2, <3>3
    <3> QED BY <2>4, <3>2, <3>4, <3>5
  <2>6. PostHasCreated(state, row)
    <3>1. \A j \in 1..Parts : j < i => findings[k][j] >= 1
      BY <2>1 DEF FindingsInv, PostHasCreated
    <3>2. \A j \in 1..Parts : j < i + 1 => j < i \/ j = i
      BY <2>3
    <3> HIDE DEF row
    <3>3. \A j \in 1..Parts : j < i + 1 => row[j] >= 1
      BY <2>5, <3>1, <3>2
    <3> QED BY <2>3, <3>3 DEF PostHasCreated
  <2> HIDE DEF row, state
  <2>7. findings' \in [ScanIds -> [1..Parts -> 0..2]]
    BY <2>2, <2>5 DEF FindingsInv
  <2>8. /\ DOMAIN posts' = ScanIds
        /\ \A j \in ScanIds : PostHasCreated(posts'[j], findings'[j])
    BY <2>1, <2>2, <2>6 DEF FindingsInv, GotoPost
  <2>9. CompletedHasItsFindings'
    <3>1. \A j \in ScanIds : (\A m \in 1..Parts : findings[j][m] >= 1) =>
                                (\A m \in 1..Parts : findings'[j][m] >= 1)
      <4>1. ASSUME NEW j \in ScanIds, \A m \in 1..Parts : findings[j][m] >= 1
            PROVE  \A m \in 1..Parts : findings'[j][m] >= 1
        BY <2>2, <2>5, <4>1 DEF FindingsInv
      <4> QED BY <4>1
    <3> QED BY <2>1, <3>1 DEF FindingsInv, CompletedHasItsFindings
  <2> QED BY <2>7, <2>8, <2>9 DEF FindingsInv
<1>3. CASE FailCreate(k)
  <2>1. GotoPost(k, Idle) /\ UNCHANGED <<job, findings, finisher>>
    BY <1>3 DEF FailCreate
  <2>2. /\ DOMAIN posts' = ScanIds
        /\ \A j \in ScanIds : PostHasCreated(posts'[j], findings[j])
    BY <2>1, IdleHasCreated, PostMoves
  <2> QED BY <2>1, <2>2, StaysCompleted DEF FindingsInv
<1>4. CASE WalkQueued(k)
  <2>1. \A i \in 1..Parts : findings[k][i] >= 1
    <3>1. /\ posts[k].next \in Nat /\ posts[k].next > Parts
          /\ \A i \in 1..Parts : i < posts[k].next => findings[k][i] >= 1
      BY <1>4 DEF WalkQueued, FindingsInv, PostHasCreated
    <3>2. \A i \in 1..Parts : i < posts[k].next
      BY <3>1
    <3> QED BY <3>1, <3>2
  <2>2. UNCHANGED <<findings, finisher>> /\ (job' = job \/ job'.status = "running")
    BY <1>4 DEF WalkQueued, Moved
  <2>3. \/ GotoPost(k, Idle)
        \/ GotoPost(k, [step |-> "finish", version |-> posts[k].version])
        \/ GotoPost(k, [step |-> "finish", version |-> job.version + 1])
    BY <1>4 DEF WalkQueued
  <2>4. \A v : PostHasCreated([step |-> "finish", version |-> v], findings[k])
    BY <2>1 DEF PostHasCreated
  <2>5. /\ DOMAIN posts' = ScanIds
        /\ \A j \in ScanIds : PostHasCreated(posts'[j], findings[j])
    BY <2>2, <2>3, <2>4, IdleHasCreated, PostMoves
  <2> QED BY <2>2, <2>5, StaysCompleted DEF FindingsInv
<1> QED BY <1>1, <1>2, <1>3, <1>4

\* The end of the run, and a connection that breaks.
LEMMA FinishKeepsFindings ==
    ASSUME FindingsInv, NEW k \in ScanIds, NEW succeeded \in BOOLEAN,
           Finish(k, succeeded) \/ Stamp(k) \/ BreakPost(k)
    PROVE  FindingsInv'
<1>1. CASE Finish(k, succeeded)
  <2>1. findings' = findings /\ \A i \in 1..Parts : findings[k][i] >= 1
    BY <1>1 DEF Finish, FindingsInv, PostHasCreated
  <2>2. \/ GotoPost(k, Idle) /\ UNCHANGED <<job, finisher>>
        \/ GotoPost(k, [step |-> "stamp", version |-> job.version + 1]) /\ finisher' = k
    BY <1>1 DEF Finish
  <2>3. PostHasCreated([step |-> "stamp", version |-> job.version + 1], findings[k])
    BY <2>1 DEF PostHasCreated
  <2>4. /\ DOMAIN posts' = ScanIds
        /\ \A j \in ScanIds : PostHasCreated(posts'[j], findings[j])
    BY <2>1, <2>2, <2>3, IdleHasCreated, PostMoves
  <2>5. CompletedHasItsFindings'
    BY <2>1, <2>2 DEF FindingsInv, CompletedHasItsFindings
  <2> QED BY <2>1, <2>4, <2>5 DEF FindingsInv
<1>2. CASE Stamp(k) \/ BreakPost(k)
  <2>1. GotoPost(k, Idle) /\ UNCHANGED <<findings, finisher>> /\ job'.status = job.status
    BY <1>2 DEF Stamp, BreakPost
  <2>2. /\ DOMAIN posts' = ScanIds
        /\ \A j \in ScanIds : PostHasCreated(posts'[j], findings[j])
    BY <2>1, IdleHasCreated, PostMoves
  <2> QED BY <2>1, <2>2, StaysCompleted DEF FindingsInv
<1> QED BY <1>1, <1>2

\* A client's transition: the job is moved from its status, and a run that ends
\* by it is overruled.
LEMMA OperateMoves ==
    ASSUME OperateJob
    PROVE  /\ UNCHANGED <<findings, calls, scans, posts>>
           /\ \/ /\ job.status \in {"idle", "completed", "failed"} /\ job.run < MaxRuns
                 /\ job' = Moved("queued") /\ UNCHANGED <<finisher, overruled>>
              \/ /\ job.status = "queued" /\ job' = Moved("running")
                 /\ UNCHANGED <<finisher, overruled>>
              \/ /\ job.status = "running" /\ \E to \in {"completed", "failed"} : job' = Moved(to)
                 /\ finisher' = Operator /\ overruled' = overruled \cup {job.run}
<1>1. PICK t \in Workflow :
         /\ job.status = t[2] /\ (t[1] = "run" => job.run < MaxRuns)
         /\ job' = Moved(t[3])
         /\ IF t[1] \in {"complete", "fail"}
            THEN finisher' = Operator /\ overruled' = overruled \cup {job.run}
            ELSE UNCHANGED <<finisher, overruled>>
  BY DEF OperateJob
<1>2. CASE t[1] = "run"
  <2>1. t[2] \in {"idle", "completed", "failed"} /\ t[3] = "queued"
    BY <1>2 DEF Workflow
  <2> QED BY <1>1, <1>2, <2>1 DEF OperateJob
<1>3. CASE t[1] = "start"
  <2>1. t[2] = "queued" /\ t[3] = "running"
    BY <1>3 DEF Workflow
  <2> QED BY <1>1, <1>3, <2>1 DEF OperateJob
<1>4. CASE t[1] \in {"complete", "fail"}
  <2>1. t[2] = "running" /\ t[3] \in {"completed", "failed"}
    BY <1>4 DEF Workflow
  <2> QED BY <1>1, <1>4, <2>1 DEF OperateJob
<1> QED BY <1>2, <1>3, <1>4 DEF Workflow

LEMMA OperateKeepsFindings ==
    ASSUME FindingsInv, OperateJob
    PROVE  FindingsInv'
<1>1. UNCHANGED <<findings, posts>>
  BY OperateMoves
<1>2. finisher' = Operator \/ (finisher' = finisher /\ job'.status \in {"queued", "running"})
  BY OperateMoves DEF Moved
<1>3. CompletedHasItsFindings'
  BY <1>2 DEF CompletedHasItsFindings
<1> QED BY <1>1, <1>3 DEF FindingsInv

LEMMA StepKeepsFindings ==
    ASSUME FindingsInv, [ScanJobsNext]_vars
    PROVE  FindingsInv'
<1>1. ASSUME EditJob PROVE FindingsInv'
  <2>1. UNCHANGED <<findings, posts, finisher>> /\ job'.status = job.status
    BY <1>1 DEF EditJob
  <2> QED BY <2>1, StaysCompleted DEF FindingsInv
<1>2. CASE UNCHANGED vars
  <2>1. UNCHANGED <<job, findings, posts, finisher>>
    BY <1>2 DEF vars
  <2> QED BY <2>1, StaysCompleted DEF FindingsInv
<1>3. CASE ScanJobsNext
  BY <1>1, <1>3, RunsKeepFindings, CreateKeepsFindings, FinishKeepsFindings,
     OperateKeepsFindings DEF ScanJobsNext, PostSteps
<1> QED BY <1>2, <1>3

\* A job completed by a callback has all the findings of that callback, and one
\* that is completed otherwise was by a client's own transition: for any number of
\* findings, retries, runs, transitions and edits (SubmitFindings, scanjob.go).
THEOREM CompletedJobsHaveFindings == ScanJobsSpec => []CompletedHasItsFindings
<1>1. FindingsInv => CompletedHasItsFindings
  BY DEF FindingsInv
<1> QED BY <1>1, InitFindings, StepKeepsFindings, PTL DEF ScanJobsSpec

----------------------------------------------------------------------------
(* Each run is asked for once. *)

ScanRecord == [run : Nat, tries : 0..2, told : BOOLEAN]

\* The run a request has still to ask the scanner for is none that was asked
\* for before, and nobody else's.
HoldsItsRun(c) ==
    calls[c].step = "dispatch" =>
        /\ calls[c].run \in Nat /\ calls[c].run > 0 /\ calls[c].run <= job.run
        /\ \A k \in ScanIds : scans[k].run # calls[c].run
        /\ \A d \in Calls : calls[d].step = "dispatch" /\ d # c => calls[d].run # calls[c].run

RunsInv ==
    /\ job.run \in Nat
    /\ DOMAIN calls = Calls
    /\ scans \in [ScanIds -> ScanRecord]
    /\ \A k \in ScanIds : scans[k].run <= job.run
    /\ \A c \in Calls : HoldsItsRun(c)
    /\ OneScanPerRun

LEMMA InitRuns == ScanJobsInit => RunsInv
<1> SUFFICES ASSUME ScanJobsInit PROVE RunsInv
  OBVIOUS
<1>1. job.run = 0 /\ DOMAIN calls = Calls /\ \A c \in Calls : calls[c].step # "dispatch"
  BY DEF ScanJobsInit, InitialJob, Idle
<1>2. scans \in [ScanIds -> ScanRecord] /\ \A k \in ScanIds : scans[k].run = 0
  BY DEF ScanJobsInit, Unasked, ScanRecord
<1> QED BY <1>1, <1>2 DEF RunsInv, HoldsItsRun, OneScanPerRun

\* No request begins to hold a run, and no scan is asked for.
LEMMA NoneAsked ==
    ASSUME RunsInv, job'.run \in {job.run, job.run + 1}, DOMAIN calls' = Calls,
           \A c \in Calls : calls'[c] = calls[c] \/ calls'[c].step # "dispatch",
           scans' \in [ScanIds -> ScanRecord],
           \A k \in ScanIds : scans'[k].run = scans[k].run
    PROVE  RunsInv'
<1>1. job.run \in Nat /\ job'.run \in Nat /\ \A n \in Nat : n <= job.run => n <= job'.run
  BY DEF RunsInv
<1>2. ASSUME NEW c \in Calls PROVE HoldsItsRun(c)'
  <2> SUFFICES ASSUME calls'[c].step = "dispatch" PROVE HoldsItsRun(c)'
    BY DEF HoldsItsRun
  <2>1. calls'[c] = calls[c] /\ HoldsItsRun(c)
    BY DEF RunsInv
  <2> QED BY <1>1, <2>1 DEF HoldsItsRun
<1>3. \A k \in ScanIds : scans'[k].run <= job'.run
  BY <1>1 DEF RunsInv, ScanRecord
<1>4. OneScanPerRun'
  BY DEF RunsInv, OneScanPerRun
<1> QED BY <1>1, <1>2, <1>3, <1>4 DEF RunsInv

\* A request that queued the job holds the run that began with it.
LEMMA QueueHolds ==
    ASSUME RunsInv, NEW c \in Calls, QueueJob(c)
    PROVE  RunsInv'
<1>1. scans' = scans
  BY DEF QueueJob
<1>2. CASE CanMove(calls[c].version, "run")
  <2> DEFINE r == job.run + 1
             state == IF HasScanner
                      THEN [step |-> "dispatch", version |-> job.version + 1, run |-> r]
                      ELSE Idle
  <2>1. job'.run = r /\ calls' = [calls EXCEPT ![c] = state]
    BY <1>2 DEF QueueJob, Moved, Goto
  <2>2. state.step = "dispatch" => state.run = r
    BY DEF Idle
  <2>3. r \in Nat /\ r > 0 /\ \A m \in Nat : m <= job.run => m # r /\ m <= r
    BY DEF RunsInv
  <2> HIDE DEF r, state
  <2>4. \A k \in ScanIds : scans[k].run \in Nat /\ scans[k].run <= job.run
    BY DEF RunsInv, ScanRecord
  <2>5. /\ DOMAIN calls' = Calls
        /\ calls'[c] = state
        /\ \A d \in Calls \ {c} : calls'[d] = calls[d]
    BY <2>1 DEF RunsInv
  <2>6. HoldsItsRun(c)'
    <3>1. \A d \in Calls : calls[d].step = "dispatch" => calls[d].run \in Nat /\ calls[d].run <= job.run
      BY DEF RunsInv, HoldsItsRun
    <3> QED BY <1>1, <2>1, <2>2, <2>3, <2>4, <2>5, <3>1 DEF HoldsItsRun
  <2>7. ASSUME NEW d \in Calls \ {c} PROVE HoldsItsRun(d)'
    <3>1. HoldsItsRun(d)
      BY DEF RunsInv
    <3> QED BY <1>1, <2>1, <2>2, <2>3, <2>5, <3>1 DEF HoldsItsRun
  <2>8. \A k \in ScanIds : scans'[k].run <= job'.run
    BY <1>1, <2>1, <2>3, <2>4
  <2>9. OneScanPerRun'
    BY <1>1 DEF RunsInv, OneScanPerRun
  <2>10. job'.run \in Nat /\ scans' \in [ScanIds -> ScanRecord]
    BY <1>1, <2>1, <2>3 DEF RunsInv
  <2> QED BY <2>5, <2>6, <2>7, <2>8, <2>9, <2>10 DEF RunsInv
<1>3. CASE ~ CanMove(calls[c].version, "run")
  <2>1. job' = job /\ calls' = [calls EXCEPT ![c] = Idle]
    BY <1>3 DEF QueueJob, Goto
  <2> QED BY <1>1, <2>1, NoneAsked DEF RunsInv, Idle
<1> QED BY <1>2, <1>3

\* The request that asks gives its run up, and the scan has it instead.
LEMMA AskKeepsRuns ==
    ASSUME RunsInv, NEW c \in Calls, calls[c].step = "dispatch", Ask(c), Goto(c, Idle),
           job' = job
    PROVE  RunsInv'
<1> DEFINE r == calls[c].run
           asked == [run |-> r, tries |-> 0, told |-> FALSE]
<1>1. PICK k \in ScanIds : scans' = [scans EXCEPT ![k] = asked]
  BY DEF Ask
<1>2. /\ r \in Nat /\ r <= job.run
      /\ \A j \in ScanIds : scans[j].run # r
      /\ \A d \in Calls : calls[d].step = "dispatch" /\ d # c => calls[d].run # r
  BY DEF RunsInv, HoldsItsRun
<1>3. asked \in ScanRecord /\ asked.run = r
  BY <1>2 DEF ScanRecord
<1>4. /\ DOMAIN calls' = Calls /\ calls'[c].step # "dispatch"
      /\ \A d \in Calls \ {c} : calls'[d] = calls[d]
  BY DEF Goto, RunsInv, Idle
<1> HIDE DEF r, asked
<1>5. /\ scans' \in [ScanIds -> ScanRecord]
      /\ scans'[k].run = r
      /\ \A j \in ScanIds \ {k} : scans'[j] = scans[j]
  BY <1>1, <1>3 DEF RunsInv
<1>6. \A j \in ScanIds : scans'[j].run <= job'.run
  BY <1>2, <1>5 DEF RunsInv
<1>7. \A d \in Calls : HoldsItsRun(d)'
  BY <1>2, <1>4, <1>5 DEF RunsInv, HoldsItsRun
<1>8. OneScanPerRun'
  BY <1>2, <1>5 DEF RunsInv, OneScanPerRun
<1> QED BY <1>4, <1>5, <1>6, <1>7, <1>8 DEF RunsInv

LEMMA StepKeepsRuns ==
    ASSUME RunsInv, [ScanJobsNext]_vars
    PROVE  RunsInv'
<1>1. ASSUME NEW c \in Calls, NEW state, Goto(c, state), state.step # "dispatch",
             scans' = scans, job'.run = job.run
      PROVE  RunsInv'
  BY <1>1, NoneAsked DEF Goto, RunsInv
<1>2. ASSUME NEW c \in Calls, LoadToRun(c)
      PROVE  RunsInv'
  BY <1>1, <1>2 DEF LoadToRun
<1>3. ASSUME NEW c \in Calls, HandedOver(c)
      PROVE  RunsInv'
  BY <1>3, AskKeepsRuns DEF HandedOver
<1>4. ASSUME NEW c \in Calls, Rejected(c) \/ BreakRun(c)
      PROVE  RunsInv'
  BY <1>1, <1>4 DEF Rejected, BreakRun, Idle
<1>5. ASSUME NEW c \in Calls, Unreachable(c)
      PROVE  RunsInv'
  <2>1. /\ calls[c].step = "dispatch" /\ Goto(c, Idle) /\ job' = job
        /\ Ask(c) \/ scans' = scans
    BY <1>5 DEF Unreachable
  <2>2. Idle.step # "dispatch"
    BY DEF Idle
  <2> QED BY <1>1, <2>1, <2>2, AskKeepsRuns
<1>6. ASSUME NEW c \in Calls, WalkRejected(c)
      PROVE  RunsInv'
  <2>1. scans' = scans /\ job'.run = job.run
    BY <1>6 DEF WalkRejected, Moved
  <2>2. \/ Goto(c, Idle)
        \/ Goto(c, [step |-> "fail", version |-> job.version + 1, run |-> calls[c].run])
    BY <1>6 DEF WalkRejected
  <2>3. Idle.step # "dispatch"
    BY DEF Idle
  <2> QED BY <1>1, <2>1, <2>2, <2>3
<1>7. ASSUME UNCHANGED calls, job'.run \in {job.run, job.run + 1},
             scans' \in [ScanIds -> ScanRecord],
             \A k \in ScanIds : scans'[k].run = scans[k].run
      PROVE  RunsInv'
  BY <1>7, NoneAsked DEF RunsInv
<1>8. ASSUME NEW k \in ScanIds, Post(k)
      PROVE  RunsInv'
  <2>1. SeveralAtMost(scans[k].tries + 1) \in 0..2
    BY DEF RunsInv, ScanRecord, SeveralAtMost
  <2>2. scans' = [scans EXCEPT ![k].tries = SeveralAtMost(scans[k].tries + 1)]
    BY <1>8 DEF Post
  <2>3. scans' \in [ScanIds -> ScanRecord] /\ \A j \in ScanIds : scans'[j].run = scans[j].run
    BY <2>1, <2>2 DEF RunsInv, ScanRecord
  <2> QED BY <1>7, <1>8, <2>3 DEF Post
<1>9. ASSUME NEW k \in ScanIds, Stamp(k)
      PROVE  RunsInv'
  <2>1. scans' = scans \/ scans' = [scans EXCEPT ![k].told = TRUE]
    BY <1>9 DEF Stamp
  <2>2. scans' \in [ScanIds -> ScanRecord] /\ \A j \in ScanIds : scans'[j].run = scans[j].run
    <3>1. scans \in [ScanIds -> ScanRecord]
      BY DEF RunsInv
    <3>2. PICK t : t = [scans[k] EXCEPT !.told = TRUE]
      OBVIOUS
    <3>3. t \in ScanRecord /\ t.run = scans[k].run
      BY <3>1, <3>2 DEF ScanRecord
    <3>4. scans' = scans \/ scans' = [scans EXCEPT ![k] = t]
      BY <2>1, <3>2
    <3> QED BY <3>1, <3>3, <3>4
  <2>3. UNCHANGED calls /\ job'.run = job.run
    BY <1>9 DEF Stamp
  <2> QED BY <1>7, <2>2, <2>3
<1>10. ASSUME NEW k \in ScanIds,
              \/ CreateFinding(k) \/ WalkQueued(k) \/ FailCreate(k) \/ BreakPost(k)
              \/ \E succeeded \in BOOLEAN : Finish(k, succeeded)
       PROVE  RunsInv'
  <2>1. UNCHANGED <<calls, scans>> /\ job'.run = job.run
    BY <1>10 DEF CreateFinding, WalkQueued, FailCreate, BreakPost, Finish, Ending, Moved
  <2> QED BY <1>7, <2>1 DEF RunsInv
<1>11. ASSUME OperateJob \/ EditJob \/ UNCHANGED vars
       PROVE  RunsInv'
  <2>1. UNCHANGED <<calls, scans>> /\ job'.run \in {job.run, job.run + 1}
    BY <1>11, OperateMoves DEF EditJob, vars, Moved
  <2> QED BY <1>7, <2>1 DEF RunsInv
<1>12. CASE ScanJobsNext
  BY <1>2, <1>3, <1>4, <1>5, <1>6, <1>8, <1>9, <1>10, <1>11, <1>12, QueueHolds
     DEF ScanJobsNext, RunSteps, PostSteps
<1> QED BY <1>11, <1>12

\* However many requests find the job ready, and however late each of them
\* reaches the scanner, no run is asked for twice (RunScanJob: the workflow's
\* versioned transition is the only lock).
THEOREM RunsAreAskedOnce == ScanJobsSpec => []OneScanPerRun
<1>1. RunsInv => OneScanPerRun
  BY DEF RunsInv
<1> QED BY <1>1, InitRuns, StepKeepsRuns, PTL DEF ScanJobsSpec

----------------------------------------------------------------------------
(* Types.  A run begins only if the job has not been written since it was  *)
(* found ready, so the number of runs stays within the model's bound.      *)

Statuses == {"idle", "queued", "running", "completed", "failed"}

TypesInv ==
    /\ job.status \in Statuses /\ job.version \in Nat /\ job.run \in 0..MaxRuns
    /\ \A c \in Calls : calls[c].step = "queue" =>
          /\ calls[c].version \in Nat /\ calls[c].version <= job.version
          /\ calls[c].version = job.version => job.run < MaxRuns
    /\ \A k \in ScanIds : posts[k].step = "create" => posts[k].next \in 1..(Parts + 1)

\* The job is as it was, or at its next version, and perhaps at its next run.
JobMoves ==
    /\ job'.status \in Statuses
    /\ \/ job'.version = job.version /\ job'.run = job.run
       \/ /\ job'.version = job.version + 1
          /\ job'.run = job.run \/ (job'.run = job.run + 1 /\ job.run < MaxRuns)

LEMMA TypesStay ==
    ASSUME TypesInv, JobMoves,
           \A c \in Calls : calls'[c] = calls[c] \/ calls'[c].step # "queue",
           \A k \in ScanIds : posts'[k] = posts[k] \/ posts'[k].step # "create"
    PROVE  TypesInv'
<1> USE ScanJobsAssumption
<1>1. job'.version \in Nat /\ job'.run \in 0..MaxRuns
  BY DEF TypesInv, JobMoves
<1>2. ASSUME NEW c \in Calls, calls'[c].step = "queue"
      PROVE  /\ calls'[c].version \in Nat /\ calls'[c].version <= job'.version
             /\ calls'[c].version = job'.version => job'.run < MaxRuns
  <2>1. /\ calls'[c] = calls[c] /\ calls[c].version \in Nat /\ calls[c].version <= job.version
        /\ calls[c].version = job.version => job.run < MaxRuns
    BY <1>2 DEF TypesInv
  <2>2. job.version \in Nat
    BY DEF TypesInv
  <2> QED BY <2>1, <2>2 DEF JobMoves
<1>3. \A k \in ScanIds : posts'[k].step = "create" => posts'[k].next \in 1..(Parts + 1)
  BY DEF TypesInv
<1> QED BY <1>1, <1>2, <1>3 DEF TypesInv, JobMoves

\* A transition of the workflow, one version on; only "run" begins a run.
LEMMA MovedMoves ==
    ASSUME NEW to \in Statuses, job' = Moved(to), to = "queued" => job.run < MaxRuns
    PROVE  JobMoves
BY DEF Moved, JobMoves

LEMMA SameJob == ASSUME TypesInv, job' = job PROVE JobMoves
BY DEF TypesInv, JobMoves

LEMMA InitTypes == ScanJobsInit => TypesInv
BY ScanJobsAssumption DEF ScanJobsInit, TypesInv, InitialJob, Idle, Statuses

LEMMA RunsKeepTypes ==
    ASSUME TypesInv, RunsInv, NEW c \in Calls,
           LoadToRun(c) \/ RunSteps(c) \/ Rejected(c) \/ Unreachable(c) \/ BreakRun(c)
    PROVE  TypesInv'
<1> USE ScanJobsAssumption
<1>1. posts' = posts /\ DOMAIN calls = Calls
  BY DEF RunsInv, LoadToRun, RunSteps, QueueJob, HandedOver, WalkRejected, Rejected, Unreachable,
     BreakRun
<1>2. ASSUME NEW state, Goto(c, state), state.step # "queue", JobMoves
      PROVE  TypesInv'
  BY <1>1, <1>2, TypesStay DEF Goto
<1>3. CASE LoadToRun(c)
  <2>1. /\ job' = job /\ job.run < MaxRuns
        /\ calls' = [calls EXCEPT ![c] = [step |-> "queue", version |-> job.version]]
    BY <1>3 DEF LoadToRun, Goto
  <2> QED BY <1>1, <2>1 DEF TypesInv
<1>4. CASE QueueJob(c)
  <2> DEFINE state == IF HasScanner
                      THEN [step |-> "dispatch", version |-> job.version + 1, run |-> job.run + 1]
                      ELSE Idle
  <2>1. CASE CanMove(calls[c].version, "run")
    <3>1. job' = Moved("queued") /\ Goto(c, state)
      BY <1>4, <2>1 DEF QueueJob
    <3>2. job.run < MaxRuns
      BY <1>4, <2>1 DEF QueueJob, CanMove, TypesInv
    <3>3. state.step # "queue"
      BY DEF Idle
    <3> HIDE DEF state
    <3> QED BY <1>2, <3>1, <3>2, <3>3, MovedMoves DEF Statuses
  <2>2. CASE ~ CanMove(calls[c].version, "run")
    BY <1>2, <1>4, <2>2, SameJob DEF QueueJob, Idle
  <2> QED BY <2>1, <2>2
<1>5. CASE HandedOver(c) \/ Unreachable(c) \/ BreakRun(c)
  <2>1. job' = job /\ Goto(c, Idle) /\ Idle.step # "queue"
    BY <1>5 DEF HandedOver, Unreachable, BreakRun, Idle
  <2> QED BY <1>2, <2>1, SameJob
<1>6. CASE Rejected(c)
  <2>1. /\ job' = job
        /\ Goto(c, [step |-> "start", version |-> calls[c].version, run |-> calls[c].run])
    BY <1>6 DEF Rejected
  <2> QED BY <1>2, <2>1, SameJob
<1>7. CASE WalkRejected(c)
  <2>1. \/ /\ job' = Moved("running")
           /\ Goto(c, [step |-> "fail", version |-> job.version + 1, run |-> calls[c].run])
        \/ job' = Moved("failed") /\ Goto(c, Idle)
        \/ job' = job /\ Goto(c, Idle)
    BY <1>7 DEF WalkRejected
  <2>2. JobMoves
    BY <2>1, MovedMoves, SameJob DEF Statuses
  <2>3. Idle.step # "queue"
    BY DEF Idle
  <2> QED BY <1>2, <2>1, <2>2, <2>3
<1> QED BY <1>3, <1>4, <1>5, <1>6, <1>7 DEF RunSteps

LEMMA PostsKeepTypes ==
    ASSUME TypesInv, FindingsInv, NEW k \in ScanIds,
           PostSteps(k) \/ FailCreate(k) \/ BreakPost(k)
    PROVE  TypesInv'
<1> USE ScanJobsAssumption
<1>1. calls' = calls /\ DOMAIN posts = ScanIds
  BY DEF FindingsInv, PostSteps, Post, CreateFinding, WalkQueued, Stamp, Finish, FailCreate,
     BreakPost
<1>2. ASSUME NEW state, GotoPost(k, state), state.step # "create", JobMoves
      PROVE  TypesInv'
  BY <1>1, <1>2, TypesStay DEF GotoPost
<1>3. ASSUME NEW state, GotoPost(k, state), state.next \in 1..(Parts + 1), job' = job
      PROVE  TypesInv'
  BY <1>1, <1>3 DEF GotoPost, TypesInv
<1>4. Idle.step # "create"
  BY DEF Idle
<1>5. CASE Post(k)
  BY <1>3, <1>5 DEF Post
<1>6. CASE CreateFinding(k)
  <2>1. /\ posts[k].next \in 1..(Parts + 1) /\ posts[k].next <= Parts
        /\ GotoPost(k, [step |-> "create", next |-> posts[k].next + 1,
                        status |-> posts[k].status, version |-> posts[k].version])
        /\ job' = job
    BY <1>6 DEF CreateFinding, TypesInv
  <2>2. posts[k].next + 1 \in 1..(Parts + 1)
    BY <2>1
  <2> QED BY <1>3, <2>1, <2>2
<1>7. CASE FailCreate(k)
  BY <1>2, <1>4, <1>7, SameJob DEF FailCreate
<1>8. CASE WalkQueued(k)
  <2>1. /\ job' = job \/ job' = Moved("running")
        /\ \/ GotoPost(k, Idle)
           \/ GotoPost(k, [step |-> "finish", version |-> posts[k].version])
           \/ GotoPost(k, [step |-> "finish", version |-> job.version + 1])
    BY <1>8 DEF WalkQueued
  <2>2. JobMoves
    BY <2>1, MovedMoves, SameJob DEF Statuses
  <2> QED BY <1>2, <1>4, <2>1, <2>2
<1>9. ASSUME NEW succeeded \in BOOLEAN, Finish(k, succeeded)
      PROVE  TypesInv'
  <2>1. /\ job' = job \/ job' = Moved("completed") \/ job' = Moved("failed")
        /\ \/ GotoPost(k, Idle)
           \/ GotoPost(k, [step |-> "stamp", version |-> job.version + 1])
    BY <1>9 DEF Finish, Ending
  <2>2. JobMoves
    BY <2>1, MovedMoves, SameJob DEF Statuses
  <2> QED BY <1>2, <1>4, <2>1, <2>2
<1>10. CASE Stamp(k) \/ BreakPost(k)
  <2>1. /\ GotoPost(k, Idle)
        /\ \/ job' = job
           \/ job' = [status |-> job.status, version |-> job.version + 1, run |-> job.run]
    BY <1>10 DEF Stamp, BreakPost
  <2>2. JobMoves
    BY <2>1, SameJob DEF JobMoves, TypesInv
  <2> QED BY <1>2, <1>4, <2>1, <2>2
<1> QED BY <1>5, <1>6, <1>7, <1>8, <1>9, <1>10 DEF PostSteps

LEMMA StepKeepsTypes ==
    ASSUME TypesInv, FindingsInv, RunsInv, [ScanJobsNext]_vars
    PROVE  TypesInv'
<1>1. CASE EditJob
  <2>1. /\ UNCHANGED <<calls, posts>>
        /\ job' = [status |-> job.status, version |-> job.version + 1, run |-> job.run]
    BY <1>1 DEF EditJob
  <2>2. JobMoves
    BY <2>1 DEF JobMoves, TypesInv
  <2> QED BY <2>1, <2>2, TypesStay
<1>2. CASE OperateJob
  <2>1. JobMoves
    BY <1>2, OperateMoves, MovedMoves DEF Statuses
  <2> QED BY <1>2, <2>1, OperateMoves, TypesStay
<1>3. CASE UNCHANGED vars
  BY <1>3, SameJob, TypesStay DEF vars
<1>4. CASE ScanJobsNext
  BY <1>1, <1>2, <1>4, RunsKeepTypes, PostsKeepTypes DEF ScanJobsNext
<1> QED BY <1>3, <1>4

\* The records keep their types, a callback stays within the findings of its
\* scan, and no request begins a run of a job it did not find ready (RunScanJob
\* reads the status before the versioned transition, SubmitFindings loops).
THEOREM ScanRecordsAreTyped == ScanJobsSpec => []ScanJobsTypeOK
<1>1. FindingsInv /\ RunsInv /\ TypesInv => ScanJobsTypeOK
  <2> SUFFICES ASSUME FindingsInv, RunsInv, TypesInv PROVE ScanJobsTypeOK
    OBVIOUS
  <2>1. \A k \in ScanIds : scans[k].run \in 0..MaxRuns /\ scans[k].tries \in 0..2
    BY ScanJobsAssumption DEF RunsInv, TypesInv, ScanRecord
  <2> QED BY <2>1 DEF FindingsInv, TypesInv, ScanJobsTypeOK, Statuses
<1>2. ScanJobsInit => FindingsInv /\ RunsInv /\ TypesInv
  BY InitFindings, InitRuns, InitTypes
<1>3. FindingsInv /\ RunsInv /\ TypesInv /\ [ScanJobsNext]_vars
         => FindingsInv' /\ RunsInv' /\ TypesInv'
  BY StepKeepsFindings, StepKeepsRuns, StepKeepsTypes
<1> QED BY <1>1, <1>2, <1>3, PTL DEF ScanJobsSpec

----------------------------------------------------------------------------
(* Reports.  What a scan that was reported at most once has left behind,   *)
(* and who may end the run that is in progress.                            *)

\* The findings of a scan that was reported once are there at most once.
Reported(scan, post, rows) ==
    /\ scan.tries = 0 => post = Idle /\ \A i \in 1..Parts : rows[i] = 0
    /\ scan.tries <= 1 => \A i \in 1..Parts : rows[i] <= 1
    /\ scan.tries <= 1 /\ post.step = "create" =>
          \A i \in 1..Parts : i >= post.next => rows[i] = 0
    /\ scan.run = 0 => scan = Unasked

ReportsInv == \A k \in ScanIds : Reported(scans[k], posts[k], findings[k])

\* A step of one scan's callback, which leaves what it should.
LEMMA ReportMoves ==
    ASSUME ReportsInv, NEW k \in ScanIds,
           Reported(scans'[k], posts'[k], findings'[k]),
           \A j \in ScanIds \ {k} : /\ scans'[j] = scans[j] /\ posts'[j] = posts[j]
                                    /\ findings'[j] = findings[j]
    PROVE  ReportsInv'
BY DEF ReportsInv

LEMMA InitReports == ScanJobsInit => ReportsInv
<1> SUFFICES ASSUME ScanJobsInit, NEW k \in ScanIds
             PROVE  Reported(scans[k], posts[k], findings[k])
  BY DEF ReportsInv
<1>1. /\ scans[k] = Unasked /\ posts[k] = Idle
      /\ \A i \in 1..Parts : findings[k][i] = 0
  BY DEF ScanJobsInit
<1> QED BY <1>1 DEF Reported, Idle

\* The scanner takes a scan on: one it has nothing of yet.
LEMMA AskKeepsReports ==
    ASSUME ReportsInv, RunsInv, NEW c \in Calls, calls[c].step = "dispatch", Ask(c),
           UNCHANGED <<posts, findings>>
    PROVE  ReportsInv'
<1> DEFINE asked == [run |-> calls[c].run, tries |-> 0, told |-> FALSE]
<1>1. PICK k \in ScanIds : scans[k] = Unasked /\ scans' = [scans EXCEPT ![k] = asked]
  BY DEF Ask
<1>2. calls[c].run # 0 /\ DOMAIN scans = ScanIds
  BY DEF RunsInv, HoldsItsRun
<1>3. posts[k] = Idle /\ \A i \in 1..Parts : findings[k][i] = 0
  BY <1>1 DEF ReportsInv, Reported, Unasked
<1>4. Reported(asked, Idle, findings[k])
  BY <1>2, <1>3 DEF Reported, Idle
<1>5. scans'[k] = asked /\ \A j \in ScanIds \ {k} : scans'[j] = scans[j]
  BY <1>1, <1>2
<1> HIDE DEF asked
<1> QED BY <1>3, <1>4, <1>5, ReportMoves

LEMMA PostKeepsReports ==
    ASSUME ReportsInv, RunsInv, FindingsInv, NEW k \in ScanIds, Post(k)
    PROVE  ReportsInv'
<1> DEFINE state == [step |-> "create", next |-> 1,
                     status |-> job.status, version |-> job.version]
           n == SeveralAtMost(scans[k].tries + 1)
           scan == [scans[k] EXCEPT !.tries = n]
<1>1. /\ scans[k] # Unasked /\ scans' = [scans EXCEPT ![k] = scan]
      /\ posts' = [posts EXCEPT ![k] = state] /\ findings' = findings
  BY DEF Post, GotoPost
<1>2. scans[k] \in ScanRecord /\ DOMAIN posts = ScanIds /\ DOMAIN scans = ScanIds
  BY DEF RunsInv, FindingsInv
<1>3. n # 0 /\ (n <= 1 => scans[k].tries = 0)
  BY <1>2 DEF ScanRecord, SeveralAtMost
<1>4. scan.tries = n /\ scan.run = scans[k].run
  BY <1>2 DEF ScanRecord
<1>5. scans[k].run # 0
  BY <1>1 DEF ReportsInv, Reported
<1>6. scans[k].tries = 0 => \A i \in 1..Parts : findings[k][i] = 0
  BY DEF ReportsInv, Reported
<1> HIDE DEF scan, n
<1>7. Reported(scan, state, findings[k])
  BY <1>3, <1>4, <1>5, <1>6 DEF Reported
<1> HIDE DEF state
<1> QED BY <1>1, <1>2, <1>7, ReportMoves

LEMMA CreateKeepsReports ==
    ASSUME ReportsInv, FindingsInv, TypesInv, NEW k \in ScanIds, CreateFinding(k)
    PROVE  ReportsInv'
<1> USE ScanJobsAssumption
<1> DEFINE i == posts[k].next
           n == SeveralAtMost(findings[k][i] + 1)
           row == [findings[k] EXCEPT ![i] = n]
           state == [step |-> "create", next |-> i + 1,
                     status |-> posts[k].status, version |-> posts[k].version]
<1>1. /\ posts[k].step = "create" /\ i \in 1..Parts /\ scans' = scans
      /\ findings' = [findings EXCEPT ![k] = row] /\ posts' = [posts EXCEPT ![k] = state]
  BY DEF CreateFinding, GotoPost, TypesInv
<1>2. /\ findings \in [ScanIds -> [1..Parts -> 0..2]] /\ DOMAIN posts = ScanIds
  BY DEF FindingsInv
<1>3. /\ scans[k].tries # 0
      /\ scans[k].tries <= 1 => /\ \A j \in 1..Parts : findings[k][j] <= 1
                                /\ \A j \in 1..Parts : j >= i => findings[k][j] = 0
      /\ scans[k].run = 0 => scans[k] = Unasked
  BY <1>1 DEF ReportsInv, Reported, Idle
<1>4. scans[k].tries <= 1 => n = 1
  BY <1>1, <1>3 DEF SeveralAtMost
<1>5. \A j \in 1..Parts : row[j] = IF j = i THEN n ELSE findings[k][j]
  BY <1>1, <1>2
<1>6. state.step = "create" /\ state.next = i + 1
  OBVIOUS
<1> HIDE DEF n, row, state
<1>7. scans[k].tries <= 1 => /\ \A j \in 1..Parts : row[j] <= 1
                             /\ \A j \in 1..Parts : j >= i + 1 => row[j] = 0
  <2> SUFFICES ASSUME scans[k].tries <= 1, NEW j \in 1..Parts
               PROVE  row[j] <= 1 /\ (j >= i + 1 => row[j] = 0)
    OBVIOUS
  <2>1. CASE j = i
    BY <1>1, <1>4, <1>5, <2>1
  <2>2. CASE j # i
    <3>1. j >= i + 1 => j >= i
      BY <1>1
    <3> QED BY <1>3, <1>5, <2>2, <3>1
  <2> QED BY <2>1, <2>2
<1>8. Reported(scans[k], state, row)
  BY <1>3, <1>6, <1>7 DEF Reported
<1>9. findings'[k] = row /\ posts'[k] = state
  BY <1>1, <1>2
<1>10. \A j \in ScanIds \ {k} : findings'[j] = findings[j] /\ posts'[j] = posts[j]
  BY <1>1, <1>2
<1> QED BY <1>1, <1>8, <1>9, <1>10, ReportMoves

\* Every other step of a callback creates nothing.
LEMMA OthersKeepReports ==
    ASSUME ReportsInv, FindingsInv, RunsInv, NEW k \in ScanIds, NEW state,
           posts[k] # Idle, GotoPost(k, state), state.step # "create", UNCHANGED findings,
           scans' = scans \/ scans' = [scans EXCEPT ![k].told = TRUE]
    PROVE  ReportsInv'
<1>1. /\ DOMAIN posts = ScanIds /\ scans \in [ScanIds -> ScanRecord]
      /\ Reported(scans[k], posts[k], findings[k])
  BY DEF FindingsInv, RunsInv, ReportsInv
<1>2. scans[k].tries # 0 /\ scans[k].run # 0
  BY <1>1 DEF Reported, Unasked
<1>3. /\ scans'[k].tries = scans[k].tries /\ scans'[k].run = scans[k].run
      /\ \A j \in ScanIds \ {k} : scans'[j] = scans[j]
  BY <1>1 DEF ScanRecord
<1>4. posts'[k] = state /\ \A j \in ScanIds \ {k} : posts'[j] = posts[j]
  BY <1>1 DEF GotoPost
<1>5. Reported(scans'[k], state, findings[k])
  BY <1>1, <1>2, <1>3 DEF Reported
<1> QED BY <1>3, <1>4, <1>5, ReportMoves

LEMMA StepKeepsReports ==
    ASSUME ReportsInv, FindingsInv, RunsInv, TypesInv, [ScanJobsNext]_vars
    PROVE  ReportsInv'
<1>1. ASSUME UNCHANGED <<scans, posts, findings>>
      PROVE  ReportsInv'
  BY <1>1 DEF ReportsInv
<1>2. ASSUME NEW c \in Calls,
             LoadToRun(c) \/ RunSteps(c) \/ Rejected(c) \/ Unreachable(c) \/ BreakRun(c)
      PROVE  ReportsInv'
  <2>1. \/ UNCHANGED <<scans, posts, findings>>
        \/ calls[c].step = "dispatch" /\ Ask(c) /\ UNCHANGED <<posts, findings>>
    BY <1>2 DEF LoadToRun, RunSteps, QueueJob, HandedOver, WalkRejected, Rejected, Unreachable,
       BreakRun
  <2> QED BY <1>1, <2>1, AskKeepsReports
<1>3. ASSUME NEW k \in ScanIds,
             \/ FailCreate(k) \/ WalkQueued(k) \/ Stamp(k) \/ BreakPost(k)
             \/ \E succeeded \in BOOLEAN : Finish(k, succeeded)
      PROVE  ReportsInv'
  <2>1. posts[k] # Idle /\ UNCHANGED findings
    BY <1>3 DEF FailCreate, WalkQueued, Stamp, BreakPost, Finish, Idle
  <2>2. scans' = scans \/ scans' = [scans EXCEPT ![k].told = TRUE]
    BY <1>3 DEF FailCreate, WalkQueued, Stamp, BreakPost, Finish
  <2>3. PICK state : GotoPost(k, state) /\ state.step # "create"
    <3>1. \/ GotoPost(k, Idle)
          \/ GotoPost(k, [step |-> "finish", version |-> posts[k].version])
          \/ GotoPost(k, [step |-> "finish", version |-> job.version + 1])
          \/ GotoPost(k, [step |-> "stamp", version |-> job.version + 1])
      BY <1>3 DEF FailCreate, WalkQueued, Stamp, BreakPost, Finish
    <3>2. Idle.step # "create"
      BY DEF Idle
    <3> QED BY <3>1, <3>2
  <2> QED BY <2>1, <2>2, <2>3, OthersKeepReports
<1>4. CASE OperateJob \/ EditJob \/ UNCHANGED vars
  BY <1>1, <1>4, OperateMoves DEF EditJob, vars
<1>5. CASE ScanJobsNext
  BY <1>2, <1>3, <1>4, <1>5, PostKeepsReports, CreateKeepsReports DEF ScanJobsNext, PostSteps
<1> QED BY <1>4, <1>5

----------------------------------------------------------------------------
(* Requests a client overtook.  One whose run a client has ended names a   *)
(* version that is past, so it moves the job no more.                      *)

HoldingSteps == {"dispatch", "start", "fail"}
InProgress == job.status \in {"queued", "running"}

Stands(call) ==
    call.step \in HoldingSteps =>
        /\ call.version \in Nat /\ call.version <= job.version
        /\ call.run \in 1..job.run
        /\ call.run \in overruled => call.version < job.version

OverruledInv ==
    /\ overruled \subseteq 1..job.run
    /\ InProgress => job.run > 0
    /\ \A c \in Calls : Stands(calls[c])

\* No run is ended by a client, and a request that has begun one names it.
LEMMA OverruledStays ==
    ASSUME OverruledInv, job.version \in Nat, job.run \in Nat, overruled' = overruled,
           job'.version \in {job.version, job.version + 1}, job'.run \in {job.run, job.run + 1},
           InProgress' => InProgress \/ job'.run = job.run + 1,
           \A c \in Calls : \/ calls'[c] = calls[c] \/ calls'[c].step \notin HoldingSteps
                             \/ /\ calls'[c].version = job'.version
                                /\ calls'[c].run \in 1..job'.run /\ calls'[c].run \notin overruled
                             \/ /\ calls[c].step \in HoldingSteps
                                /\ calls'[c].version = calls[c].version
                                /\ calls'[c].run = calls[c].run
    PROVE  OverruledInv'
<1>1. overruled' \subseteq 1..job'.run
  BY DEF OverruledInv
<1>2. InProgress' => job'.run > 0
  BY DEF OverruledInv
<1>3. ASSUME NEW c \in Calls, calls'[c].step \in HoldingSteps
      PROVE  /\ calls'[c].version \in Nat /\ calls'[c].version <= job'.version
             /\ calls'[c].run \in 1..job'.run
             /\ calls'[c].run \in overruled => calls'[c].version < job'.version
  <2>1. CASE calls'[c].version = job'.version /\ calls'[c].run \in 1..job'.run
             /\ calls'[c].run \notin overruled
    BY <2>1
  <2>2. CASE /\ calls[c].step \in HoldingSteps /\ calls'[c].version = calls[c].version
             /\ calls'[c].run = calls[c].run
    <3>1. /\ calls[c].version \in Nat /\ calls[c].version <= job.version
          /\ calls[c].run \in 1..job.run
          /\ calls[c].run \in overruled => calls[c].version < job.version
      BY <2>2 DEF OverruledInv, Stands
    <3> QED BY <2>2, <3>1
  <2> QED BY <1>3, <2>1, <2>2
<1> QED BY <1>1, <1>2, <1>3 DEF OverruledInv, Stands

LEMMA InitOverruled == ScanJobsInit => OverruledInv
BY DEF ScanJobsInit, InitialJob, Idle, OverruledInv, InProgress, Stands, HoldingSteps

\* RunScanJob: the run a request begins is new, and a request that moves the
\* job on knows its version, so no client has ended its run.
LEMMA RunsKeepOverruled ==
    ASSUME OverruledInv, TypesInv, RunsInv, NEW c \in Calls,
           LoadToRun(c) \/ RunSteps(c) \/ Rejected(c) \/ Unreachable(c) \/ BreakRun(c)
    PROVE  OverruledInv'
<1>1. job.version \in Nat /\ job.run \in Nat /\ DOMAIN calls = Calls /\ overruled' = overruled
  BY DEF TypesInv, RunsInv, LoadToRun, RunSteps, QueueJob, HandedOver, WalkRejected, Rejected,
     Unreachable, BreakRun
<1>2. \A n \in overruled : n \in 1..job.run
  BY DEF OverruledInv
<1>3. ASSUME NEW state, Goto(c, state), state.step \notin HoldingSteps,
             job'.version \in {job.version, job.version + 1}, job'.run \in {job.run, job.run + 1},
             InProgress' => InProgress \/ job'.run = job.run + 1
      PROVE  OverruledInv'
  BY <1>1, <1>3, OverruledStays DEF Goto
<1>4. ASSUME NEW state, Goto(c, state), state.version = job'.version,
             state.run \in 1..job'.run, state.run \notin overruled,
             job'.version = job.version + 1, job'.run \in {job.run, job.run + 1},
             InProgress' => InProgress \/ job'.run = job.run + 1
      PROVE  OverruledInv'
  BY <1>1, <1>4, OverruledStays DEF Goto
<1>5. Idle.step \notin HoldingSteps
  BY DEF Idle, HoldingSteps
<1>6. ASSUME job' = job PROVE InProgress' => InProgress
  BY <1>6 DEF InProgress
<1>7. CASE LoadToRun(c) \/ HandedOver(c) \/ Unreachable(c) \/ BreakRun(c)
  <2>1. job' = job /\ \E state : Goto(c, state) /\ state.step \notin HoldingSteps
    BY <1>5, <1>7 DEF LoadToRun, HandedOver, Unreachable, BreakRun, HoldingSteps
  <2> QED BY <1>3, <1>6, <2>1
<1>8. CASE Rejected(c)
  <2>1. /\ calls[c].step \in HoldingSteps /\ job' = job
        /\ Goto(c, [step |-> "start", version |-> calls[c].version, run |-> calls[c].run])
    BY <1>8 DEF Rejected, HoldingSteps
  <2>2. InProgress' => InProgress
    BY <1>6, <2>1
  <2> QED BY <1>1, <2>1, <2>2, OverruledStays DEF Goto
<1>9. CASE QueueJob(c)
  <2>1. \/ job' = job /\ Goto(c, Idle)
        \/ job' = Moved("queued") /\ Goto(c, Idle)
        \/ /\ job' = Moved("queued")
           /\ Goto(c, [step |-> "dispatch", version |-> job.version + 1, run |-> job.run + 1])
    BY <1>9 DEF QueueJob
  <2>2. job' = Moved("queued") => job'.version = job.version + 1 /\ job'.run = job.run + 1
    BY DEF Moved
  <2>3. job.run + 1 \in 1..(job.run + 1) /\ job.run + 1 \notin overruled
    BY <1>1, <1>2
  <2>4. CASE job' = job /\ Goto(c, Idle)
    BY <1>3, <1>5, <1>6, <2>4
  <2>5. CASE job' = Moved("queued") /\ Goto(c, Idle)
    BY <1>3, <1>5, <2>2, <2>5
  <2>6. CASE /\ job' = Moved("queued")
             /\ Goto(c, [step |-> "dispatch", version |-> job.version + 1, run |-> job.run + 1])
    BY <1>4, <2>2, <2>3, <2>6
  <2> QED BY <2>1, <2>4, <2>5, <2>6
<1>10. CASE WalkRejected(c)
  <2>1. CASE /\ calls[c].step = "start" /\ CanMove(calls[c].version, "start")
             /\ job' = Moved("running")
             /\ Goto(c, [step |-> "fail", version |-> job.version + 1, run |-> calls[c].run])
    <3>1. job'.version = job.version + 1 /\ job'.run = job.run
      BY <2>1 DEF Moved
    <3>2. InProgress
      BY <2>1 DEF CanMove, Workflow, InProgress
    <3>3. calls[c].run \in 1..job.run /\ calls[c].run \notin overruled
      BY <1>1, <2>1 DEF OverruledInv, Stands, HoldingSteps, CanMove
    <3> QED BY <1>4, <2>1, <3>1, <3>2, <3>3
  <2>2. CASE Goto(c, Idle) /\ (job' = job \/ job' = Moved("failed"))
    <3>1. job' = Moved("failed") => job'.version = job.version + 1 /\ job'.run = job.run
                                    /\ ~ InProgress'
      BY DEF Moved, InProgress
    <3> QED BY <1>3, <1>5, <1>6, <2>2, <3>1
  <2> QED BY <1>10, <2>1, <2>2 DEF WalkRejected
<1> QED BY <1>7, <1>8, <1>9, <1>10 DEF RunSteps

\* A client that ends a run overtakes every request: each names an older version.
LEMMA OperateKeepsOverruled ==
    ASSUME OverruledInv, TypesInv, OperateJob
    PROVE  OverruledInv'
<1>1. job.version \in Nat /\ job.run \in Nat /\ calls' = calls
  BY OperateMoves DEF TypesInv
<1>2. CASE job' = Moved("queued") /\ overruled' = overruled
  <2>1. job'.version = job.version + 1 /\ job'.run = job.run + 1
    BY <1>2 DEF Moved
  <2> QED BY <1>1, <1>2, <2>1, OverruledStays
<1>3. CASE job.status = "queued" /\ job' = Moved("running") /\ overruled' = overruled
  <2>1. job'.version = job.version + 1 /\ job'.run = job.run /\ InProgress
    BY <1>3 DEF Moved, InProgress
  <2> QED BY <1>1, <1>3, <2>1, OverruledStays
<1>4. CASE /\ job.status = "running" /\ \E to \in {"completed", "failed"} : job' = Moved(to)
           /\ overruled' = overruled \cup {job.run}
  <2>1. job'.version = job.version + 1 /\ job'.run = job.run /\ ~ InProgress'
    BY <1>4 DEF Moved, InProgress
  <2>2. job.run > 0
    BY <1>4 DEF OverruledInv, InProgress
  <2>3. overruled' \subseteq 1..job'.run
    <3>1. job.run \in 1..job.run
      BY <1>1, <2>2
    <3>2. overruled \cup {job.run} \subseteq 1..job.run
      BY <3>1 DEF OverruledInv
    <3> QED BY <1>4, <2>1, <3>2
  <2>4. ASSUME NEW c \in Calls, calls'[c].step \in HoldingSteps
        PROVE  /\ calls'[c].version \in Nat /\ calls'[c].version < job'.version
               /\ calls'[c].run \in 1..job'.run
    <3>1. /\ calls[c].version \in Nat /\ calls[c].version <= job.version
          /\ calls[c].run \in 1..job.run
      BY <1>1, <2>4 DEF OverruledInv, Stands
    <3> QED BY <1>1, <2>1, <3>1
  <2>5. \A c \in Calls : Stands(calls[c])'
    BY <1>1, <2>1, <2>4 DEF Stands
  <2> QED BY <2>1, <2>3, <2>5 DEF OverruledInv
<1> QED BY <1>2, <1>3, <1>4, OperateMoves

LEMMA StepKeepsOverruled ==
    ASSUME OverruledInv, TypesInv, RunsInv, [ScanJobsNext]_vars
    PROVE  OverruledInv'
<1>1. ASSUME UNCHANGED <<calls, overruled>>,
             job'.version \in {job.version, job.version + 1}, job'.run = job.run,
             InProgress' => InProgress
      PROVE  OverruledInv'
  BY <1>1, OverruledStays DEF TypesInv
<1>2. ASSUME NEW k \in ScanIds, PostSteps(k) \/ FailCreate(k) \/ BreakPost(k)
      PROVE  OverruledInv'
  <2>1. UNCHANGED <<calls, overruled>>
    BY <1>2 DEF PostSteps, Post, CreateFinding, WalkQueued, Stamp, Finish, FailCreate, BreakPost
  <2>2. \/ job' = job
        \/ job' = [status |-> job.status, version |-> job.version + 1, run |-> job.run]
        \/ job.status = "queued" /\ job' = Moved("running")
        \/ job' = Moved("completed") \/ job' = Moved("failed")
    BY <1>2 DEF PostSteps, Post, CreateFinding, WalkQueued, Stamp, Finish, FailCreate, BreakPost,
       Ending, CanMove, Workflow
  <2>3. /\ job'.version \in {job.version, job.version + 1} /\ job'.run = job.run
        /\ InProgress' => InProgress
    BY <2>2 DEF Moved, InProgress
  <2> QED BY <1>1, <2>1, <2>3
<1>3. CASE EditJob \/ UNCHANGED vars
  <2>1. /\ UNCHANGED <<calls, overruled>>
        /\ job'.version \in {job.version, job.version + 1} /\ job'.run = job.run
        /\ job'.status = job.status
    BY <1>3 DEF EditJob, vars
  <2> QED BY <1>1, <2>1 DEF InProgress
<1>4. CASE ScanJobsNext
  BY <1>2, <1>3, <1>4, RunsKeepOverruled, OperateKeepsOverruled DEF ScanJobsNext
<1> QED BY <1>3, <1>4

----------------------------------------------------------------------------
(* Who may end the run that is in progress: the request that has still to  *)
(* hand it over or to walk it to "failed", or the scan that has still to.  *)

Holds(c) == calls[c].step \in HoldingSteps /\ calls[c].run \notin overruled
Active(k) == scans[k].run > 0 /\ (scans[k].tries = 0 \/ posts[k].step \in {"create", "finish"})

\* As long as no scan is reported again or forestalled, only one holds it.
Held ==
    /\ \A c \in Calls : Holds(c) =>
        /\ InProgress /\ calls[c].run = job.run
        /\ (\A d \in Calls : Holds(d) => d = c) /\ \A k \in ScanIds : ~ Active(k)
    /\ \A k \in ScanIds : Active(k) => InProgress /\ scans[k].run = job.run
    /\ \A k \in ScanIds : job.status \in {"completed", "failed"} /\ finisher = k =>
          job.run = scans[k].run

HeldInv == Once /\ ClientsLetScansEnd => Held

\* Nobody begins to hold a run, and whoever holds one is still in progress.
LEMMA HeldStays ==
    ASSUME Held, job'.run = job.run,
           InProgress => InProgress',
           job'.status \in {"completed", "failed"} => job.status \in {"completed", "failed"},
           finisher' = finisher,
           \A c \in Calls : Holds(c)' => Holds(c) /\ calls'[c].run = calls[c].run,
           \A k \in ScanIds : Active(k)' => Active(k),
           \A k \in ScanIds : scans'[k].run = scans[k].run
    PROVE  Held'
<1>1. ASSUME NEW c \in Calls, Holds(c)'
      PROVE  /\ InProgress' /\ calls'[c].run = job'.run
             /\ (\A d \in Calls : Holds(d)' => d = c) /\ \A k \in ScanIds : ~ Active(k)'
  <2>1. Holds(c) /\ calls'[c].run = calls[c].run
    BY <1>1
  <2> QED BY <2>1 DEF Held
<1>2. ASSUME NEW k \in ScanIds, Active(k)'
      PROVE  InProgress' /\ scans'[k].run = job'.run
  BY <1>2 DEF Held
<1>3. ASSUME NEW k \in ScanIds, job'.status \in {"completed", "failed"}, finisher' = k
      PROVE  job'.run = scans'[k].run
  BY <1>3 DEF Held
<1> QED BY <1>1, <1>2, <1>3 DEF Held

\* A request that holds no run it did not hold, while the callbacks wait.
LEMMA HeldByRequest ==
    ASSUME Held, RunsInv, NEW c \in Calls, NEW state, Goto(c, state),
           \/ state.step \notin HoldingSteps
           \/ calls[c].step \in HoldingSteps /\ state.run = calls[c].run,
           job'.run = job.run, InProgress => InProgress',
           job'.status \in {"completed", "failed"} => job.status \in {"completed", "failed"},
           UNCHANGED <<finisher, overruled, scans, posts>>
    PROVE  Held'
<1>1. calls'[c] = state /\ \A d \in Calls \ {c} : calls'[d] = calls[d]
  BY DEF RunsInv, Goto
<1>2. \A d \in Calls : Holds(d)' => Holds(d) /\ calls'[d].run = calls[d].run
  BY <1>1 DEF Holds
<1>3. \A k \in ScanIds : Active(k)' => Active(k)
  BY DEF Active
<1> QED BY <1>2, <1>3, HeldStays

\* A callback that goes on, or stops, and leaves the run in progress.
LEMMA HeldByCallback ==
    ASSUME Held, FindingsInv, RunsInv, NEW k \in ScanIds, NEW state, GotoPost(k, state),
           posts[k].step \in {"create", "finish"} \/ state.step \notin {"create", "finish"},
           job'.run = job.run, InProgress => InProgress',
           job'.status \in {"completed", "failed"} => job.status \in {"completed", "failed"},
           UNCHANGED <<finisher, overruled, calls>>,
           scans' = scans \/ scans' = [scans EXCEPT ![k].told = TRUE]
    PROVE  Held'
<1>1. posts'[k] = state /\ \A j \in ScanIds \ {k} : posts'[j] = posts[j]
  BY DEF FindingsInv, GotoPost
<1>2. \A j \in ScanIds : scans'[j].run = scans[j].run /\ scans'[j].tries = scans[j].tries
  BY DEF RunsInv, ScanRecord
<1>3. \A j \in ScanIds : Active(j)' => Active(j)
  BY <1>1, <1>2 DEF Active
<1>4. \A c \in Calls : Holds(c)' => Holds(c) /\ calls'[c].run = calls[c].run
  BY DEF Holds
<1> QED BY <1>2, <1>3, <1>4, HeldStays

LEMMA InitHeld == ScanJobsInit => Held
<1> SUFFICES ASSUME ScanJobsInit PROVE Held
  OBVIOUS
<1>1. job.status = "idle"
  BY DEF ScanJobsInit, InitialJob
<1>2. \A c \in Calls : ~ Holds(c)
  BY DEF ScanJobsInit, Idle, Holds, HoldingSteps
<1>3. \A k \in ScanIds : ~ Active(k)
  BY DEF ScanJobsInit, Unasked, Active
<1> QED BY <1>1, <1>2, <1>3 DEF Held

\* RunScanJob queues a job nobody holds a run of, and holds the new one.
LEMMA QueueKeepsHeld ==
    ASSUME Held, RunsInv, NEW c \in Calls, QueueJob(c)
    PROVE  Held'
<1>1. UNCHANGED <<scans, posts, finisher, overruled>> /\ calls[c].step = "queue"
  BY DEF QueueJob
<1>2. CASE CanMove(calls[c].version, "run")
  <2> DEFINE state == IF HasScanner
                      THEN [step |-> "dispatch", version |-> job.version + 1, run |-> job.run + 1]
                      ELSE Idle
  <2>1. job' = Moved("queued") /\ calls' = [calls EXCEPT ![c] = state]
    BY <1>2 DEF QueueJob, Goto
  <2>2. job'.run = job.run + 1 /\ job'.status = "queued"
    BY <2>1 DEF Moved
  <2>3. ~ InProgress
    BY <1>2 DEF CanMove, Workflow, InProgress
  <2>4. (state.step = "dispatch" /\ state.run = job.run + 1) \/ state.step = "idle"
    BY DEF Idle
  <2> HIDE DEF state
  <2>5. calls'[c] = state /\ \A d \in Calls \ {c} : calls'[d] = calls[d]
    BY <2>1 DEF RunsInv
  <2>6. (\A d \in Calls : ~ Holds(d)) /\ \A k \in ScanIds : ~ Active(k)
    BY <2>3 DEF Held
  <2>7. \A d \in Calls : Holds(d)' => d = c /\ state.step = "dispatch"
    BY <1>1, <2>4, <2>5, <2>6 DEF Holds, HoldingSteps
  <2>8. \A k \in ScanIds : ~ Active(k)'
    BY <1>1, <2>6 DEF Active
  <2>9. InProgress'
    BY <2>2 DEF InProgress
  <2> QED BY <2>2, <2>4, <2>5, <2>7, <2>8, <2>9 DEF Held
<1>3. CASE ~ CanMove(calls[c].version, "run")
  <2>1. job' = job /\ Goto(c, Idle)
    BY <1>3 DEF QueueJob
  <2>2. Idle.step \notin HoldingSteps
    BY DEF Idle, HoldingSteps
  <2>3. InProgress => InProgress'
    BY <2>1 DEF InProgress
  <2> QED BY <1>1, <2>1, <2>2, <2>3, HeldByRequest
<1> QED BY <1>2, <1>3

\* What the scanner takes on holds the run instead of the request.
LEMMA AskKeepsHeld ==
    ASSUME Held, RunsInv, NEW c \in Calls, calls[c].step = "dispatch", Ask(c), Goto(c, Idle),
           ClientsLetScansEnd', UNCHANGED <<job, finisher, overruled, posts>>
    PROVE  Held'
<1> DEFINE asked == [run |-> calls[c].run, tries |-> 0, told |-> FALSE]
<1>1. PICK k \in ScanIds : scans' = [scans EXCEPT ![k] = asked]
  BY DEF Ask
<1>2. scans'[k] = asked /\ \A j \in ScanIds \ {k} : scans'[j] = scans[j]
  BY <1>1 DEF RunsInv
<1>3. /\ Holds(c) /\ InProgress /\ calls[c].run = job.run
      /\ \A d \in Calls : Holds(d) => d = c
      /\ \A j \in ScanIds : ~ Active(j)
  <2>1. calls[c].run \notin overruled
    BY <1>2 DEF ClientsLetScansEnd
  <2> QED BY <2>1 DEF Held, Holds, HoldingSteps
<1>4. \A d \in Calls : ~ Holds(d)'
  <2>1. calls'[c] = Idle /\ \A d \in Calls \ {c} : calls'[d] = calls[d]
    BY DEF Goto, RunsInv
  <2> QED BY <1>3, <2>1 DEF Holds, Idle, HoldingSteps
<1>5. InProgress' /\ job' = job
  BY <1>3 DEF InProgress
<1>6. asked.run = job.run
  BY <1>3
<1> HIDE DEF asked
<1>7. \A j \in ScanIds : Active(j)' => scans'[j].run = job'.run
  BY <1>2, <1>3, <1>5, <1>6 DEF Active
<1> QED BY <1>4, <1>5, <1>7 DEF Held, InProgress

\* A run the scanner refused is ended by the request that holds it.
LEMMA WalkKeepsHeld ==
    ASSUME Held, RunsInv, TypesInv, OverruledInv, NEW c \in Calls, WalkRejected(c)
    PROVE  Held'
<1>1. UNCHANGED <<scans, posts, overruled>> /\ calls[c].step \in HoldingSteps
  BY DEF WalkRejected, HoldingSteps
<1>2. Idle.step \notin HoldingSteps
  BY DEF Idle, HoldingSteps
<1>3. CASE /\ job.status = "queued" /\ job' = Moved("running") /\ finisher' = finisher
           /\ Goto(c, [step |-> "fail", version |-> job.version + 1, run |-> calls[c].run])
  <2>1. job'.status = "running" /\ job'.run = job.run
    BY <1>3 DEF Moved
  <2>2. InProgress'
    BY <2>1 DEF InProgress
  <2> QED BY <1>1, <1>3, <2>1, <2>2, HeldByRequest
<1>4. CASE /\ calls[c].version = job.version /\ job' = Moved("failed") /\ Goto(c, Idle)
           /\ finisher' = Nobody
  <2>1. Holds(c)
    <3>1. calls[c].run \notin overruled
      BY <1>1, <1>4 DEF OverruledInv, Stands, TypesInv
    <3> QED BY <1>1, <3>1 DEF Holds
  <2>2. \A d \in Calls : ~ Holds(d)'
    <3>1. calls'[c] = Idle /\ \A d \in Calls \ {c} : calls'[d] = calls[d]
      BY <1>4 DEF Goto, RunsInv
    <3>2. \A d \in Calls : Holds(d) => d = c
      BY <2>1 DEF Held
    <3> QED BY <1>1, <1>2, <3>1, <3>2 DEF Holds
  <2>3. \A k \in ScanIds : ~ Active(k)'
    BY <1>1, <2>1 DEF Held, Active
  <2>4. Nobody \notin ScanIds
    BY ScanJobsAssumption DEF Nobody
  <2> QED BY <1>4, <2>2, <2>3, <2>4 DEF Held
<1>5. CASE Goto(c, Idle) /\ UNCHANGED <<job, finisher>>
  <2>1. InProgress => InProgress'
    BY <1>5 DEF InProgress
  <2> QED BY <1>1, <1>2, <1>5, <2>1, HeldByRequest
<1> QED BY <1>3, <1>4, <1>5 DEF WalkRejected, CanMove, Workflow

\* The scanner reports a scan it has not reported.
LEMMA PostKeepsHeld ==
    ASSUME Held, RunsInv, FindingsInv, NEW k \in ScanIds, Post(k), Once'
    PROVE  Held'
<1>1. /\ scans' = [scans EXCEPT ![k].tries = SeveralAtMost(scans[k].tries + 1)]
      /\ \E state : posts' = [posts EXCEPT ![k] = state]
      /\ UNCHANGED <<job, calls, finisher, overruled>>
  BY DEF Post, GotoPost
<1>2. /\ scans \in [ScanIds -> ScanRecord] /\ DOMAIN posts = ScanIds
  BY DEF RunsInv, FindingsInv
<1>3. /\ scans'[k].tries = SeveralAtMost(scans[k].tries + 1)
      /\ \A j \in ScanIds : scans'[j].run = scans[j].run
      /\ \A j \in ScanIds \ {k} : scans'[j] = scans[j] /\ posts'[j] = posts[j]
  BY <1>1, <1>2 DEF ScanRecord
<1>4. scans[k].tries = 0
  <2>1. scans[k].tries \in 0..2 /\ SeveralAtMost(scans[k].tries + 1) <= 1
    BY <1>2, <1>3 DEF Once, ScanRecord
  <2> QED BY <2>1 DEF SeveralAtMost
<1>5. \A j \in ScanIds : Active(j)' => Active(j)
  BY <1>3, <1>4 DEF Active
<1>6. (InProgress => InProgress')
      /\ \A c \in Calls : Holds(c)' => Holds(c) /\ calls'[c].run = calls[c].run
  BY <1>1 DEF InProgress, Holds
<1> QED BY <1>1, <1>3, <1>5, <1>6, HeldStays

\* The callback of a scan ends the run the scan was asked for.
LEMMA FinishKeepsHeld ==
    ASSUME Held, RunsInv, FindingsInv, ReportsInv, Once,
           NEW k \in ScanIds, NEW succeeded \in BOOLEAN, Finish(k, succeeded)
    PROVE  Held'
<1>1. posts[k].step = "finish" /\ UNCHANGED <<calls, scans, overruled>>
  BY DEF Finish
<1>2. CASE CanMove(posts[k].version, Ending(succeeded)[1])
  <2> DEFINE state == [step |-> "stamp", version |-> job.version + 1]
  <2>1. /\ job' = Moved(Ending(succeeded)[2]) /\ finisher' = k
        /\ posts' = [posts EXCEPT ![k] = state]
    BY <1>2 DEF Finish, GotoPost
  <2>2. job'.run = job.run
    BY <2>1 DEF Moved, Ending
  <2>3. scans[k].run > 0 /\ scans[k].tries # 0
    <3>1. Reported(scans[k], posts[k], findings[k]) /\ scans[k].run \in Nat
      BY DEF ReportsInv, RunsInv, ScanRecord
    <3>2. posts[k] # Idle
      BY <1>1 DEF Idle
    <3> QED BY <3>1, <3>2 DEF Reported, Unasked
  <2>4. Active(k) /\ scans[k].run = job.run
    BY <1>1, <2>3 DEF Active, Held
  <2>5. \A j \in ScanIds : Active(j) => j = k
    BY <2>3, <2>4 DEF Held, RunsInv, OneScanPerRun
  <2>6. \A c \in Calls : ~ Holds(c)'
    BY <1>1, <2>4 DEF Held, Holds
  <2>7. posts'[k].step = "stamp" /\ \A j \in ScanIds \ {k} : posts'[j] = posts[j]
    BY <2>1 DEF FindingsInv
  <2>8. \A j \in ScanIds : ~ Active(j)'
    BY <1>1, <2>3, <2>5, <2>7 DEF Active
  <2> QED BY <1>1, <2>1, <2>2, <2>4, <2>6, <2>8 DEF Held
<1>3. CASE ~ CanMove(posts[k].version, Ending(succeeded)[1])
  <2>1. GotoPost(k, Idle) /\ UNCHANGED <<job, finisher>>
    BY <1>3 DEF Finish
  <2>2. InProgress => InProgress'
    BY <2>1 DEF InProgress
  <2> QED BY <1>1, <2>1, <2>2, HeldByCallback
<1> QED BY <1>2, <1>3

LEMMA CallbackKeepsHeld ==
    ASSUME Held, RunsInv, FindingsInv, NEW k \in ScanIds,
           CreateFinding(k) \/ FailCreate(k) \/ WalkQueued(k) \/ Stamp(k) \/ BreakPost(k)
    PROVE  Held'
<1>1. /\ UNCHANGED <<finisher, overruled, calls>>
      /\ scans' = scans \/ scans' = [scans EXCEPT ![k].told = TRUE]
  BY DEF CreateFinding, FailCreate, WalkQueued, Stamp, BreakPost
<1>2. /\ job'.run = job.run
      /\ job'.status = job.status \/ (job.status = "queued" /\ job'.status = "running")
  BY DEF CreateFinding, FailCreate, WalkQueued, Stamp, BreakPost, Moved, CanMove, Workflow
<1>3. (InProgress => InProgress')
      /\ (job'.status \in {"completed", "failed"} => job.status \in {"completed", "failed"})
  BY <1>2 DEF InProgress
<1>4. Idle.step \notin {"create", "finish"}
  BY DEF Idle
<1>5. CASE Stamp(k) \/ BreakPost(k) \/ FailCreate(k)
  <2>1. GotoPost(k, Idle)
    BY <1>5 DEF Stamp, BreakPost, FailCreate
  <2> QED BY <1>1, <1>2, <1>3, <1>4, <2>1, HeldByCallback
<1>6. CASE CreateFinding(k) \/ WalkQueued(k)
  <2>1. posts[k].step = "create" /\ \E state : GotoPost(k, state)
    BY <1>6 DEF CreateFinding, WalkQueued
  <2> QED BY <1>1, <1>2, <1>3, <2>1, HeldByCallback
<1> QED BY <1>5, <1>6

\* Once asked for, a scan is of the run it was asked for.
LEMMA StepRuns ==
    ASSUME RunsInv, [ScanJobsNext]_vars
    PROVE  \A k \in ScanIds : scans[k].run = scans'[k].run \/ scans[k].run = 0
<1>1. ASSUME NEW c \in Calls, Ask(c)
      PROVE  \A k \in ScanIds : scans[k].run = scans'[k].run \/ scans[k].run = 0
  BY <1>1 DEF Ask, Unasked, RunsInv, ScanRecord
<1>2. ASSUME NEW k \in ScanIds, \/ scans' = [scans EXCEPT ![k].told = TRUE]
                                \/ Post(k)
      PROVE  \A j \in ScanIds : scans[j].run = scans'[j].run
  BY <1>2 DEF Post, RunsInv, ScanRecord
<1>3. \/ scans' = scans
      \/ \E k \in ScanIds : scans' = [scans EXCEPT ![k].told = TRUE] \/ Post(k)
      \/ \E c \in Calls : Ask(c)
  BY DEF ScanJobsNext, RunSteps, PostSteps, LoadToRun, QueueJob, HandedOver, WalkRejected,
     Rejected, Unreachable, BreakRun, CreateFinding, WalkQueued, Stamp, Finish, FailCreate,
     BreakPost, OperateJob, EditJob, vars
<1> QED BY <1>1, <1>2, <1>3

\* A client that ends the run in progress takes it from whoever held it, which
\* forestalls the scan if it was a scan.
LEMMA OperateKeepsHeld ==
    ASSUME Held, OverruledInv, ClientsLetScansEnd', OperateJob
    PROVE  Held'
<1>1. UNCHANGED <<calls, scans, posts>>
  BY OperateMoves
<1>2. \A k \in ScanIds : Active(k)' => Active(k)
  BY <1>1 DEF Active
<1>3. CASE /\ job.status \in {"idle", "completed", "failed"} /\ job' = Moved("queued")
           /\ UNCHANGED <<finisher, overruled>>
  <2>1. ~ InProgress /\ job'.status = "queued"
    BY <1>3 DEF InProgress, Moved
  <2>2. (\A c \in Calls : ~ Holds(c)) /\ \A k \in ScanIds : ~ Active(k)
    BY <2>1 DEF Held
  <2>3. (\A c \in Calls : ~ Holds(c)') /\ \A k \in ScanIds : ~ Active(k)'
    BY <1>1, <1>2, <1>3, <2>2 DEF Holds
  <2> QED BY <2>1, <2>3 DEF Held
<1>4. CASE job.status = "queued" /\ job' = Moved("running") /\ UNCHANGED <<finisher, overruled>>
  <2>1. job'.status = "running" /\ job'.run = job.run
    BY <1>4 DEF Moved
  <2>2. InProgress'
    BY <2>1 DEF InProgress
  <2>3. \A c \in Calls : Holds(c)' => Holds(c) /\ calls'[c].run = calls[c].run
    BY <1>1, <1>4 DEF Holds
  <2> QED BY <1>1, <1>2, <1>4, <2>1, <2>2, <2>3, HeldStays
<1>5. CASE /\ job.status = "running" /\ \E to \in {"completed", "failed"} : job' = Moved(to)
           /\ finisher' = Operator /\ overruled' = overruled \cup {job.run}
  <2>1. ASSUME NEW c \in Calls PROVE ~ Holds(c)'
    <3> SUFFICES ASSUME Holds(c)' PROVE FALSE
      OBVIOUS
    <3>1. Holds(c) /\ calls[c].run # job.run
      BY <1>1, <1>5 DEF Holds
    <3> QED BY <3>1 DEF Held
  <2>2. ASSUME NEW k \in ScanIds PROVE ~ Active(k)'
    <3>1. scans[k].run # job.run
      BY <1>1, <1>5 DEF ClientsLetScansEnd
    <3> QED BY <1>2, <3>1 DEF Held
  <2>3. Operator \notin ScanIds
    BY ScanJobsAssumption DEF Operator
  <2> QED BY <1>5, <2>1, <2>2, <2>3 DEF Held
<1> QED BY <1>3, <1>4, <1>5, OperateMoves

LEMMA StepKeepsHeld ==
    ASSUME HeldInv, RunsInv, TypesInv, OverruledInv, FindingsInv, ReportsInv,
           [ScanJobsNext]_vars
    PROVE  HeldInv'
<1> SUFFICES ASSUME Once', ClientsLetScansEnd' PROVE Held'
  BY DEF HeldInv
<1>1. Held /\ Once
  <2>1. \A k \in ScanIds : scans[k].tries <= scans'[k].tries \/ scans[k].tries = 0
    <3>1. ASSUME NEW c \in Calls, Ask(c)
          PROVE  \A k \in ScanIds : scans[k].tries <= scans'[k].tries \/ scans[k].tries = 0
      BY <3>1 DEF Ask, Unasked, RunsInv, ScanRecord
    <3>2. ASSUME NEW k \in ScanIds, Post(k)
          PROVE  \A j \in ScanIds : scans[j].tries <= scans'[j].tries \/ scans[j].tries = 0
      <4>1. scans' = [scans EXCEPT ![k].tries = SeveralAtMost(scans[k].tries + 1)]
        BY <3>2 DEF Post
      <4>2. \A n \in 0..2 : n <= SeveralAtMost(n + 1)
        BY DEF SeveralAtMost
      <4> QED BY <4>1, <4>2 DEF RunsInv, ScanRecord
    <3>3. ASSUME \/ scans' = scans
                 \/ \E k \in ScanIds : scans' = [scans EXCEPT ![k].told = TRUE]
          PROVE  \A k \in ScanIds : scans[k].tries <= scans'[k].tries \/ scans[k].tries = 0
      BY <3>3 DEF RunsInv, ScanRecord
    <3>4. \/ scans' = scans
          \/ \E k \in ScanIds : scans' = [scans EXCEPT ![k].told = TRUE] \/ Post(k)
          \/ \E c \in Calls : Ask(c)
      BY DEF ScanJobsNext, RunSteps, PostSteps, LoadToRun, QueueJob, HandedOver, WalkRejected,
         Rejected, Unreachable, BreakRun, CreateFinding, WalkQueued, Stamp, Finish, FailCreate,
         BreakPost, OperateJob, EditJob, vars
    <3> QED BY <3>1, <3>2, <3>3, <3>4
  <2>2. Once
    <3>1. \A k \in ScanIds : scans[k].tries \in Nat /\ scans'[k].tries <= 1
      BY DEF Once, RunsInv, ScanRecord
    <3>2. \A k \in ScanIds : scans'[k].tries \in Nat
      BY StepKeepsRuns DEF RunsInv, ScanRecord
    <3> QED BY <2>1, <3>1, <3>2 DEF Once
  <2>3. \A k \in ScanIds : scans[k].run = scans'[k].run \/ scans[k].run = 0
    BY StepRuns
  <2>4. ClientsLetScansEnd
    <3>1. overruled \subseteq overruled' /\ 0 \notin overruled
      <4>1. overruled' = overruled \/ OperateJob
        BY DEF ScanJobsNext, RunSteps, PostSteps, LoadToRun, QueueJob, HandedOver, WalkRejected,
           Rejected, Unreachable, BreakRun, Post, CreateFinding, WalkQueued, Stamp, Finish,
           FailCreate, BreakPost, EditJob, vars
      <4> QED BY <4>1, OperateMoves DEF OverruledInv
    <3> QED BY <2>3, <3>1 DEF ClientsLetScansEnd
  <2> QED BY <2>2, <2>4 DEF HeldInv
<1>2. Idle.step \notin HoldingSteps
  BY DEF Idle, HoldingSteps
<1>3. ASSUME NEW c \in Calls, LoadToRun(c) \/ Rejected(c) \/ BreakRun(c)
      PROVE  Held'
  <2>1. /\ UNCHANGED <<job, finisher, overruled, scans, posts>>
        /\ \E state : /\ Goto(c, state)
                      /\ \/ state.step \notin HoldingSteps
                         \/ calls[c].step \in HoldingSteps /\ state.run = calls[c].run
    <3>1. CASE LoadToRun(c)
      BY <3>1 DEF LoadToRun, HoldingSteps
    <3>2. CASE Rejected(c)
      BY <3>2 DEF Rejected, HoldingSteps
    <3>3. CASE BreakRun(c)
      BY <1>2, <3>3 DEF BreakRun
    <3> QED BY <1>3, <3>1, <3>2, <3>3
  <2>2. InProgress => InProgress'
    BY <2>1 DEF InProgress
  <2> QED BY <1>1, <2>1, <2>2, HeldByRequest
<1>4. ASSUME NEW c \in Calls, HandedOver(c) \/ Unreachable(c)
      PROVE  Held'
  <2>1. /\ calls[c].step = "dispatch" /\ Goto(c, Idle)
        /\ UNCHANGED <<job, finisher, overruled, posts>>
        /\ Ask(c) \/ scans' = scans
    BY <1>4 DEF HandedOver, Unreachable
  <2>2. InProgress => InProgress'
    BY <2>1 DEF InProgress
  <2> QED BY <1>1, <1>2, <2>1, <2>2, HeldByRequest, AskKeepsHeld
<1>5. CASE EditJob \/ UNCHANGED vars
  <2>1. /\ UNCHANGED <<finisher, overruled, calls, scans, posts>>
        /\ job'.run = job.run /\ job'.status = job.status
    BY <1>5 DEF EditJob, vars
  <2>2. (InProgress => InProgress') /\ (\A k \in ScanIds : Active(k)' => Active(k))
        /\ \A c \in Calls : Holds(c)' => Holds(c) /\ calls'[c].run = calls[c].run
    BY <2>1 DEF InProgress, Active, Holds
  <2> QED BY <1>1, <2>1, <2>2, HeldStays
<1>6. CASE ScanJobsNext
  BY <1>1, <1>3, <1>4, <1>5, <1>6, QueueKeepsHeld, WalkKeepsHeld, PostKeepsHeld, FinishKeepsHeld,
     CallbackKeepsHeld, OperateKeepsHeld DEF ScanJobsNext, RunSteps, PostSteps
<1> QED BY <1>5, <1>6

\* The findings of a scan that was reported once are there once; and if every
\* scan is, and no client ends a run that the scanner was asked for, each run is
\* ended by the callback of its own scan, by the request that queued it or by a
\* client, though the callback names only the job: whatever broke, was edited, or
\* was lost on the way (RunScanJob, SubmitFindings).
THEOREM OnlyRetriesMixUp == ScanJobsSpec => []MixedUpOnlyByRetry
<1> DEFINE Inv == FindingsInv /\ RunsInv /\ TypesInv /\ ReportsInv /\ OverruledInv /\ HeldInv
<1>1. Inv => MixedUpOnlyByRetry
  BY DEF ReportsInv, Reported, HeldInv, Held, MixedUpOnlyByRetry
<1>2. ScanJobsInit => Inv
  BY InitFindings, InitRuns, InitTypes, InitReports, InitOverruled, InitHeld DEF HeldInv
<1>3. Inv /\ [ScanJobsNext]_vars => Inv'
  BY StepKeepsFindings, StepKeepsRuns, StepKeepsTypes, StepKeepsReports, StepKeepsOverruled,
     StepKeepsHeld
<1> QED BY <1>1, <1>2, <1>3, PTL DEF ScanJobsSpec
=============================================================================
