------------------------------ MODULE ScanJobs ------------------------------
(***************************************************************************)
(* scanning-service (data-plane/go/scanningservice): one scan job, the     *)
(* portal's "Run scan now" requests (RunScanJob) and the scanner's         *)
(* callbacks (SubmitFindings).  Jobs share nothing, so one is enough.      *)
(*                                                                         *)
(* Every call of the CRUD layer is a step.  That layer is not in this      *)
(* repository: it applies a transition only if the caller names the job's  *)
(* current version and the workflow has it from the job's status.  Nor is  *)
(* the scanner: it is asked with one POST, works on what it was asked, and *)
(* posts its findings again until it is told that they were taken.  Nor    *)
(* are the other clients: the job is theirs to edit, and theirs to drive   *)
(* through its workflow with the CRUD layer's own transitions.             *)
(***************************************************************************)
EXTENDS Integers

CONSTANTS
    Calls,          \* RunScanJob requests that may be in progress together
    HasScanner,     \* is SCANNER_URL set?
    ScanIds,        \* the scans the scanner may be asked for
    Parts,          \* number of findings a scan reports
    MaxRuns,        \* bound on the runs of the job
    MaxFaults       \* bound on failures and on what clients do to the job themselves

ASSUME ScanJobsAssumption == Parts \in Nat /\ MaxRuns \in Nat /\ ScanIds \subseteq Nat \ {0}

VARIABLES
    job,            \* the waf.scan_jobs record
    findings,       \* [ScanIds -> [1..Parts -> rows with that finding]]; 2 is "several"
    calls,          \* [Calls -> the local state of a RunScanJob request]
    scans,          \* [ScanIds -> what the scanner knows of the scan]
    posts,          \* [ScanIds -> the local state of its SubmitFindings request]
    finisher,       \* the scan whose callback last ended a run, or who else did (history)
    overruled,      \* the runs that a client ended with a transition of its own (history)
    faults          \* how many of them so far

vars == <<job, findings, calls, scans, posts, finisher, overruled, faults>>

----------------------------------------------------------------------------
\* ScanJobEntity's workflow: <<action, from, to>>.
Workflow == {<<"run", "idle", "queued">>, <<"run", "completed", "queued">>,
             <<"run", "failed", "queued">>, <<"start", "queued", "running">>,
             <<"complete", "running", "completed">>, <<"fail", "running", "failed">>}

Idle == [step |-> "idle"]
Nobody == 0
Operator == -1

\* "run" is history: how many times the job has been queued.
InitialJob == [status |-> "idle", version |-> 1, run |-> 0]
Unasked == [run |-> 0, tries |-> 0, told |-> FALSE]

\* doTransition succeeds: the job as it is afterwards.
CanMove(version, action) ==
    job.version = version /\ \E to \in {"queued", "running", "completed", "failed"} :
                                 <<action, job.status, to>> \in Workflow

Moved(to) == [status |-> to, version |-> job.version + 1,
              run |-> IF to = "queued" THEN job.run + 1 ELSE job.run]

Goto(c, state) == calls' = [calls EXCEPT ![c] = state]
GotoPost(k, state) == posts' = [posts EXCEPT ![k] = state]

SeveralAtMost(n) == IF n > 2 THEN 2 ELSE n

----------------------------------------------------------------------------
(* RunScanJob. *)

\* The job is loaded; one that is queued or running is refused with a 409.
LoadToRun(c) ==
    /\ calls[c] = Idle
    /\ job.status \notin {"queued", "running"} /\ job.run < MaxRuns
    /\ Goto(c, [step |-> "queue", version |-> job.version])
    /\ UNCHANGED <<job, findings, scans, posts, finisher, overruled, faults>>

DispatchAnyway(c) ==                             \* mutant of QueueJob
    /\ calls[c].step = "queue"
    /\ IF CanMove(calls[c].version, "run") THEN job' = Moved("queued") ELSE UNCHANGED job
    /\ Goto(c, IF HasScanner THEN [step |-> "dispatch", version |-> job'.version, run |-> job'.run]
               ELSE Idle)
    /\ UNCHANGED <<findings, scans, posts, finisher, overruled, faults>>

\* Transition "run"; without a scanner the answer only says that it is queued.
QueueJob(c) ==
    /\ calls[c].step = "queue"
    /\ IF CanMove(calls[c].version, "run")
       THEN /\ job' = Moved("queued")
            /\ Goto(c, IF HasScanner
                       THEN [step |-> "dispatch", version |-> job.version + 1, run |-> job.run + 1]
                       ELSE Idle)
       ELSE Goto(c, Idle) /\ UNCHANGED job
    /\ UNCHANGED <<findings, scans, posts, finisher, overruled, faults>>

\* The scanner takes a scan on, whether or not its answer arrives.  (Scans are
\* numbered as they are asked for.  The run asked for is history: the request
\* names the job only.)
Ask(c) ==
    \E k \in ScanIds :
        /\ scans[k] = Unasked /\ \A j \in ScanIds : j < k => scans[j] # Unasked
        /\ scans' = [scans EXCEPT ![k] = [run |-> calls[c].run, tries |-> 0, told |-> FALSE]]

\* The POST to the scanner is answered with a 2xx.
HandedOver(c) ==
    /\ calls[c].step = "dispatch"
    /\ Ask(c)
    /\ Goto(c, Idle)
    /\ UNCHANGED <<job, findings, posts, finisher, overruled, faults>>

\* It is refused: the job is walked to "failed" with two transitions.
Rejected(c) ==
    /\ calls[c].step = "dispatch" /\ faults < MaxFaults
    /\ faults' = faults + 1
    /\ Goto(c, [step |-> "start", version |-> calls[c].version, run |-> calls[c].run])
    /\ UNCHANGED <<job, findings, scans, posts, finisher, overruled>>

\* It fails or times out, before or after the scanner has it: 502, and the job
\* is left queued.
Unreachable(c) ==
    /\ calls[c].step = "dispatch" /\ faults < MaxFaults
    /\ faults' = faults + 1
    /\ Ask(c) \/ UNCHANGED scans
    /\ Goto(c, Idle)
    /\ UNCHANGED <<job, findings, posts, finisher, overruled>>

\* It was refused: "start", and then "fail" from the version that made.
WalkRejected(c) ==
    /\ \/ /\ calls[c].step = "start" /\ CanMove(calls[c].version, "start")
          /\ job' = Moved("running")
          /\ Goto(c, [step |-> "fail", version |-> job.version + 1, run |-> calls[c].run])
          /\ UNCHANGED finisher
       \/ /\ calls[c].step = "fail" /\ CanMove(calls[c].version, "fail")
          /\ job' = Moved("failed")
          /\ Goto(c, Idle)
          /\ finisher' = Nobody
       \/ /\ calls[c].step \in {"start", "fail"}
          /\ ~ CanMove(calls[c].version, calls[c].step)
          /\ Goto(c, Idle)
          /\ UNCHANGED <<job, finisher>>
    /\ UNCHANGED <<findings, scans, posts, overruled, faults>>

\* A transition fails, or the request breaks off before it: a job that is
\* queued or running is left so.
BreakRun(c) ==
    /\ calls[c].step \in {"queue", "start", "fail"} /\ faults < MaxFaults
    /\ faults' = faults + 1
    /\ Goto(c, Idle)
    /\ UNCHANGED <<job, findings, scans, posts, finisher, overruled>>

----------------------------------------------------------------------------
(* SubmitFindings, for the findings of scan k. *)

\* The scanner posts them, for the first time or again, and the job is loaded.
Post(k) ==
    /\ scans[k] # Unasked /\ ~ scans[k].told /\ posts[k] = Idle
    /\ scans' = [scans EXCEPT ![k].tries = SeveralAtMost(@ + 1)]
    /\ GotoPost(k, [step |-> "create", next |-> 1,
                    status |-> job.status, version |-> job.version])
    /\ UNCHANGED <<job, findings, calls, finisher, overruled, faults>>

SkipFailed(k) ==                                 \* mutant of FailCreate
    /\ posts[k].step = "create" /\ posts[k].next <= Parts /\ faults < MaxFaults
    /\ faults' = faults + 1
    /\ GotoPost(k, [step |-> "create", next |-> posts[k].next + 1,
                    status |-> posts[k].status, version |-> posts[k].version])
    /\ UNCHANGED <<job, findings, calls, scans, finisher, overruled>>

\* The next finding is created ...
CreateFinding(k) ==
    /\ posts[k].step = "create" /\ posts[k].next <= Parts
    /\ findings' = [findings EXCEPT ![k][posts[k].next] = SeveralAtMost(@ + 1)]
    /\ GotoPost(k, [step |-> "create", next |-> posts[k].next + 1,
                    status |-> posts[k].status, version |-> posts[k].version])
    /\ UNCHANGED <<job, calls, scans, finisher, overruled, faults>>

RetryCreate(k) ==                                \* mutant of FailCreate
    /\ posts[k].step = "create" /\ posts[k].next <= Parts /\ faults < MaxFaults
    /\ faults' = faults + 1
    /\ findings' = [findings EXCEPT ![k][posts[k].next] = SeveralAtMost(@ + 1)]
    /\ UNCHANGED <<job, calls, scans, posts, finisher, overruled>>

\* ... or is not, and the request ends there with an error.
FailCreate(k) ==
    /\ posts[k].step = "create" /\ posts[k].next <= Parts /\ faults < MaxFaults
    /\ faults' = faults + 1
    /\ GotoPost(k, Idle)
    /\ UNCHANGED <<job, findings, calls, scans, finisher, overruled>>

FinishQueued(k) ==                               \* mutant of WalkQueued
    /\ posts[k].step = "create" /\ posts[k].next > Parts
    /\ GotoPost(k, [step |-> "finish", version |-> posts[k].version])
    /\ UNCHANGED <<job, findings, calls, scans, finisher, overruled, faults>>

\* A job that was queued when it was loaded is walked through "start" first.
WalkQueued(k) ==
    /\ posts[k].step = "create" /\ posts[k].next > Parts
    /\ IF posts[k].status # "queued"
       THEN GotoPost(k, [step |-> "finish", version |-> posts[k].version]) /\ UNCHANGED job
       ELSE IF CanMove(posts[k].version, "start")
       THEN /\ job' = Moved("running")
            /\ GotoPost(k, [step |-> "finish", version |-> job.version + 1])
       ELSE GotoPost(k, Idle) /\ UNCHANGED job
    /\ UNCHANGED <<findings, calls, scans, finisher, overruled, faults>>

Misnamed(succeeded) == <<"complete", "done">>    \* mutant of Ending

Ending(succeeded) == IF succeeded THEN <<"complete", "completed">> ELSE <<"fail", "failed">>

\* The run is completed, or failed if the scanner says so.
Finish(k, succeeded) ==
    /\ posts[k].step = "finish"
    /\ IF CanMove(posts[k].version, Ending(succeeded)[1])
       THEN /\ job' = Moved(Ending(succeeded)[2])
            /\ finisher' = k
            /\ GotoPost(k, [step |-> "stamp", version |-> job.version + 1])
       ELSE GotoPost(k, Idle) /\ UNCHANGED <<job, finisher>>
    /\ UNCHANGED <<findings, calls, scans, overruled, faults>>

\* lastRunAt is written, and the scanner told: it need not post again.
Stamp(k) ==
    /\ posts[k].step = "stamp"
    /\ IF job.version = posts[k].version
       THEN /\ job' = [status |-> job.status, version |-> job.version + 1, run |-> job.run]
            /\ scans' = [scans EXCEPT ![k].told = TRUE]
       ELSE UNCHANGED <<job, scans>>
    /\ GotoPost(k, Idle)
    /\ UNCHANGED <<findings, calls, finisher, overruled, faults>>

\* The connection breaks: the handler's context ends, or only its answer is lost.
BreakPost(k) ==
    /\ posts[k] # Idle /\ faults < MaxFaults
    /\ faults' = faults + 1
    /\ GotoPost(k, Idle)
    /\ \/ UNCHANGED job
       \/ /\ posts[k].step = "stamp" /\ job.version = posts[k].version
          /\ job' = [status |-> job.status, version |-> job.version + 1, run |-> job.run]
    /\ UNCHANGED <<findings, calls, scans, finisher, overruled>>

----------------------------------------------------------------------------
(* What other clients do to the job. *)

\* The generic transition: "something external ... drives them through
\* start/complete/fail" (scanjob.go), or starts a run without RunScanJob.
OperateJob ==
    /\ faults < MaxFaults
    /\ faults' = faults + 1
    /\ \E t \in Workflow :
        /\ job.status = t[2] /\ (t[1] = "run" => job.run < MaxRuns)
        /\ job' = Moved(t[3])
        /\ IF t[1] \in {"complete", "fail"}
           THEN finisher' = Operator /\ overruled' = overruled \cup {job.run}
           ELSE UNCHANGED <<finisher, overruled>>
    /\ UNCHANGED <<findings, calls, scans, posts>>

\* The portal changes the job's schedule or scan type.
EditJob ==
    /\ faults < MaxFaults
    /\ faults' = faults + 1
    /\ job' = [status |-> job.status, version |-> job.version + 1, run |-> job.run]
    /\ UNCHANGED <<findings, calls, scans, posts, finisher, overruled>>

ScanJobsInit ==
    /\ job = InitialJob
    /\ findings = [k \in ScanIds |-> [i \in 1..Parts |-> 0]]
    /\ calls = [c \in Calls |-> Idle]
    /\ scans = [k \in ScanIds |-> Unasked]
    /\ posts = [k \in ScanIds |-> Idle]
    /\ finisher = Nobody /\ overruled = {}
    /\ faults = 0

RunSteps(c) == QueueJob(c) \/ HandedOver(c) \/ WalkRejected(c)
PostSteps(k) ==
    \/ Post(k) \/ CreateFinding(k) \/ WalkQueued(k) \/ Stamp(k)
    \/ \E succeeded \in BOOLEAN : Finish(k, succeeded)

ScanJobsNext ==
    \/ \E c \in Calls : \/ LoadToRun(c) \/ RunSteps(c)
                       \/ Rejected(c) \/ Unreachable(c) \/ BreakRun(c)
    \/ \E k \in ScanIds : PostSteps(k) \/ FailCreate(k) \/ BreakPost(k)
    \/ OperateJob \/ EditJob

ScanJobsSpec == ScanJobsInit /\ [][ScanJobsNext]_vars

\* Handlers run to their end, and the scanner posts until it is told.
ScanJobsFairness == /\ \A c \in Calls : WF_vars(RunSteps(c))
                    /\ \A k \in ScanIds : WF_vars(PostSteps(k))

ScanJobsFairSpec == ScanJobsSpec /\ ScanJobsFairness

----------------------------------------------------------------------------
(* Properties. *)

ScanJobsTypeOK ==
    /\ job.status \in {"idle", "queued", "running", "completed", "failed"}
    /\ job.run \in 0..MaxRuns
    /\ findings \in [ScanIds -> [1..Parts -> 0..2]]
    /\ \A k \in ScanIds : scans[k].run \in 0..MaxRuns /\ scans[k].tries \in 0..2
    /\ \A k \in ScanIds : posts[k].step = "create" => posts[k].next \in 1..(Parts + 1)

\* A job that a callback completed has every finding of that callback, also when
\* an earlier attempt of it stopped half way; and only a client's own transition
\* completes a job otherwise.
CompletedHasItsFindings ==
    job.status = "completed" =>
        \/ finisher = Operator
        \/ /\ finisher \in ScanIds
           /\ \A i \in 1..Parts : findings[finisher][i] >= 1

\* "a portal user who sees completed always sees the findings that go with it"
\* (SubmitFindings), whoever completed the job.
CompletedShowsFindings ==
    job.status = "completed" => \E k \in ScanIds : \A i \in 1..Parts : findings[k][i] >= 1

\* However many requests find the job ready to run, the scanner is asked for at
\* most one scan per run.
OneScanPerRun ==
    \A j, k \in ScanIds : scans[j].run > 0 /\ scans[j].run = scans[k].run => j = k

Once == \A k \in ScanIds : scans[k].tries <= 1

ClientsLetScansEnd == \A k \in ScanIds : scans[k].run \notin overruled

\* A callback names the job and not the run.  One that comes again after its run
\* ended is taken for the next run's, whose own callback then ends the one after;
\* and so is the first callback of a scan whose run a client ended before it.
\* But the findings of a scan reported once are there once, and while neither has
\* happened each run is ended by its own scan, by the request it was refused to,
\* or by a client.
MixedUpOnlyByRetry ==
    /\ \A k \in ScanIds : scans[k].tries <= 1 => \A i \in 1..Parts : findings[k][i] <= 1
    /\ Once /\ ClientsLetScansEnd =>
            \A k \in ScanIds : job.status \in {"completed", "failed"} /\ finisher = k =>
                job.run = scans[k].run

\* A run whose scan the scanner took on ends, whatever was written to the job or
\* broke in between.
AcceptedScanEndsItsRun ==
    (job.status \in {"queued", "running"} /\ \E k \in ScanIds : scans[k].run = job.run)
        ~> job.status \in {"completed", "failed"}

=============================================================================
