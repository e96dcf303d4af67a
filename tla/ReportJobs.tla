------------------------------ MODULE ReportJobs ------------------------------
(***************************************************************************)
(* Reports rendered off the request thread                                 *)
(* (crates/nebula/src/reporting.rs): the row of a job in the database, its *)
(* message on the queue, the worker that renders it, the artifact in the   *)
(* private store, and the pruner that expires old jobs.  No two of the     *)
(* four share a transaction.                                               *)
(***************************************************************************)
EXTENDS Naturals

CONSTANTS
    Jobs,
    Formats,    \* the house formats
    None,
    MaxRuns,    \* bound: how often a job is delivered
    MaxFaults   \* bound: failed writes and dead workers

VARIABLES
    row,        \* row[j] in report_jobs
    message,    \* message[j] on the queue
    run,        \* run[j]: the delivery in hand
    runs,       \* runs[j]: deliveries so far
    files,      \* the artifacts in the private store
    house,      \* report_settings.default_format
    expired,    \* the jobs older than the retention
    sweep,      \* what a pass of the pruner has read
    faults,
    loose,      \* the jobs a fault or an early pruning cut an artifact loose of
    unrecorded  \* the jobs whose failure could not be recorded

vars == << row, message, run, runs, files, house, expired, sweep, faults, loose, unrecorded >>

File(j, n, format) == [job |-> j, run |-> n, format |-> format]
Artifacts == [job : Jobs, run : 1..MaxRuns, format : Formats]

NoRow == [status |-> "none", file_path |-> None]
NoRun == [step |-> "idle", stored |-> None]

TypeOK ==
    /\ row \in [Jobs -> [status : {"none", "queued", "running", "completed", "failed"},
                         file_path : Artifacts \cup {None}]]
    /\ message \in [Jobs -> {"none", "queued", "taken", "done", "dead"}]
    /\ run \in [Jobs -> [step : {"idle", "render", "stored", "settled"}, stored : Artifacts \cup {None}]]
    /\ runs \in [Jobs -> 0..MaxRuns]
    /\ files \subseteq Artifacts
    /\ house \in Formats \cup {None}
    /\ expired \subseteq Jobs /\ loose \subseteq Jobs /\ unrecorded \subseteq Jobs
    /\ sweep \in [Jobs -> {"no", "read", "removed"} \X (Artifacts \cup {None})]
    /\ faults \in 0..MaxFaults

Init ==
    /\ row = [j \in Jobs |-> NoRow]
    /\ message = [j \in Jobs |-> "none"]
    /\ run = [j \in Jobs |-> NoRun]
    /\ runs = [j \in Jobs |-> 0]
    /\ files = {} /\ house = None
    /\ expired = {} /\ loose = {} /\ unrecorded = {}
    /\ sweep = [j \in Jobs |-> << "no", None >>]
    /\ faults = 0

Fault == faults < MaxFaults /\ faults' = faults + 1

----------------------------------------------------------------------------
(* The request: a row, then a message.                                     *)

enqueue_job(j) ==
    /\ row[j] = NoRow /\ message[j] = "none" /\ j \notin expired
    /\ row' = [row EXCEPT ![j].status = "queued"]
    /\ UNCHANGED << message, run, runs, files, house, expired, sweep, faults, loose, unrecorded >>

\* The push fails, or the server dies before it: the row stays queued.
push(j) ==
    /\ row[j].status # "none" /\ message[j] = "none"
    /\ \/ message' = [message EXCEPT ![j] = "queued"] /\ UNCHANGED faults
       \/ message' = [message EXCEPT ![j] = "dead"] /\ Fault
    /\ UNCHANGED << row, run, runs, files, house, expired, sweep, loose, unrecorded >>

put_settings(format) ==
    /\ house # format
    /\ house' = format
    /\ UNCHANGED << row, message, run, runs, files, expired, sweep, faults, loose, unrecorded >>

----------------------------------------------------------------------------
(* The worker.                                                             *)

Exists(j) == row[j].status # "none"

\* A job whose row cannot be marked running is rendered all the same.
mark_running(j) ==
    /\ message[j] = "queued" /\ runs[j] < MaxRuns
    /\ message' = [message EXCEPT ![j] = "taken"]
    /\ run' = [run EXCEPT ![j].step = "render"]
    /\ runs' = [runs EXCEPT ![j] = @ + 1]
    /\ \/ row' = (IF Exists(j) THEN [row EXCEPT ![j].status = "running"] ELSE row) /\ UNCHANGED faults
       \/ UNCHANGED row /\ Fault
    /\ UNCHANGED << files, house, expired, sweep, loose, unrecorded >>

\* The caller's format, else the house's, else the report's own.
effective(asked, own) == IF asked # None THEN asked ELSE IF house # None THEN house ELSE own

\* MUTANT of render_store: the artifact is written when the row already says so.
render_store_Settles(j) ==
    /\ run[j].step = "render"
    /\ \E asked \in Formats \cup {None}, own \in Formats :
         LET f == File(j, runs[j], effective(asked, own)) IN
           /\ row' = IF Exists(j) THEN [row EXCEPT ![j] = [status |-> "completed", file_path |-> f]] ELSE row
           /\ run' = [run EXCEPT ![j] = [step |-> "stored", stored |-> f]]
    /\ UNCHANGED << message, runs, files, house, expired, sweep, faults, loose, unrecorded >>

render_store(j) ==
    /\ run[j].step = "render"
    /\ \E asked \in Formats \cup {None}, own \in Formats :
         LET f == File(j, runs[j], effective(asked, own)) IN
           /\ files' = files \cup {f}
           /\ run' = [run EXCEPT ![j] = [step |-> "stored", stored |-> f]]
    /\ UNCHANGED << row, message, runs, house, expired, sweep, faults, loose, unrecorded >>

mark_completed(j) ==
    /\ run[j].step = "stored"
    /\ row' = IF Exists(j) THEN [row EXCEPT ![j] = [status |-> "completed", file_path |-> run[j].stored]] ELSE row
    /\ run' = [run EXCEPT ![j].step = "settled"]
    /\ UNCHANGED << message, runs, files, house, expired, sweep, faults, loose, unrecorded >>

\* MUTANT of render_failed: the failure is swallowed and not recorded.
render_failed_Swallowed(j) ==
    /\ run[j].step = "render"
    /\ run' = [run EXCEPT ![j].step = "settled"]
    /\ UNCHANGED << row, message, runs, files, house, expired, sweep, faults, loose, unrecorded >>

\* A report that cannot be built is recorded as failed and not tried again; a
\* failure to record it is only logged.
render_failed(j) ==
    /\ run[j].step = "render"
    /\ \/ /\ row' = IF Exists(j) THEN [row EXCEPT ![j].status = "failed"] ELSE row
          /\ UNCHANGED << faults, unrecorded >>
       \/ /\ UNCHANGED row /\ Fault
          /\ unrecorded' = unrecorded \cup {j}
    /\ run' = [run EXCEPT ![j].step = "settled"]
    /\ UNCHANGED << message, runs, files, house, expired, sweep, loose >>

acknowledge(j) ==
    /\ run[j].step = "settled"
    /\ message' = [message EXCEPT ![j] = "done"]
    /\ run' = [run EXCEPT ![j] = NoRun]
    /\ UNCHANGED << row, runs, files, house, expired, sweep, faults, loose, unrecorded >>

\* A write that fails ends the run with an error, and a worker dies; the queue
\* delivers the job again, or gives it up.
interrupted(j) ==
    /\ run[j].step # "idle" /\ Fault
    /\ \E m \in {"queued", "dead"} :
         /\ m = "queued" => runs[j] < MaxRuns
         /\ message' = [message EXCEPT ![j] = m]
    /\ run' = [run EXCEPT ![j] = NoRun]
    /\ loose' = IF run[j].stored # None THEN loose \cup {j} ELSE loose
    /\ UNCHANGED << row, runs, files, house, expired, sweep, unrecorded >>

----------------------------------------------------------------------------
(* The pruner.                                                             *)

age(j) ==
    /\ Exists(j) /\ j \notin expired
    /\ expired' = expired \cup {j}
    /\ UNCHANGED << row, message, run, runs, files, house, sweep, faults, loose, unrecorded >>

\* One pass reads the expired rows with their artifacts.
sweep_read ==
    /\ \A j \in Jobs : sweep[j][1] = "no"
    /\ expired # {}
    /\ sweep' = [j \in Jobs |-> IF j \in expired /\ Exists(j) THEN << "read", row[j].file_path >> ELSE << "no", None >>]
    /\ loose' = loose \cup { j \in expired : message[j] \in {"none", "queued", "taken"} }
    /\ UNCHANGED << row, message, run, runs, files, house, expired, faults, unrecorded >>

\* What becomes of the row of an artifact that cannot be removed.
Keeps == "no"

remove_private(j) ==
    /\ sweep[j][1] = "read"
    /\ \/ files' = files \ {sweep[j][2]} /\ sweep' = [sweep EXCEPT ![j][1] = "removed"] /\ UNCHANGED faults
       \/ sweep[j][2] # None /\ UNCHANGED files /\ sweep' = [sweep EXCEPT ![j][1] = Keeps] /\ Fault
    /\ UNCHANGED << row, message, run, runs, house, expired, loose, unrecorded >>

delete(j) ==
    /\ sweep[j][1] = "removed"
    /\ row' = [row EXCEPT ![j] = NoRow]
    /\ sweep' = [sweep EXCEPT ![j] = << "no", None >>]
    /\ UNCHANGED << message, run, runs, files, house, expired, faults, loose, unrecorded >>

----------------------------------------------------------------------------

Worker(j) == mark_running(j) \/ render_store(j) \/ mark_completed(j) \/ render_failed(j) \/ acknowledge(j)

Next ==
    \/ \E j \in Jobs : enqueue_job(j) \/ push(j) \/ Worker(j) \/ interrupted(j)
                       \/ age(j) \/ remove_private(j) \/ delete(j)
    \/ \E format \in Formats \cup {None} : put_settings(format)
    \/ sweep_read

Fairness == \A j \in Jobs : WF_vars(Worker(j))

Spec == Init /\ [][Next]_vars /\ Fairness

----------------------------------------------------------------------------

\* A job that is completed can be downloaded, unless its artifact was just
\* removed by the pruner; and an artifact on disk is always one that its row
\* leads to or a run is about to record - nothing piles up that no pass of the
\* pruner would find - unless a delivery was interrupted after it stored the
\* artifact, or the pruner read the row of a job whose delivery was not over.
ArtifactsTie ==
    /\ \A j \in Jobs \ expired : row[j].status = "completed" => row[j].file_path \in files
    /\ \A f \in files : f.job \in loose \/ row[f.job].file_path = f \/ run[f.job].stored = f

Queued(j) == message[j] = "queued"
Settled(j) == row[j].status \in {"completed", "failed", "none"} \/ message[j] = "dead" \/ j \in unrecorded

\* A job that reached the queue is settled, unless the queue gave it up or the
\* failure could not be recorded.
JobsSettle == \A j \in Jobs : Queued(j) ~> Settled(j)

=============================================================================
