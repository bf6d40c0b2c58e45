------------------------------- MODULE JobManager -------------------------------
(***************************************************************************)
(* The job store (AiDist/7.  JobManager.cpp): definitions, results and     *)
(* progress of the inference jobs, in three maps.  Every method holds      *)
(* m_mtx for its whole body, so each is one action.                        *)
(*                                                                         *)
(* A JobInfo is its status and everything else as one value; a JobResult   *)
(* is what the store looks at: node, slice and success.  What an iteration *)
(* over an unordered_map returns is kept per job, without an order of the  *)
(* jobs.                                                                   *)
(***************************************************************************)
EXTENDS Integers, Sequences

CONSTANTS
    Jobs,           \* job ids
    Definitions,    \* what a definition says apart from its status
    Nodes, Slices,  \* ids of worker nodes and of slices
    Counts,         \* finished and total slices that callers report
    MaxCounts,      \* the max_count that callers ask for
    MaxResultsPerJob

ASSUME JobAssumption ==
    /\ Counts \subseteq Int
    /\ MaxCounts \subseteq Int
    /\ MaxResultsPerJob \in Nat \ {0}

JobInfo == [status : {"Enabled", "Disabled"}, rest : Definitions]
JobResult == [node_id : Nodes, slice_id : Slices, success : BOOLEAN]

VARIABLES
    m_jobs,         \* job_id -> definition
    m_job_results,  \* job_id -> results, the oldest first
    m_job_progress, \* job_id -> <<finished, total>>
    ret             \* what the last call returned to its caller

jobVars == <<m_jobs, m_job_results, m_job_progress, ret>>

NoReturn == [call |-> "none"]

\* map[key] = value
Put(map, key, value) ==
    [k \in DOMAIN map \cup {key} |-> IF k = key THEN value ELSE map[k]]
Erase(map, key) == [k \in DOMAIN map \ {key} |-> map[k]]

Init ==
    /\ m_jobs = [j \in {} |-> NoReturn]
    /\ m_job_results = [j \in {} |-> <<>>]
    /\ m_job_progress = [j \in {} |-> <<0, 0>>]
    /\ ret = NoReturn

\* Faulty: an update starts the progress afresh.
AddOrUpdateJobResets(j, info) ==
    /\ m_jobs' = Put(m_jobs, j, info)
    /\ m_job_progress' = Put(m_job_progress, j, <<0, 0>>)
    /\ ret' = NoReturn
    /\ UNCHANGED m_job_results

\* A new job starts with no progress; an update keeps what there is.
AddOrUpdateJob(j, info) ==
    /\ m_jobs' = Put(m_jobs, j, info)
    /\ m_job_progress' = IF j \in DOMAIN m_jobs THEN m_job_progress
                         ELSE Put(m_job_progress, j, <<0, 0>>)
    /\ ret' = NoReturn
    /\ UNCHANGED m_job_results

RemoveJob(j) ==
    /\ m_jobs' = Erase(m_jobs, j)
    /\ m_job_results' = Erase(m_job_results, j)
    /\ m_job_progress' = Erase(m_job_progress, j)
    /\ ret' = NoReturn

\* An unknown job gives a default JobInfo.
GetJob(j) ==
    /\ ret' = [call |-> "GetJob", job |-> j,
               info |-> IF j \in DOMAIN m_jobs THEN <<m_jobs[j]>> ELSE <<>>]
    /\ UNCHANGED <<m_jobs, m_job_results, m_job_progress>>

GetAllEnableJobs ==
    /\ ret' = [call |-> "GetAllEnableJobs",
               jobs |-> {j \in DOMAIN m_jobs : m_jobs[j].status = "Enabled"}]
    /\ UNCHANGED <<m_jobs, m_job_results, m_job_progress>>

\* Faulty: what is over the limit is dropped at the wrong end.
TrimmedAtEnd(results) ==
    IF Len(results) > MaxResultsPerJob THEN SubSeq(results, 1, MaxResultsPerJob)
    ELSE results

\* Only the newest results stay.
Trimmed(results) ==
    IF Len(results) > MaxResultsPerJob
      THEN SubSeq(results, Len(results) - MaxResultsPerJob + 1, Len(results))
      ELSE results

\* m_job_results[job_id] creates the entry, whether or not there is such a job.
SaveJobResult(j, result) ==
    LET results == IF j \in DOMAIN m_job_results THEN m_job_results[j] ELSE <<>> IN
    /\ m_job_results' = Put(m_job_results, j, Trimmed(Append(results, result)))
    /\ ret' = NoReturn
    /\ UNCHANGED <<m_jobs, m_job_progress>>

\* Faulty: the test of max_count comes too late, a count of 0 gives nothing.
RecentZeroIsNone(results, max_count) ==
    IF Len(results) <= max_count \/ max_count < 0 THEN results
    ELSE SubSeq(results, Len(results) - max_count + 1, Len(results))

\* The newest max_count results; all of them if max_count is not positive (as an
\* unsigned number a negative one is larger than any size).
Recent(results, max_count) ==
    IF Len(results) <= max_count \/ max_count <= 0 THEN results
    ELSE SubSeq(results, Len(results) - max_count + 1, Len(results))

GetJobResults(j, max_count) ==
    /\ ret' = [call |-> "GetJobResults", job |-> j, max_count |-> max_count,
               results |-> IF j \in DOMAIN m_job_results
                             THEN Recent(m_job_results[j], max_count) ELSE <<>>]
    /\ UNCHANGED <<m_jobs, m_job_results, m_job_progress>>

\* Faulty: m_job_progress[job_id] without the look-up of the job.
UpdateTaskProgressUnknown(j, finished, total) ==
    /\ m_job_progress' = Put(m_job_progress, j, <<finished, total>>)
    /\ ret' = NoReturn
    /\ UNCHANGED <<m_jobs, m_job_results>>

UpdateTaskProgress(j, finished, total) ==
    /\ m_job_progress' = IF j \in DOMAIN m_jobs
                           THEN Put(m_job_progress, j, <<finished, total>>)
                           ELSE m_job_progress
    /\ ret' = NoReturn
    /\ UNCHANGED <<m_jobs, m_job_results>>

GetTaskProgress(j) ==
    /\ ret' = [call |-> "GetTaskProgress", job |-> j,
               progress |-> IF j \in DOMAIN m_job_progress
                              THEN m_job_progress[j] ELSE <<0, 0>>]
    /\ UNCHANGED <<m_jobs, m_job_results, m_job_progress>>

\* Faulty: the result is not looked at.
FailuresAndSuccesses(node) == {r \in JobResult : r.node_id = node}

\* The failures on a node among a job's results, repeated as often as they happened.
Failures(node) == {r \in JobResult : r.node_id = node /\ ~r.success}
Unfinished(results, node) ==
    LET upTo[i \in 0..Len(results)] ==
          IF i = 0 THEN <<>>
          ELSE IF results[i] \in Failures(node) THEN Append(upTo[i - 1], results[i])
          ELSE upTo[i - 1]
    IN upTo[Len(results)]

GetUnfinishedSlicesForNode(node) ==
    /\ ret' = [call |-> "GetUnfinishedSlicesForNode", node |-> node,
               unfinished |-> [j \in DOMAIN m_job_results |->
                                 Unfinished(m_job_results[j], node)]]
    /\ UNCHANGED <<m_jobs, m_job_results, m_job_progress>>

=============================================================================
