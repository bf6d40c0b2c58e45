------------------------------- MODULE JobLedger -------------------------------
(***************************************************************************)
(* The job store with its callers: any call, in any order, as threads of a *)
(* scheduler would make them (the repository has none).  The ledger is a   *)
(* history variable: it keeps everything that was saved for a job since    *)
(* the job was last removed, and what was last said of its progress.       *)
(***************************************************************************)
EXTENDS JobManager, FiniteSets

CONSTANT MaxSaved   \* bound: results saved since the jobs' last removals

ASSUME LedgerAssumption == MaxSaved \in Nat

VARIABLE ledger     \* job_id -> what the callers did

vars == <<jobVars, ledger>>

Account ==
    [saved    : Seq(JobResult),  \* the results since the last removal
     progress : Int \X Int,      \* as last reported while it was defined
     defined  : BOOLEAN]

NoAccount == [saved |-> <<>>, progress |-> <<0, 0>>, defined |-> FALSE]

LedgerInit == Init /\ ledger = [j \in Jobs |-> NoAccount]

CallAddOrUpdate(j, info) ==
    /\ AddOrUpdateJob(j, info)
    /\ ledger' = [ledger EXCEPT ![j].defined = TRUE]

CallRemove(j) ==
    /\ RemoveJob(j)
    /\ ledger' = [ledger EXCEPT ![j] = NoAccount]

Saved == Cardinality({x \in Jobs \X (1..MaxSaved) : x[2] <= Len(ledger[x[1]].saved)})

CallSave(j, result) ==
    /\ Saved < MaxSaved
    /\ SaveJobResult(j, result)
    /\ ledger' = [ledger EXCEPT ![j].saved = Append(@, result)]

CallUpdateProgress(j, finished, total) ==
    /\ UpdateTaskProgress(j, finished, total)
    /\ ledger' = [ledger EXCEPT ![j].progress =
                    IF ledger[j].defined THEN <<finished, total>> ELSE @]

CallGet ==
    /\ \/ \E j \in Jobs : GetJob(j) \/ GetTaskProgress(j)
       \/ \E j \in Jobs, n \in MaxCounts : GetJobResults(j, n)
       \/ GetAllEnableJobs
       \/ \E node \in Nodes : GetUnfinishedSlicesForNode(node)
    /\ UNCHANGED ledger

Next ==
    \/ \E j \in Jobs, info \in JobInfo : CallAddOrUpdate(j, info)
    \/ \E j \in Jobs : CallRemove(j)
    \/ \E j \in Jobs, result \in JobResult : CallSave(j, result)
    \/ \E j \in Jobs, finished, total \in Counts : CallUpdateProgress(j, finished, total)
    \/ CallGet

Spec == LedgerInit /\ [][Next]_vars

-----------------------------------------------------------------------------
(***************************************************************************)
(* The state is of its type; definitions and progress exist for the same   *)
(* jobs, results for jobs that may have neither.                           *)
(***************************************************************************)
TypeOK ==
    /\ m_jobs \in [DOMAIN m_jobs -> JobInfo]
    /\ m_job_results \in [DOMAIN m_job_results -> Seq(JobResult)]
    /\ m_job_progress \in [DOMAIN m_jobs -> Int \X Int]
    /\ ledger \in [Jobs -> Account]
    /\ DOMAIN m_jobs = {j \in Jobs : ledger[j].defined}
    /\ DOMAIN m_job_results \subseteq Jobs

\* The last n of a sequence, or all of it if it is shorter.
Newest(s, n) == IF Len(s) <= n THEN s ELSE SubSeq(s, Len(s) - n + 1, Len(s))

Kept(j) == Newest(ledger[j].saved, MaxResultsPerJob)

(***************************************************************************)
(* The store holds the newest results of a job, in order and without a     *)
(* gap, however saves, removals, updates and a full store came together:   *)
(* an entry exists exactly if something was saved since the removal.       *)
(***************************************************************************)
ResultsNewest ==
    /\ DOMAIN m_job_results = {j \in Jobs : ledger[j].saved # <<>>}
    /\ \A j \in DOMAIN m_job_results : m_job_results[j] = Kept(j)

(***************************************************************************)
(* Progress is what was last reported of a defined job: an update of the   *)
(* definition keeps it, a removal does not.                                *)
(***************************************************************************)
ProgressExact ==
    /\ ret.call = "GetTaskProgress" => ret.progress = ledger[ret.job].progress
    /\ ret.call = "GetJob" => (ret.info = <<>> <=> ~ledger[ret.job].defined)

\* Results are the newest max_count.
ResultsExact ==
    ret.call = "GetJobResults" =>
        ret.results = Newest(Kept(ret.job),
                             IF ret.max_count > 0 THEN ret.max_count
                             ELSE MaxResultsPerJob)

(***************************************************************************)
(* What GetJob, GetTaskProgress and GetJobResults return, judged by what   *)
(* callers did.                                                            *)
(***************************************************************************)
AnswersExact == ProgressExact /\ ResultsExact

\* The slices of a job with a stored result like these.
Stored(j, results) ==
    {s \in Slices : \E i \in DOMAIN Kept(j) :
                      Kept(j)[i] \in results /\ Kept(j)[i].slice_id = s}

Successes == {r \in JobResult : r.success}
Failed == {r \in JobResult : ~r.success}
FailedOn(node) == {r \in Failed : r.node_id = node}

Offered(j) ==
    IF j \in DOMAIN ret.unfinished
      THEN {ret.unfinished[j][i].slice_id : i \in DOMAIN ret.unfinished[j]} ELSE {}

(***************************************************************************)
(* GetUnfinishedSlicesForNode leaves out no slice that failed on the node  *)
(* and succeeded nowhere, and offers none that succeeded and never failed, *)
(* by the results the store still holds (JobManager.cpp:149).  A slice     *)
(* with results of both kinds, or with none, is not spoken of.             *)
(***************************************************************************)
RetriesOffered ==
    ret.call = "GetUnfinishedSlicesForNode" =>
        \A j \in Jobs :
            /\ Stored(j, FailedOn(ret.node)) \ Stored(j, Successes) \subseteq Offered(j)
            /\ Offered(j) \cap Stored(j, Successes) \subseteq Stored(j, Failed)

=============================================================================
