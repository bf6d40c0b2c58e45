---------------------------- MODULE JobLedgerProofs ----------------------------
(***************************************************************************)
(* Proofs about the job store and its callers, for any sets of jobs,       *)
(* definitions, nodes and slices, and any limit of results per job.        *)
(***************************************************************************)
EXTENDS JobLedger, SequenceTheorems, WellFoundedInduction, TLAPS

(***************************************************************************)
(* ResultsNewest is inductive with the types, since what Trimmed drops     *)
(* from a full store is what a longer history no longer has among its      *)
(* newest.  For the answers it takes the same of progress.                 *)
(***************************************************************************)
ProgressKept ==
    \A j \in Jobs :
        ledger[j].progress = IF ledger[j].defined THEN m_job_progress[j] ELSE <<0, 0>>

IInv == TypeOK /\ ResultsNewest /\ ProgressKept

(***************************************************************************)
(* The newest of a longer sequence: how many, and which.                   *)
(***************************************************************************)
LEMMA NewestOfLonger ==
    ASSUME NEW S, NEW s \in Seq(S), NEW n \in Nat \ {0}, Len(s) > n
    PROVE  /\ Newest(s, n) \in Seq(S)
           /\ Len(Newest(s, n)) = n
           /\ \A i \in 1..n : Newest(s, n)[i] = s[Len(s) - n + i]
BY DEF Newest

(***************************************************************************)
(* Trimmed is Newest with the limit of the store.                          *)
(***************************************************************************)
LEMMA TrimmedIsNewest ==
    ASSUME NEW S, NEW s \in Seq(S)
    PROVE  Trimmed(s) = Newest(s, MaxResultsPerJob)
BY JobAssumption DEF Trimmed, Newest

(***************************************************************************)
(* Saving commutes with trimming: the newest of the longer history are the *)
(* newest of the newest so far and the new one.                            *)
(***************************************************************************)
LEMMA NewestAppend ==
    ASSUME NEW S, NEW s \in Seq(S), NEW e \in S, NEW n \in Nat \ {0}
    PROVE  Newest(Append(Newest(s, n), e), n) = Newest(Append(s, e), n)
<1> DEFINE k == Newest(s, n)
           l == Newest(Append(k, e), n)
           r == Newest(Append(s, e), n)
<1>1. k \in Seq(S) /\ Append(s, e) \in Seq(S) /\ Len(Append(s, e)) = Len(s) + 1
  BY DEF Newest
<1>2. CASE Len(s) <= n
  BY <1>2 DEF Newest
<1>3. CASE Len(s) > n
  <2>1. Len(k) = n /\ \A i \in 1..n : k[i] = s[Len(s) - n + i]
    BY <1>3, NewestOfLonger
  <2>2. Append(k, e) \in Seq(S) /\ Len(Append(k, e)) = n + 1
    BY <1>1, <2>1
  <2>3. /\ l \in Seq(S) /\ Len(l) = n
        /\ \A i \in 1..n : l[i] = Append(k, e)[Len(Append(k, e)) - n + i]
    <3>1. Len(Append(k, e)) > n
      BY <2>2
    <3> HIDE DEF k
    <3> QED
      BY <2>2, <3>1, NewestOfLonger
  <2>4. /\ r \in Seq(S) /\ Len(r) = n
        /\ \A i \in 1..n : r[i] = Append(s, e)[Len(Append(s, e)) - n + i]
    <3>1. Len(Append(s, e)) > n
      BY <1>1, <1>3
    <3> QED
      BY <1>1, <3>1, NewestOfLonger
  <2>5. ASSUME NEW i \in 1..n PROVE l[i] = r[i]
    <3>1. l[i] = Append(k, e)[1 + i] /\ r[i] = Append(s, e)[Len(s) + 1 - n + i]
      <4>1. Len(Append(k, e)) - n + i = 1 + i
        BY <2>2
      <4>2. Len(Append(s, e)) - n + i = Len(s) + 1 - n + i
        BY <1>1
      <4> QED
        BY <2>3, <2>4, <4>1, <4>2
    <3>2. CASE i = n
      BY <1>1, <2>1, <3>1, <3>2
    <3>3. CASE i < n
      <4>1. 1 + i \in 1..n /\ Len(s) + 1 - n + i \in 1..Len(s)
        BY <1>3, <3>3
      <4>2. Append(k, e)[1 + i] = k[1 + i]
        BY <1>1, <2>1, <4>1
      <4>3. Append(s, e)[Len(s) + 1 - n + i] = s[Len(s) + 1 - n + i]
        BY <4>1
      <4>4. k[1 + i] = s[Len(s) - n + (1 + i)]
        BY <2>1, <4>1
      <4>5. Len(s) - n + (1 + i) = Len(s) + 1 - n + i
        OBVIOUS
      <4> QED
        BY <3>1, <4>2, <4>3, <4>4, <4>5
    <3> QED
      BY <3>2, <3>3
  <2> QED
    BY <2>3, <2>4, <2>5
<1> QED
  BY <1>2, <1>3

(***************************************************************************)
(* The store starts empty.                                                 *)
(***************************************************************************)
LEMMA LedgerInitIInv == LedgerInit => IInv
<1> SUFFICES ASSUME LedgerInit PROVE IInv
  OBVIOUS
<1>1. /\ DOMAIN m_jobs = {} /\ DOMAIN m_job_results = {} /\ DOMAIN m_job_progress = {}
      /\ \A j \in Jobs : ledger[j] = NoAccount
  BY DEF LedgerInit, Init
<1>2. NoAccount \in Account
  BY DEF NoAccount, Account
<1>3. TypeOK
  <2>1. m_jobs \in [DOMAIN m_jobs -> JobInfo]
    BY <1>1 DEF LedgerInit, Init
  <2>2. m_job_results \in [DOMAIN m_job_results -> Seq(JobResult)]
    BY <1>1 DEF LedgerInit, Init
  <2>3. m_job_progress \in [DOMAIN m_jobs -> Int \X Int]
    BY <1>1 DEF LedgerInit, Init
  <2> QED
    BY <1>1, <1>2, <2>1, <2>2, <2>3 DEF TypeOK, LedgerInit, NoAccount
<1>4. ResultsNewest /\ ProgressKept
  BY <1>1 DEF ResultsNewest, ProgressKept, NoAccount
<1> QED
  BY <1>3, <1>4 DEF IInv

(***************************************************************************)
(* Defining a job or changing its definition touches no results.           *)
(***************************************************************************)
LEMMA AddKeepsIInv ==
    ASSUME IInv, NEW j \in Jobs, NEW info \in JobInfo, CallAddOrUpdate(j, info)
    PROVE  IInv'
<1> USE DEF CallAddOrUpdate, AddOrUpdateJob, Put, Erase, IInv
<1>1. ledger' \in [Jobs -> Account] /\ \A i \in Jobs : ledger'[i].saved = ledger[i].saved
  BY DEF TypeOK, Account
<1>2. \A i \in Jobs : /\ ledger'[i].defined = (i = j \/ ledger[i].defined)
                      /\ ledger'[i].progress = ledger[i].progress
  BY DEF TypeOK, Account
<1>3. DOMAIN m_jobs' = DOMAIN m_jobs \cup {j}
  OBVIOUS
<1>4. /\ m_job_progress' \in [DOMAIN m_jobs' -> Int \X Int]
      /\ \A i \in DOMAIN m_jobs : m_job_progress'[i] = m_job_progress[i]
      /\ j \notin DOMAIN m_jobs => m_job_progress'[j] = <<0, 0>>
  BY <1>3 DEF TypeOK
<1>5. TypeOK'
  <2>1. m_jobs' \in [DOMAIN m_jobs' -> JobInfo]
    BY DEF TypeOK
  <2>2. DOMAIN m_jobs' = {i \in Jobs : ledger'[i].defined}
    BY <1>2, <1>3 DEF TypeOK
  <2> QED
    BY <1>1, <1>4, <2>1, <2>2 DEF TypeOK
<1>6. ResultsNewest'
  BY <1>1 DEF ResultsNewest, Kept
<1>7. ProgressKept'
  BY <1>2, <1>4 DEF TypeOK, ProgressKept
<1> QED
  BY <1>5, <1>6, <1>7

(***************************************************************************)
(* A removal takes all there is of the job, in the store and the ledger.   *)
(***************************************************************************)
LEMMA RemoveKeepsIInv ==
    ASSUME IInv, NEW j \in Jobs, CallRemove(j)
    PROVE  IInv'
<1> USE DEF CallRemove, RemoveJob, Erase, IInv
<1>1. /\ ledger' \in [Jobs -> Account] /\ ledger'[j] = NoAccount
      /\ \A i \in Jobs \ {j} : ledger'[i] = ledger[i]
  BY DEF TypeOK, Account, NoAccount
<1>2. /\ DOMAIN m_jobs' = DOMAIN m_jobs \ {j}
      /\ DOMAIN m_job_results' = DOMAIN m_job_results \ {j}
      /\ DOMAIN m_job_progress' = DOMAIN m_job_progress \ {j}
  OBVIOUS
<1>3. TypeOK'
  <2>1. m_jobs' \in [DOMAIN m_jobs' -> JobInfo]
    BY DEF TypeOK
  <2>2. m_job_results' \in [DOMAIN m_job_results' -> Seq(JobResult)]
    BY DEF TypeOK
  <2>3. m_job_progress' \in [DOMAIN m_jobs' -> Int \X Int]
    BY <1>2 DEF TypeOK
  <2>4. DOMAIN m_jobs' = {i \in Jobs : ledger'[i].defined}
    BY <1>1, <1>2 DEF TypeOK, NoAccount
  <2> QED
    BY <1>1, <1>2, <2>1, <2>2, <2>3, <2>4 DEF TypeOK
<1>4. ResultsNewest'
  BY <1>1, <1>2 DEF ResultsNewest, Kept, NoAccount
<1>5. ProgressKept'
  BY <1>1 DEF TypeOK, ProgressKept, NoAccount
<1> QED
  BY <1>3, <1>4, <1>5

(***************************************************************************)
(* A result is saved at the end of its job's results, the oldest make room.*)
(***************************************************************************)
LEMMA SaveKeepsIInv ==
    ASSUME IInv, NEW j \in Jobs, NEW result \in JobResult, CallSave(j, result)
    PROVE  IInv'
<1> DEFINE old == IF j \in DOMAIN m_job_results THEN m_job_results[j] ELSE <<>>
           new == Trimmed(Append(old, result))
<1> USE DEF CallSave, SaveJobResult, Put, IInv
<1>1. /\ ledger[j].saved \in Seq(JobResult)
      /\ ledger' \in [Jobs -> Account]
      /\ \A i \in Jobs \ {j} : ledger'[i] = ledger[i]
      /\ ledger'[j].saved = Append(ledger[j].saved, result)
      /\ ledger'[j].defined = ledger[j].defined
      /\ ledger'[j].progress = ledger[j].progress
  <2>1. ledger[j] \in Account /\ ledger[j].saved \in Seq(JobResult)
    BY DEF TypeOK, Account
  <2>2. ledger' = [ledger EXCEPT ![j] = [ledger[j] EXCEPT !.saved = Append(@, result)]]
    BY DEF TypeOK
  <2>3. Append(ledger[j].saved, result) \in Seq(JobResult)
    BY <2>1
  <2>4. [ledger[j] EXCEPT !.saved = Append(@, result)] \in Account
    BY <2>1, <2>3 DEF Account
  <2> QED
    BY <2>1, <2>2, <2>4 DEF TypeOK, Account
<1>2. old = Kept(j) /\ old \in Seq(JobResult)
  <2>1. CASE j \in DOMAIN m_job_results
    BY <2>1 DEF ResultsNewest, TypeOK
  <2>2. CASE j \notin DOMAIN m_job_results
    BY <2>2, JobAssumption DEF ResultsNewest, Kept, Newest
  <2> QED
    BY <2>1, <2>2
<1>3. new = Kept(j)' /\ new \in Seq(JobResult)
  <2>1. Append(old, result) \in Seq(JobResult)
    BY <1>2
  <2>2. new = Newest(Append(old, result), MaxResultsPerJob) /\ new \in Seq(JobResult)
    <3> HIDE DEF old
    <3>1. new = Newest(Append(old, result), MaxResultsPerJob)
      BY <2>1, TrimmedIsNewest
    <3>2. new \in Seq(JobResult)
      BY <2>1, JobAssumption DEF Trimmed
    <3> QED
      BY <3>1, <3>2
  <2>3. Newest(Append(old, result), MaxResultsPerJob)
          = Newest(Append(ledger[j].saved, result), MaxResultsPerJob)
    BY <1>1, <1>2, NewestAppend, JobAssumption DEF Kept
  <2> QED
    BY <1>1, <2>1, <2>2, <2>3 DEF Kept
<1>4. /\ DOMAIN m_job_results' = DOMAIN m_job_results \cup {j}
      /\ m_job_results'[j] = new
      /\ \A i \in DOMAIN m_job_results \ {j} : m_job_results'[i] = m_job_results[i]
  OBVIOUS
<1>5. TypeOK'
  <2>1. m_job_results' \in [DOMAIN m_job_results' -> Seq(JobResult)]
    BY <1>3, <1>4 DEF TypeOK
  <2>2. DOMAIN m_jobs' = {i \in Jobs : ledger'[i].defined}
    BY <1>1 DEF TypeOK
  <2> QED
    BY <1>1, <1>4, <2>1, <2>2 DEF TypeOK
<1>6. ResultsNewest'
  <2>1. Append(ledger[j].saved, result) # <<>>
    <3>1. ledger[j].saved \in Seq(JobResult)
      BY <1>1
    <3> QED
      BY <3>1, AppendProperties
  <2>2. DOMAIN m_job_results' = {i \in Jobs : ledger'[i].saved # <<>>}
    BY <1>1, <1>4, <2>1 DEF ResultsNewest
  <2>3. \A i \in DOMAIN m_job_results' : m_job_results'[i] = Kept(i)'
    BY <1>1, <1>3, <1>4 DEF ResultsNewest, Kept, TypeOK
  <2> QED
    BY <2>2, <2>3 DEF ResultsNewest
<1>7. ProgressKept'
  BY <1>1 DEF ProgressKept
<1> QED
  BY <1>5, <1>6, <1>7

(***************************************************************************)
(* A progress report counts if the job is defined, for both.               *)
(***************************************************************************)
LEMMA UpdateProgressKeepsIInv ==
    ASSUME IInv, NEW j \in Jobs, NEW finished \in Counts, NEW total \in Counts,
           CallUpdateProgress(j, finished, total)
    PROVE  IInv'
<1> USE DEF CallUpdateProgress, UpdateTaskProgress, Put, IInv
<1>1. <<finished, total>> \in Int \X Int
  BY JobAssumption
<1>2. /\ ledger' \in [Jobs -> Account]
      /\ \A i \in Jobs : ledger'[i].saved = ledger[i].saved
      /\ \A i \in Jobs : ledger'[i].defined = ledger[i].defined
      /\ \A i \in Jobs :
           ledger'[i].progress = IF i = j /\ ledger[j].defined THEN <<finished, total>>
                                 ELSE ledger[i].progress
  BY <1>1, ZenonT(40) DEF TypeOK, Account
<1>3. j \in DOMAIN m_jobs <=> ledger[j].defined
  BY DEF TypeOK
<1>4. m_job_progress' \in [DOMAIN m_jobs -> Int \X Int]
  BY <1>1 DEF TypeOK
<1>5. TypeOK'
  BY <1>2, <1>4 DEF TypeOK
<1>6. ResultsNewest'
  BY <1>2 DEF ResultsNewest, Kept
<1>7. ProgressKept'
  BY <1>2, <1>3 DEF TypeOK, ProgressKept
<1> QED
  BY <1>5, <1>6, <1>7

(***************************************************************************)
(* The invariant is inductive; a call that only reads changes nothing.     *)
(***************************************************************************)
LEMMA NextKeepsIInv == IInv /\ [Next]_vars => IInv'
<1> SUFFICES ASSUME IInv, [Next]_vars PROVE IInv'
  OBVIOUS
<1>1. ASSUME UNCHANGED <<m_jobs, m_job_results, m_job_progress, ledger>> PROVE IInv'
  BY <1>1 DEF IInv, TypeOK, ResultsNewest, ProgressKept, Kept
<1>2. CASE CallGet
  <2>1. UNCHANGED <<m_jobs, m_job_results, m_job_progress, ledger>>
    BY <1>2 DEF CallGet, GetJob, GetTaskProgress, GetJobResults, GetAllEnableJobs,
                GetUnfinishedSlicesForNode
  <2> QED
    BY <1>1, <2>1
<1>3. CASE UNCHANGED vars
  BY <1>1, <1>3 DEF vars, jobVars
<1> QED
  BY <1>2, <1>3, AddKeepsIInv, RemoveKeepsIInv, SaveKeepsIInv, UpdateProgressKeepsIInv
  DEF Next

(***************************************************************************)
(* The types, and that definitions and progress exist for the same jobs.   *)
(***************************************************************************)
THEOREM JobTypes == Spec => []TypeOK
<1>1. IInv => TypeOK
  BY DEF IInv
<1> QED
  BY <1>1, LedgerInitIInv, NextKeepsIInv, PTL DEF Spec

(***************************************************************************)
(* The store always holds the newest results since the removal.            *)
(***************************************************************************)
THEOREM StoreHoldsNewest == Spec => []ResultsNewest
<1>1. IInv => ResultsNewest
  BY DEF IInv
<1> QED
  BY <1>1, LedgerInitIInv, NextKeepsIInv, PTL DEF Spec

(***************************************************************************)
(* GetJobResults gives the newest max_count of what was saved; a count     *)
(* that is not positive gives all that is kept.                            *)
(***************************************************************************)
LEMMA RecentIsNewest ==
    ASSUME IInv, NEW j \in Jobs, NEW n \in MaxCounts
    PROVE  (IF j \in DOMAIN m_job_results THEN Recent(m_job_results[j], n) ELSE <<>>)
              = Newest(Kept(j), IF n > 0 THEN n ELSE MaxResultsPerJob)
<1>1. n \in Int /\ MaxResultsPerJob \in Nat \ {0} /\ ledger[j].saved \in Seq(JobResult)
  BY JobAssumption DEF IInv, TypeOK, Account
<1>2. Kept(j) \in Seq(JobResult) /\ Len(Kept(j)) <= MaxResultsPerJob
  <2>1. CASE Len(ledger[j].saved) <= MaxResultsPerJob
    BY <1>1, <2>1 DEF Kept, Newest
  <2>2. CASE Len(ledger[j].saved) > MaxResultsPerJob
    BY <1>1, <2>2, NewestOfLonger DEF Kept
  <2> QED
    BY <1>1, <2>1, <2>2
<1>3. CASE j \in DOMAIN m_job_results
  <2>1. m_job_results[j] = Kept(j)
    BY <1>3 DEF IInv, ResultsNewest
  <2> QED
    BY <1>1, <1>2, <1>3, <2>1 DEF Recent, Newest
<1>4. CASE j \notin DOMAIN m_job_results
  <2>1. Kept(j) = <<>>
    BY <1>1, <1>4 DEF IInv, ResultsNewest, Kept, Newest
  <2> QED
    BY <1>1, <1>4, <2>1 DEF Newest
<1> QED
  BY <1>3, <1>4

(***************************************************************************)
(* Every call returns what the ledger says, and keeps what it returned.    *)
(***************************************************************************)
LEMMA NextKeepsAnswers ==
    ASSUME IInv, ProgressExact, ResultsExact, [Next]_vars
    PROVE  ProgressExact' /\ ResultsExact'
<1> USE DEF ProgressExact, ResultsExact
<1>1. ASSUME ret' = NoReturn PROVE ProgressExact' /\ ResultsExact'
  BY <1>1 DEF NoReturn
<1>2. ASSUME NEW j \in Jobs, GetJob(j), UNCHANGED ledger
      PROVE  ProgressExact' /\ ResultsExact'
  BY <1>2 DEF GetJob, IInv, TypeOK
<1>3. ASSUME NEW j \in Jobs, GetTaskProgress(j), UNCHANGED ledger
      PROVE  ProgressExact' /\ ResultsExact'
  <2>1. DOMAIN m_job_progress = {i \in Jobs : ledger[i].defined}
    BY DEF IInv, TypeOK
  <2> QED
    BY <1>3, <2>1 DEF GetTaskProgress, IInv, ProgressKept
<1>4. ASSUME NEW j \in Jobs, NEW n \in MaxCounts, GetJobResults(j, n), UNCHANGED ledger
      PROVE  ProgressExact' /\ ResultsExact'
  <2>1. /\ ret'.call = "GetJobResults" /\ ret'.job = j /\ ret'.max_count = n
        /\ ret'.results = Newest(Kept(j), IF n > 0 THEN n ELSE MaxResultsPerJob)
    BY <1>4, RecentIsNewest DEF GetJobResults
  <2> QED
    BY <1>4, <2>1 DEF Kept
<1>5. ASSUME GetAllEnableJobs \/ \E node \in Nodes : GetUnfinishedSlicesForNode(node)
      PROVE  ProgressExact' /\ ResultsExact'
  BY <1>5 DEF GetAllEnableJobs, GetUnfinishedSlicesForNode
<1>6. CASE UNCHANGED vars
  BY <1>6 DEF vars, jobVars, Kept
<1>7. CASE CallGet
  BY <1>2, <1>3, <1>4, <1>5, <1>7 DEF CallGet
<1>8. CASE Next /\ ~CallGet
  <2>1. ret' = NoReturn
    BY <1>8 DEF Next, CallAddOrUpdate, AddOrUpdateJob, CallRemove, RemoveJob, CallSave,
                SaveJobResult, CallUpdateProgress, UpdateTaskProgress
  <2> QED
    BY <1>1, <2>1
<1> QED
  BY <1>6, <1>7, <1>8

(***************************************************************************)
(* Whatever was called before: GetTaskProgress, GetJob and GetJobResults   *)
(* answer exactly what callers said.                                       *)
(***************************************************************************)
THEOREM GettersExact == Spec => []AnswersExact
<1>1. LedgerInit => ProgressExact /\ ResultsExact
  BY DEF LedgerInit, Init, NoReturn, ProgressExact, ResultsExact
<1> QED
  BY <1>1, LedgerInitIInv, NextKeepsIInv, NextKeepsAnswers, PTL DEF Spec, AnswersExact

-----------------------------------------------------------------------------
(***************************************************************************)
(* The retries: what the loop over a job's results collects.               *)
(***************************************************************************)

(***************************************************************************)
(* What holds of 0, and of each number up to n if of the one before, holds *)
(* of all of them.  The set of those it holds of stands for the property.  *)
(***************************************************************************)
LEMMA UpTo ==
    ASSUME NEW n \in Nat, NEW P, 0 \in P, \A i \in 1..n : i - 1 \in P => i \in P
    PROVE  0..n \subseteq P
<1> DEFINE B == (0..n) \ P
           R == OpToRel(<, Nat)
<1> SUFFICES ASSUME B # {} PROVE FALSE
  OBVIOUS
<1>1. B \in SUBSET Nat
  OBVIOUS
<1>2. IsWellFoundedOn(R, Nat)
  BY NatLessThanWellFounded
<1>3. \A i, k \in Nat : i < k => <<i, k>> \in R
  BY DEF OpToRel
<1>4. PICK k \in B : \A i \in B : ~(<<i, k>> \in R)
  <2> HIDE DEF B, R
  <2> QED
    BY <1>1, <1>2, WFMin
<1>5. k \in 1..n /\ k - 1 \in 0..n /\ k - 1 < k
  OBVIOUS
<1>6. k - 1 \notin B
  <2>1. k - 1 \in Nat /\ k \in Nat
    BY <1>5
  <2> HIDE DEF B, R
  <2> QED
    BY <1>3, <1>4, <1>5, <2>1
<1> QED
  BY <1>4, <1>5, <1>6

\* The loop: the function of the definition of Unfinished, up to m.
Round(s, Q, f, i) ==
    IF i = 0 THEN <<>>
    ELSE IF s[i] \in Q THEN Append(f[i - 1], s[i])
    ELSE f[i - 1]
Loop(s, Q, f, m) == f = [i \in 0..m |-> Round(s, Q, f, i)]

(***************************************************************************)
(* There is such a function.                                               *)
(***************************************************************************)
LEMMA LoopExists ==
    ASSUME NEW n \in Nat, NEW s, NEW Q
    PROVE  \E f : Loop(s, Q, f, n)
<1> DEFINE P == {m \in 0..n : \E f : Loop(s, Q, f, m)}
<1>1. 0 \in P
  <2> DEFINE f == [i \in 0..0 |-> <<>>]
  <2>1. Loop(s, Q, f, 0)
    BY DEF Loop, Round
  <2> QED
    BY <2>1
<1>2. ASSUME NEW m \in 1..n, m - 1 \in P PROVE m \in P
  <2>1. PICK f : Loop(s, Q, f, m - 1)
    BY <1>2
  <2> DEFINE g == [i \in 0..m |-> IF i = m THEN Round(s, Q, f, m) ELSE f[i]]
  <2>2. \A i \in 0..(m - 1) : g[i] = f[i]
    OBVIOUS
  <2>3. \A i \in 0..(m - 1) : f[i] = Round(s, Q, f, i)
    BY <2>1 DEF Loop
  <2>4. ASSUME NEW i \in 0..m PROVE g[i] = Round(s, Q, g, i)
    <3>1. Round(s, Q, g, i) = Round(s, Q, f, i)
      <4>1. CASE i = 0
        BY <4>1 DEF Round
      <4>2. CASE i # 0
        <5>1. i - 1 \in 0..(m - 1)
          BY <4>2
        <5>2. g[i - 1] = f[i - 1]
          BY <2>2, <5>1
        <5> HIDE DEF g
        <5> QED
          BY <4>2, <5>2 DEF Round
      <4> QED
        BY <4>1, <4>2
    <3>2. CASE i = m
      BY <3>1, <3>2
    <3>3. CASE i # m
      <4>1. i \in 0..(m - 1)
        BY <3>3
      <4> HIDE DEF g
      <4> QED
        BY <2>2, <2>3, <3>1, <4>1
    <3> QED
      BY <3>2, <3>3
  <2>5. g = [i \in 0..m |-> g[i]]
    OBVIOUS
  <2>6. Loop(s, Q, g, m)
    <3> HIDE DEF g
    <3> QED
      BY <2>4, <2>5 DEF Loop
  <2> QED
    BY <2>6
<1>3. 0..n \subseteq P
  <2> HIDE DEF P
  <2> QED
    BY <1>1, <1>2, UpTo
<1> QED
  BY <1>3

\* What is in a sequence, and what is looked for in the first i places of one.
Values(t) == {t[k] : k \in DOMAIN t}
Found(t, Q, i) == {t[k] : k \in 1..i} \cap Q

(***************************************************************************)
(* The loop collects what is looked for and nothing else.                  *)
(***************************************************************************)
LEMMA LoopCollects ==
    ASSUME NEW S, NEW s \in Seq(S), NEW Q, NEW f, Loop(s, Q, f, Len(s))
    PROVE  f[Len(s)] \in Seq(S) /\ Values(f[Len(s)]) = Found(s, Q, Len(s))
<1> DEFINE n == Len(s)
           P == {i \in 0..n : f[i] \in Seq(S) /\ Values(f[i]) = Found(s, Q, i)}
<1>1. n \in Nat /\ \A i \in 0..n : f[i] = Round(s, Q, f, i)
  BY DEF Loop
<1>2. 0 \in P
  <2>1. f[0] = <<>> /\ 0 \in 0..n
    BY <1>1 DEF Round
  <2>2. Values(<<>>) = {} /\ Found(s, Q, 0) = {} /\ <<>> \in Seq(S)
    BY DEF Values, Found
  <2> QED
    BY <2>1, <2>2
<1>3. ASSUME NEW i \in 1..n, i - 1 \in P PROVE i \in P
  <2> DEFINE g == f[i - 1]
  <2>1. g \in Seq(S) /\ Values(g) = Found(s, Q, i - 1)
    BY <1>3
  <2>2. i \in Nat /\ i > 0 /\ i \in 0..n /\ s[i] \in S
    BY <1>1
  <2>3. f[i] = IF s[i] \in Q THEN Append(g, s[i]) ELSE g
    BY <1>1, <2>2 DEF Round
  <2>4. Found(s, Q, i) = Found(s, Q, i - 1) \cup ({s[i]} \cap Q)
    BY <2>2 DEF Found
  <2> HIDE DEF g
  <2>5. Append(g, s[i]) \in Seq(S) /\ Values(Append(g, s[i])) = Values(g) \cup {s[i]}
    <3>1. Append(g, s[i]) \in Seq(S)
      BY <2>1, <2>2, AppendProperties
    <3>2. /\ DOMAIN Append(g, s[i]) = 1..(Len(g) + 1) /\ DOMAIN g = 1..Len(g) /\ Len(g) \in Nat
          /\ Append(g, s[i])[Len(g) + 1] = s[i]
          /\ \A k \in 1..Len(g) : Append(g, s[i])[k] = g[k]
      BY <2>1, <2>2, AppendProperties
    <3>3. \A k \in 1..(Len(g) + 1) : k \in 1..Len(g) \/ k = Len(g) + 1
      BY <3>2
    <3> QED
      BY <3>1, <3>2, <3>3 DEF Values
  <2>6. CASE s[i] \in Q
    BY <2>1, <2>2, <2>3, <2>4, <2>5, <2>6
  <2>7. CASE s[i] \notin Q
    BY <2>1, <2>2, <2>3, <2>4, <2>7
  <2> QED
    BY <2>6, <2>7
<1>4. 0..n \subseteq P
  <2> HIDE DEF P, n
  <2> QED
    BY <1>1, <1>2, <1>3, UpTo
<1> QED
  BY <1>1, <1>4

(***************************************************************************)
(* What GetUnfinishedSlicesForNode returns of a job: its failures there.   *)
(***************************************************************************)
LEMMA UnfinishedExact ==
    ASSUME NEW results \in Seq(JobResult), NEW node
    PROVE  Values(Unfinished(results, node)) = Values(results) \cap Failures(node)
<1> DEFINE Q == Failures(node)
           n == Len(results)
           f == CHOOSE f : Loop(results, Q, f, n)
<1>1. Loop(results, Q, f, n)
  <2>1. n \in Nat
    OBVIOUS
  <2> HIDE DEF Q, n
  <2> QED
    BY <2>1, LoopExists
<1>2. Unfinished(results, node) = f[n]
  BY DEF Unfinished, Loop, Round
<1>3. Values(f[n]) = Found(results, Q, n)
  <2> HIDE DEF f, Q
  <2> QED
    BY <1>1, LoopCollects
<1>4. Found(results, Q, n) = Values(results) \cap Q
  BY DEF Found, Values
<1> HIDE DEF f
<1> QED
  BY <1>2, <1>3, <1>4

(***************************************************************************)
(* Of one job: the slices of what the loop returned.                       *)
(***************************************************************************)
LEMMA RetriesOfJob ==
    ASSUME IInv, NEW node \in Nodes, GetUnfinishedSlicesForNode(node), UNCHANGED ledger,
           NEW j \in Jobs
    PROVE  Offered(j)' = Stored(j, FailedOn(node))
<1> DEFINE u == [i \in DOMAIN m_job_results |-> Unfinished(m_job_results[i], node)]
<1>1. ret'.unfinished = u
  BY DEF GetUnfinishedSlicesForNode
<1>2. FailedOn(node) = Failures(node)
  BY DEF FailedOn, Failed, Failures
<1>3. CASE j \in DOMAIN m_job_results
  <2>1. m_job_results[j] = Kept(j) /\ Kept(j) \in Seq(JobResult)
    BY <1>3 DEF IInv, ResultsNewest, TypeOK
  <2>2. j \in DOMAIN u /\ u[j] = Unfinished(Kept(j), node)
    BY <1>3, <2>1
  <2>3. Values(u[j]) = Values(Kept(j)) \cap Failures(node)
    BY <2>1, <2>2, UnfinishedExact
  <2> HIDE DEF u
  <2>4. Offered(j)' = {r.slice_id : r \in Values(u[j])}
    BY <1>1, <2>2 DEF Offered, Values
  <2>5. \A r \in Values(Kept(j)) : r.slice_id \in Slices
    <3>1. \A r \in JobResult : r.slice_id \in Slices
      BY DEF JobResult
    <3>2. \A k \in DOMAIN Kept(j) : Kept(j)[k] \in JobResult
      BY <2>1
    <3> QED
      BY <3>1, <3>2 DEF Values
  <2> QED
    BY <1>2, <2>3, <2>4, <2>5 DEF Stored, Values
<1>4. CASE j \notin DOMAIN m_job_results
  <2>1. Kept(j) = <<>>
    BY <1>4, JobAssumption DEF IInv, ResultsNewest, Kept, Newest
  <2>2. j \notin DOMAIN u
    BY <1>4
  <2> HIDE DEF u
  <2>3. Offered(j)' = {}
    BY <1>1, <2>2 DEF Offered
  <2> QED
    BY <2>1, <2>3 DEF Stored
<1> QED
  BY <1>3, <1>4

(***************************************************************************)
(* Every call keeps it: any other call than the one returns something else.*)
(***************************************************************************)
LEMMA NextKeepsRetries ==
    ASSUME IInv, RetriesOffered, [Next]_vars
    PROVE  RetriesOffered'
<1>1. ASSUME ret'.call # "GetUnfinishedSlicesForNode" PROVE RetriesOffered'
  BY <1>1 DEF RetriesOffered
<1>2. CASE UNCHANGED vars
  BY <1>2 DEF vars, jobVars, Kept, Stored, Offered, RetriesOffered
<1>3. ASSUME NEW node \in Nodes, GetUnfinishedSlicesForNode(node), UNCHANGED ledger
      PROVE  RetriesOffered'
  <2>1. ret'.node = node /\ \A j : Kept(j)' = Kept(j)
    BY <1>3 DEF GetUnfinishedSlicesForNode, Kept
  <2>2. \A j, results : Stored(j, results)' = Stored(j, results)
    BY <2>1 DEF Stored
  <2>3. \A j \in Jobs : Offered(j)' = Stored(j, FailedOn(node))
    BY <1>3, RetriesOfJob
  <2>4. \A j \in Jobs : Stored(j, FailedOn(node)) \subseteq Stored(j, Failed)
    BY DEF Stored, FailedOn
  <2>5. \A j \in Jobs : /\ Offered(j)' = Stored(j, FailedOn(node))'
                        /\ Offered(j)' \subseteq Stored(j, Failed)'
    BY <2>2, <2>3, <2>4
  <2> QED
    BY <2>1, <2>5 DEF RetriesOffered
<1>4. CASE CallGet
  <2>1. ASSUME NEW j \in Jobs, GetJob(j) \/ GetTaskProgress(j) PROVE RetriesOffered'
    BY <1>1, <2>1 DEF GetJob, GetTaskProgress
  <2>2. ASSUME NEW j \in Jobs, NEW n \in MaxCounts, GetJobResults(j, n) PROVE RetriesOffered'
    BY <1>1, <2>2 DEF GetJobResults
  <2>3. ASSUME GetAllEnableJobs PROVE RetriesOffered'
    BY <1>1, <2>3 DEF GetAllEnableJobs
  <2> QED
    BY <1>3, <1>4, <2>1, <2>2, <2>3 DEF CallGet
<1>5. CASE Next /\ ~CallGet
  <2>1. ret' = NoReturn
    BY <1>5 DEF Next, CallAddOrUpdate, AddOrUpdateJob, CallRemove, RemoveJob, CallSave,
                SaveJobResult, CallUpdateProgress, UpdateTaskProgress
  <2> QED
    BY <1>1, <2>1 DEF NoReturn
<1> QED
  BY <1>2, <1>4, <1>5

(***************************************************************************)
(* A slice that failed on the node and succeeded nowhere is offered for    *)
(* another try, one that only succeeded is not, whatever was called before.*)
(***************************************************************************)
THEOREM RetriesFit == Spec => []RetriesOffered
<1>1. LedgerInit => RetriesOffered
  <2> SUFFICES ASSUME LedgerInit PROVE ret.call # "GetUnfinishedSlicesForNode"
    BY DEF RetriesOffered
  <2> QED
    BY DEF LedgerInit, Init, NoReturn
<1> QED
  BY <1>1, LedgerInitIInv, NextKeepsIInv, NextKeepsRetries, PTL DEF Spec

=============================================================================
