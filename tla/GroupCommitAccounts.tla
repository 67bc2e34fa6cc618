------------------------- MODULE GroupCommitAccounts -------------------------
(***************************************************************************)
(* What becomes of the jobs: the queue's contents follow from the          *)
(* mutations that were applied and the results they had.  The first part   *)
(* is about any queue state st, set A of applied mutations, and functions  *)
(* mut and eff that give what each asks for and had as result; the second  *)
(* part is about the engines; the third about the holders of the jobs; the *)
(* fourth about what leaves the queue in a step.                           *)
(***************************************************************************)
EXTENDS GroupCommitRefinement

Claims(A, mut, eff, id) == {s \in A : mut[s].type = "claim" /\ eff[s].claimedJob = id}
Completes(A, mut, id)   == {s \in A : mut[s].type = "complete" /\ mut[s].jobId = id}
Enqueued(A, mut, eff)   == UNION {eff[s].enqueuedIds : s \in {t \in A : mut[t].type = "enqueue"}}
maxAttemptsFor(mut, id) == maxAttemptsOf(mut[id[1]].jobs[id[3]])

(* The ids a mutation made are its own, and a job was enqueued before it   *)
(* was claimed.                                                            *)
IdsOf(s, n, specs) == {Append(<<s, n>>, i) : i \in DOMAIN specs}

Ledger(A, mut, eff) ==
    /\ IsFiniteSet(A) /\ IsFiniteSet(Enqueued(A, mut, eff))
    /\ None \notin Enqueued(A, mut, eff)
    /\ \A s \in A : mut[s].type = "enqueue" =>
          \E n \in Nat : eff[s].enqueuedIds = IdsOf(s, n, mut[s].jobs)
    /\ \A s \in A : mut[s].type = "claim" =>
          eff[s].claimedJob \in Enqueued(A, mut, eff) \cup {None}

JobAccounted(job, A, mut, eff) ==
    /\ job.maxAttempts = mut[job.id[1]].jobs[job.id[3]].maxAttempts
    /\ job.attempts = Cardinality(Claims(A, mut, eff, job.id))
    /\ job.status = "in_progress" =>
          \E s \in Claims(A, mut, eff, job.id) : mut[s].workerId = job.workerId
    /\ job.attempts <= atMost(job) - (IF job.status = "unclaimed" THEN 1 ELSE 0)

Left(st, A, mut, eff) == Enqueued(A, mut, eff) \ JobIds(st)

(* The jobs that have left: completedTotal of them were completed, and the *)
(* others were claimed as often as they may be.                            *)
EndsAccounted(st, A, mut, eff) ==
    \E D \in SUBSET Left(st, A, mut, eff) :
        /\ Cardinality(D) = st.completedTotal
        /\ \A id \in D : Completes(A, mut, id) # {}
        /\ \A id \in Left(st, A, mut, eff) \ D :
              Cardinality(Claims(A, mut, eff, id)) >= maxAttemptsFor(mut, id)

Accounted(st, A, mut, eff) ==
    /\ IsState(st)
    /\ Ledger(A, mut, eff)
    /\ JobIds(st) \subseteq Enqueued(A, mut, eff)
    /\ \A job \in JobsOf(st) : JobAccounted(job, A, mut, eff)
    /\ EndsAccounted(st, A, mut, eff)

(***************************************************************************)
(* What one more applied mutation adds to these sets.                      *)
(***************************************************************************)
IdAt(s, n, i) == Append(<<s, n>>, i)

LEMMA IdIs ==
  ASSUME NEW s, NEW n, NEW i
  PROVE  IsSeq(<<s, n>>) /\ IdAt(s, n, i)[1] = s /\ IdAt(s, n, i)[3] = i
<1>1. <<s, n>> \in Seq({s, n}) /\ Len(<<s, n>>) = 2 /\ <<s, n>>[1] = s
  OBVIOUS
<1>2. IsSeq(<<s, n>>)
  BY <1>1, IsSeqOf
<1> DEFINE seed == <<s, n>>
<1>3. Len(seed) = 2 /\ seed[1] = s /\ IsSeq(seed)
  BY <1>1, <1>2
<1> HIDE DEF seed
<1>4. /\ \A k \in 1..Len(seed) : Append(seed, i)[k] = seed[k]
      /\ Append(seed, i)[Len(seed) + 1] = i
  BY <1>3, AppendSeq
<1>5. Append(seed, i)[1] = s /\ Append(seed, i)[3] = i
  BY <1>3, <1>4
<1> QED
  BY <1>2, <1>5 DEF seed, IdAt

LEMMA IdIsTriple ==
  ASSUME NEW s, NEW n, NEW i
  PROVE  IdAt(s, n, i) = <<s, n, i>>
<1> DEFINE seed == <<s, n>>
           S == {s, n, i}
           id == <<s, n, i>>
<1>1. seed \in Seq(S) /\ Len(seed) = 2 /\ seed[1] = s /\ seed[2] = n /\ i \in S
  OBVIOUS
<1>2. id \in Seq(S) /\ Len(id) = 3 /\ id[1] = s /\ id[2] = n /\ id[3] = i
  OBVIOUS
<1> HIDE DEF seed, S, id
<1>3. /\ Append(seed, i) \in Seq(S) /\ Len(Append(seed, i)) = 3
      /\ Append(seed, i)[1] = s /\ Append(seed, i)[2] = n /\ Append(seed, i)[3] = i
  <2>1. /\ Append(seed, i) \in Seq(S) /\ Len(Append(seed, i)) = Len(seed) + 1
        /\ \A k \in 1..Len(seed) : Append(seed, i)[k] = seed[k]
        /\ Append(seed, i)[Len(seed) + 1] = i
    <3>1. IsSeq(seed)
      BY <1>1, IsSeqOf
    <3>2. /\ Len(Append(seed, i)) = Len(seed) + 1
          /\ \A k \in 1..Len(seed) : Append(seed, i)[k] = seed[k]
          /\ Append(seed, i)[Len(seed) + 1] = i
      BY <3>1, AppendSeq
    <3>3. Append(seed, i) \in Seq(S)
      BY <1>1, AppendProperties
    <3> QED BY <3>2, <3>3
  <2> QED BY <1>1, <2>1
<1> DEFINE t == Append(seed, i)
<1> HIDE DEF t
<1>4. \A k \in 1..3 : t[k] = id[k]
  BY <1>2, <1>3 DEF t
<1>5. t \in Seq(S) /\ Len(t) = Len(id) /\ \A k \in 1..Len(t) : t[k] = id[k]
  BY <1>2, <1>3, <1>4 DEF t
<1>6. t = id
  BY <1>2, <1>5, SeqEqual
<1> QED
  BY <1>6 DEF t, id, seed, IdAt

LEMMA IdsOfIs ==
  ASSUME NEW s, NEW n, NEW specs, NEW id \in IdsOf(s, n, specs)
  PROVE  \E i \in DOMAIN specs : id = IdAt(s, n, i) /\ id[1] = s /\ id[3] = i
  BY IdIs DEF IdsOf, IdAt

LEMMA ClaimsGrow ==
  ASSUME NEW A, IsFiniteSet(A), NEW mut, NEW eff, NEW s, s \notin A, NEW id
  PROVE  LET old == Claims(A, mut, eff, id)
             new == Claims(A \cup {s}, mut, eff, id)
         IN /\ Cardinality(old) \in Nat /\ Cardinality(new) \in Nat
            /\ IF mut[s].type = "claim" /\ eff[s].claimedJob = id
               THEN new = old \cup {s} /\ Cardinality(new) = Cardinality(old) + 1
               ELSE new = old
<1> DEFINE old == Claims(A, mut, eff, id)
           new == Claims(A \cup {s}, mut, eff, id)
<1>1. IsFiniteSet(old) /\ s \notin old
  BY FS_Subset DEF Claims
<1>2. new = IF mut[s].type = "claim" /\ eff[s].claimedJob = id THEN old \cup {s} ELSE old
  BY DEF Claims
<1>3. Cardinality(old) \in Nat /\ Cardinality(old \cup {s}) = Cardinality(old) + 1
  BY <1>1, FS_AddElement, FS_CardinalityType
<1> QED
  BY <1>2, <1>3

LEMMA CompletesGrow ==
  ASSUME NEW A, NEW mut, NEW s, NEW id
  PROVE  Completes(A, mut, id) \subseteq Completes(A \cup {s}, mut, id)
  BY DEF Completes

(* Jobs that leave with their claims used up keep the ends accounted.      *)
LEMMA EndsKept ==
  ASSUME NEW st, NEW A, NEW mut, NEW eff, EndsAccounted(st, A, mut, eff),
         NEW st2, NEW A2, st2.completedTotal = st.completedTotal,
         Left(st, A, mut, eff) \subseteq Left(st2, A2, mut, eff),
         \A id : Completes(A, mut, id) \subseteq Completes(A2, mut, id),
         \A id \in Left(st, A, mut, eff) :
            Cardinality(Claims(A, mut, eff, id)) >= maxAttemptsFor(mut, id)
               => Cardinality(Claims(A2, mut, eff, id)) >= maxAttemptsFor(mut, id),
         \A id \in Left(st2, A2, mut, eff) \ Left(st, A, mut, eff) :
            Cardinality(Claims(A2, mut, eff, id)) >= maxAttemptsFor(mut, id)
  PROVE  EndsAccounted(st2, A2, mut, eff)
<1>1. PICK D \in SUBSET Left(st, A, mut, eff) :
        /\ Cardinality(D) = st.completedTotal
        /\ \A id \in D : Completes(A, mut, id) # {}
        /\ \A id \in Left(st, A, mut, eff) \ D :
              Cardinality(Claims(A, mut, eff, id)) >= maxAttemptsFor(mut, id)
  BY DEF EndsAccounted
<1>2. D \in SUBSET Left(st2, A2, mut, eff) /\ Cardinality(D) = st2.completedTotal
  BY <1>1
<1>3. \A id \in D : Completes(A2, mut, id) # {}
  BY <1>1
<1>4. \A id \in Left(st2, A2, mut, eff) \ D :
         Cardinality(Claims(A2, mut, eff, id)) >= maxAttemptsFor(mut, id)
  BY <1>1
<1> QED
  BY <1>2, <1>3, <1>4 DEF EndsAccounted

(***************************************************************************)
(* What expiry and each mutation do to the accounts.                       *)
(***************************************************************************)
LEMMA AtMostIs ==
  ASSUME NEW job, IsJob(job)
  PROVE  /\ maxAttemptsOf(job) \in Int /\ atMost(job) \in Int
         /\ atMost(job) >= 1 /\ atMost(job) >= maxAttemptsOf(job)
         /\ maxAttemptsOf(job) >= 1 => atMost(job) = maxAttemptsOf(job)
<1>1. maxAttemptsOf(job) \in Int
  BY AttemptsAssumption DEF IsJob, maxAttemptsOf
<1> QED
  BY <1>1 DEF atMost

(* A job with the same id, attempts and maximum has the same accounts when *)
(* it is held by the same worker, or by none with an attempt left.         *)
LEMMA AccountsCopied ==
  ASSUME NEW old, NEW job, IsJob(old), IsJob(job), NEW A, NEW mut, NEW eff,
         JobAccounted(old, A, mut, eff),
         job.id = old.id, job.attempts = old.attempts, job.maxAttempts = old.maxAttempts,
         \/ job.status = old.status /\ job.workerId = old.workerId
         \/ job.status = "unclaimed" /\ ~usedUp(old)
  PROVE  JobAccounted(job, A, mut, eff)
<1>1. atMost(job) = atMost(old) /\ maxAttemptsOf(job) = maxAttemptsOf(old)
  BY DEF atMost, maxAttemptsOf
<1>2. CASE job.status = old.status /\ job.workerId = old.workerId
  BY <1>1, <1>2 DEF JobAccounted
<1>3. CASE job.status = "unclaimed" /\ ~usedUp(old)
  <2>1. old.attempts \in Nat /\ ~(old.attempts >= maxAttemptsOf(old))
    BY <1>3 DEF usedUp, IsJob
  <2>2. old.attempts <= atMost(old) - 1
    BY <2>1, AtMostIs
  <2> QED BY <1>1, <1>3, <2>2 DEF JobAccounted
<1> QED BY <1>2, <1>3

LEMMA ExpiryAccounted ==
  ASSUME NEW st, NEW A, NEW mut, NEW eff, Accounted(st, A, mut, eff), NEW now
  PROVE  LET new == expireHeartbeats(st, now)
         IN Accounted(new, A, mut, eff) /\ JobIds(new) \subseteq JobIds(st)
<1> DEFINE new == expireHeartbeats(st, now)
           E == Enqueued(A, mut, eff)
<1>0. IsState(st) /\ \A job \in JobsOf(st) : IsJob(job) /\ JobAccounted(job, A, mut, eff)
  BY JobsAreJobs DEF Accounted
<1>1. /\ IsState(new) /\ new.completedTotal = st.completedTotal
      /\ \A job \in JobsOf(st) : ~dropped(job, now) => survivor(job, now) \in JobsOf(new)
      /\ \A job \in JobsOf(new) : \E old \in JobsOf(st) :
            ~dropped(old, now) /\ job = survivor(old, now)
  BY <1>0, ExpireHeartbeats
<1> HIDE DEF new
<1>2. ASSUME NEW job \in JobsOf(new)
      PROVE  job.id \in JobIds(st) /\ JobAccounted(job, A, mut, eff)
  <2>1. PICK old \in JobsOf(st) : ~dropped(old, now) /\ job = survivor(old, now)
    BY <1>1
  <2>2. IsJob(old) /\ JobAccounted(old, A, mut, eff)
    BY <1>0
  <2>3. /\ IsJob(job) /\ job.id = old.id /\ job.attempts = old.attempts
        /\ job.maxAttempts = old.maxAttempts
    BY <2>1, <2>2, SurvivorIs
  <2>4. \/ job.status = old.status /\ job.workerId = old.workerId
        \/ job.status = "unclaimed" /\ ~usedUp(old)
    <3>1. CASE isStale(old, now)
      BY <2>1, <2>2, <3>1, SurvivorIs DEF dropped
    <3>2. CASE ~isStale(old, now)
      BY <2>1, <3>2 DEF survivor
    <3> QED BY <3>1, <3>2
  <2>5. job.id \in JobIds(st)
    BY <1>0, <2>3, JobsAreJobs
  <2> QED BY <2>2, <2>3, <2>4, <2>5, AccountsCopied
<1>3. JobIds(new) \subseteq JobIds(st)
  BY <1>2, JobsAndIds
<1>4. ASSUME NEW id \in JobIds(st), id \notin JobIds(new)
      PROVE  Cardinality(Claims(A, mut, eff, id)) >= maxAttemptsFor(mut, id)
  <2>1. PICK job \in JobsOf(st) : job.id = id
    BY JobsAndIds
  <2>2. IsJob(job) /\ JobAccounted(job, A, mut, eff)
    BY <1>0
  <2>3. survivor(job, now).id = id
    BY <2>1, <2>2, SurvivorIs
  <2>4. dropped(job, now)
    BY <1>1, <1>4, <2>1, <2>3, JobsAndIds
  <2>5. maxAttemptsFor(mut, id) = maxAttemptsOf(job)
    BY <2>1, <2>2 DEF maxAttemptsFor, maxAttemptsOf, JobAccounted
  <2> QED BY <2>1, <2>2, <2>4, <2>5 DEF dropped, usedUp, JobAccounted
<1>5. EndsAccounted(new, A, mut, eff)
  <2>1. Left(st, A, mut, eff) \subseteq Left(new, A, mut, eff)
    BY <1>3 DEF Left
  <2>2. \A id \in Left(new, A, mut, eff) \ Left(st, A, mut, eff) :
           Cardinality(Claims(A, mut, eff, id)) >= maxAttemptsFor(mut, id)
    BY <1>4 DEF Left
  <2>3. EndsAccounted(st, A, mut, eff)
    BY DEF Accounted
  <2> QED BY <1>1, <2>1, <2>2, <2>3, EndsKept
<1> QED
  BY <1>1, <1>2, <1>3, <1>5 DEF Accounted, new

(* The step that the mutation of s makes: the accounts hold after it, the  *)
(* jobs it adds are the ones it enqueued, and those it removes are in E0.  *)
StepOf(st, A, st2, A2, mut, eff, E0) ==
    /\ Accounted(st2, A2, mut, eff)
    /\ JobIds(st2) \subseteq JobIds(st) \cup (Enqueued(A2, mut, eff) \ Enqueued(A, mut, eff))
    /\ Enqueued(A, mut, eff) \subseteq Enqueued(A2, mut, eff)
    /\ Enqueued(A2, mut, eff) \ Enqueued(A, mut, eff) \subseteq JobIds(st2)
    /\ JobIds(st) \ JobIds(st2) \subseteq E0

LEMMA ClaimAccounted ==
  ASSUME NEW st, NEW A, NEW mut, NEW eff, Accounted(st, A, mut, eff), NEW E0,
         NEW s, s \notin A, mut[s].type = "claim", NEW now \in Nat,
         eff[s] = claimJob(st, mut[s].workerId, mut[s].jobTypes, now).result
  PROVE  StepOf(st, A, claimJob(st, mut[s].workerId, mut[s].jobTypes, now).state,
                A \cup {s}, mut, eff, E0)
<1> DEFINE new == claimJob(st, mut[s].workerId, mut[s].jobTypes, now)
           B == A \cup {s}
           E == Enqueued(A, mut, eff)
<1>0. /\ IsState(st) /\ IsFiniteSet(A) /\ Ledger(A, mut, eff)
      /\ \A job \in JobsOf(st) : IsJob(job) /\ JobAccounted(job, A, mut, eff)
      /\ JobIds(st) \subseteq E
  BY JobsAreJobs DEF Accounted, Ledger
<1>1. Enqueued(B, mut, eff) = E
  <2>1. mut[s].type # "enqueue"
    OBVIOUS
  <2>2. Enqueued(A \cup {s}, mut, eff) = Enqueued(A, mut, eff)
    BY <2>1 DEF Enqueued
  <2> QED BY <2>2
<1>2. \A id : Completes(A, mut, id) \subseteq Completes(B, mut, id)
  BY CompletesGrow
<1>3. \A id : IF eff[s].claimedJob = id
              THEN Claims(B, mut, eff, id) = Claims(A, mut, eff, id) \cup {s}
                   /\ Cardinality(Claims(B, mut, eff, id)) = Cardinality(Claims(A, mut, eff, id)) + 1
              ELSE Claims(B, mut, eff, id) = Claims(A, mut, eff, id)
  BY <1>0, ClaimsGrow
<1>4. eff[s].claimedJob \in E \cup {None} => Ledger(B, mut, eff)
  <2>1. IsFiniteSet(B)
    BY <1>0, FS_AddElement
  <2> QED BY <1>0, <1>1, <2>1 DEF Ledger
<1>5. CASE new.state = st /\ new.result.claimedJob = None
  <2>1. Ledger(B, mut, eff) /\ \A id \in E : Claims(B, mut, eff, id) = Claims(A, mut, eff, id)
    BY <1>0, <1>3, <1>4, <1>5 DEF Ledger
  <2>2. \A job \in JobsOf(st) : JobAccounted(job, B, mut, eff)
    <3>1. \A job \in JobsOf(st) : job.id \in E
      BY <1>0, JobsAreJobs
    <3> QED BY <1>0, <2>1, <3>1 DEF JobAccounted
  <2>3. EndsAccounted(st, B, mut, eff)
    <3>1. Left(st, A, mut, eff) = Left(st, B, mut, eff) /\ Left(st, A, mut, eff) \subseteq E
      BY <1>1 DEF Left
    <3>2. EndsAccounted(st, A, mut, eff)
      BY DEF Accounted
    <3> QED BY <1>2, <2>1, <3>1, <3>2, EndsKept
  <2> QED BY <1>0, <1>1, <1>5, <2>1, <2>2, <2>3 DEF StepOf, Accounted
<1>6. ASSUME NEW job \in JobsOf(st), job.status = "unclaimed", new.result.claimedJob = job.id,
             IsState(new.state),
             JobsOf(new.state) =
                (JobsOf(st) \ {job}) \cup {claimedBy(job, mut[s].workerId, now)},
             new.state.completedTotal = st.completedTotal
      PROVE  StepOf(st, A, new.state, B, mut, eff, E0)
  <2> DEFINE claimed == claimedBy(job, mut[s].workerId, now)
             st2 == new.state
  <2>1. IsJob(job) /\ JobAccounted(job, A, mut, eff) /\ job.id \in JobIds(st)
    BY <1>0, JobsAreJobs
  <2>2. /\ claimed.id = job.id /\ claimed.status = "in_progress"
        /\ claimed.workerId = mut[s].workerId /\ claimed.attempts = job.attempts + 1
        /\ claimed.maxAttempts = job.maxAttempts
    BY <2>1 DEF IsJob, claimedBy
  <2>3. /\ eff[s].claimedJob = job.id
        /\ IsState(st2) /\ JobsOf(st2) = (JobsOf(st) \ {job}) \cup {claimed}
        /\ st2.completedTotal = st.completedTotal
    BY <1>6
  <2> HIDE DEF claimed, st2, new
  <2>4. JobIds(st2) = JobIds(st)
    <3>1. \A id \in JobIds(st2) : id \in JobIds(st)
      BY <1>6, <2>2, <2>3, JobsAndIds
    <3>2. \A id \in JobIds(st) : \E j \in JobsOf(st) : j.id = id
      BY JobsAndIds
    <3>3. \A j \in JobsOf(st) : \E k \in JobsOf(st2) : k.id = j.id
      BY <2>2, <2>3
    <3> QED BY <3>1, <3>2, <3>3, JobsAndIds
  <2>5. Ledger(B, mut, eff)
    BY <1>0, <1>4, <2>1, <2>3
  <2>6. JobAccounted(claimed, B, mut, eff)
    <3>1. /\ Claims(B, mut, eff, job.id) = Claims(A, mut, eff, job.id) \cup {s}
          /\ Cardinality(Claims(B, mut, eff, job.id)) = Cardinality(Claims(A, mut, eff, job.id)) + 1
      BY <1>3, <2>3
    <3>2. atMost(claimed) = atMost(job)
      BY <2>2 DEF atMost, maxAttemptsOf
    <3>3. job.attempts <= atMost(job) - 1 /\ job.attempts \in Nat /\ atMost(job) \in Int
      BY <1>6, <2>1, AtMostIs DEF JobAccounted, IsJob
    <3>4. claimed.attempts <= atMost(claimed) - 0
      BY <2>2, <3>2, <3>3
    <3> QED BY <2>1, <2>2, <3>1, <3>4 DEF JobAccounted
  <2>7. ASSUME NEW j \in JobsOf(st), j # job PROVE JobAccounted(j, B, mut, eff)
    <3>1. j.id # job.id
      BY <1>0, <2>7, OneJobPerId DEF IsState, IsJobList, JobsOf
    <3>2. Claims(B, mut, eff, j.id) = Claims(A, mut, eff, j.id)
      BY <1>3, <2>3, <3>1
    <3> QED BY <1>0, <3>2 DEF JobAccounted
  <2>8. EndsAccounted(st2, B, mut, eff)
    <3>1. Left(st, A, mut, eff) = Left(st2, B, mut, eff)
      BY <1>1, <2>4 DEF Left
    <3>2. \A id \in Left(st, A, mut, eff) : Claims(B, mut, eff, id) = Claims(A, mut, eff, id)
      BY <1>3, <2>1, <2>3 DEF Left
    <3>3. EndsAccounted(st, A, mut, eff)
      BY DEF Accounted
    <3> QED BY <1>2, <2>3, <3>1, <3>2, <3>3, EndsKept
  <2> QED BY <1>0, <1>1, <2>3, <2>4, <2>5, <2>6, <2>7, <2>8 DEF StepOf, Accounted, st2
<1>7. \/ new.state = st /\ new.result.claimedJob = None
      \/ \E job \in JobsOf(st) :
           /\ job.status = "unclaimed"
           /\ new.result.claimedJob = job.id
           /\ IsState(new.state)
           /\ JobsOf(new.state) =
                (JobsOf(st) \ {job}) \cup {claimedBy(job, mut[s].workerId, now)}
           /\ new.state.completedTotal = st.completedTotal
  BY <1>0, ClaimJob
<1> QED
  BY <1>5, <1>6, <1>7

(* A mutation that is neither an enqueue nor a claim.                      *)
Quiet(st, A, B, mut, eff) ==
    /\ IsState(st) /\ Ledger(B, mut, eff)
    /\ Enqueued(B, mut, eff) = Enqueued(A, mut, eff)
    /\ JobIds(st) \subseteq Enqueued(A, mut, eff)
    /\ \A id : Completes(A, mut, id) \subseteq Completes(B, mut, id)
    /\ \A id : Claims(B, mut, eff, id) = Claims(A, mut, eff, id)
    /\ \A job : JobAccounted(job, A, mut, eff) => JobAccounted(job, B, mut, eff)
    /\ \A job \in JobsOf(st) : IsJob(job) /\ JobAccounted(job, A, mut, eff)

LEMMA QuietGrows ==
  ASSUME NEW st, NEW A, NEW mut, NEW eff, Accounted(st, A, mut, eff),
         NEW s, s \notin A, mut[s].type \notin {"enqueue", "claim"}
  PROVE  Quiet(st, A, A \cup {s}, mut, eff)
<1> DEFINE B == A \cup {s}
<1>1. /\ IsState(st) /\ IsFiniteSet(A) /\ Ledger(A, mut, eff)
      /\ JobIds(st) \subseteq Enqueued(A, mut, eff)
      /\ \A job \in JobsOf(st) : IsJob(job) /\ JobAccounted(job, A, mut, eff)
  BY JobsAreJobs DEF Accounted, Ledger
<1>2. /\ Enqueued(B, mut, eff) = Enqueued(A, mut, eff)
      /\ \A id : Completes(A, mut, id) \subseteq Completes(B, mut, id)
  BY CompletesGrow DEF Enqueued
<1>3. ASSUME NEW id PROVE Claims(B, mut, eff, id) = Claims(A, mut, eff, id)
  BY DEF Claims
<1>4. \A job : JobAccounted(job, A, mut, eff) => JobAccounted(job, B, mut, eff)
  BY <1>3 DEF JobAccounted
<1>5. IsFiniteSet(B)
  BY <1>1, FS_AddElement
<1>6. Ledger(B, mut, eff)
  BY <1>1, <1>2, <1>5 DEF Ledger
<1> QED
  BY <1>1, <1>2, <1>3, <1>4, <1>6 DEF Quiet

(* It leaves the accounts in order when it keeps the jobs as they are.     *)
LEMMA QuietAccounted ==
  ASSUME NEW st, NEW A, NEW mut, NEW eff, Accounted(st, A, mut, eff), NEW E0,
         NEW s, s \notin A, mut[s].type \notin {"enqueue", "claim"},
         NEW st2, IsState(st2), st2.completedTotal = st.completedTotal,
         JobIds(st2) = JobIds(st),
         \A job \in JobsOf(st2) : JobAccounted(job, A, mut, eff)
  PROVE  StepOf(st, A, st2, A \cup {s}, mut, eff, E0)
<1> DEFINE B == A \cup {s}
<1>1. /\ IsState(st) /\ Ledger(B, mut, eff)
      /\ Enqueued(B, mut, eff) = Enqueued(A, mut, eff)
      /\ JobIds(st) \subseteq Enqueued(A, mut, eff)
      /\ \A id : Completes(A, mut, id) \subseteq Completes(B, mut, id)
      /\ \A id : Claims(B, mut, eff, id) = Claims(A, mut, eff, id)
      /\ \A job : JobAccounted(job, A, mut, eff) => JobAccounted(job, B, mut, eff)
  <2>1. Quiet(st, A, B, mut, eff)
    BY QuietGrows
  <2> QED BY <2>1 DEF Quiet
<1> HIDE DEF B
<1>2. EndsAccounted(st2, B, mut, eff)
  <2>1. EndsAccounted(st, A, mut, eff) /\ Left(st2, B, mut, eff) = Left(st, A, mut, eff)
    BY <1>1 DEF Accounted, Left
  <2> QED BY <1>1, <2>1, EndsKept
<1>3. Accounted(st2, B, mut, eff)
  BY <1>1, <1>2 DEF Accounted
<1> QED
  BY <1>1, <1>3 DEF StepOf, B

LEMMA RegisterAccounted ==
  ASSUME NEW st, NEW A, NEW mut, NEW eff, Accounted(st, A, mut, eff), NEW E0,
         NEW s, s \notin A, mut[s].type = "register_broker", NEW address, NEW timestamp
  PROVE  StepOf(st, A, registerBroker(st, address, timestamp), A \cup {s}, mut, eff, E0)
<1> DEFINE st2 == registerBroker(st, address, timestamp)
<1>1. IsState(st) /\ \A job \in JobsOf(st) : JobAccounted(job, A, mut, eff)
  BY DEF Accounted
<1>2. IsState(st2) /\ JobsOf(st2) = JobsOf(st) /\ st2.completedTotal = st.completedTotal
  BY <1>1, RegisterBroker
<1> HIDE DEF st2
<1>3. JobIds(st2) = JobIds(st)
  BY <1>2, JobsAndIds
<1>4. \A job \in JobsOf(st2) : JobAccounted(job, A, mut, eff)
  BY <1>1, <1>2
<1>5. StepOf(st, A, st2, A \cup {s}, mut, eff, E0)
  BY <1>2, <1>3, <1>4, QuietAccounted
<1> QED BY <1>5 DEF st2

LEMMA HeartbeatAccounted ==
  ASSUME NEW st, NEW A, NEW mut, NEW eff, Accounted(st, A, mut, eff), NEW E0,
         NEW s, s \notin A, mut[s].type = "heartbeat", NEW id, NEW worker, NEW now \in Nat
  PROVE  StepOf(st, A, heartbeatJob(st, id, worker, now), A \cup {s}, mut, eff, E0)
<1> DEFINE st2 == heartbeatJob(st, id, worker, now)
<1>1. IsState(st) /\ \A job \in JobsOf(st) : IsJob(job) /\ JobAccounted(job, A, mut, eff)
  BY JobsAreJobs DEF Accounted
<1>2. CASE st2 = st
  BY <1>1, <1>2, QuietAccounted
<1>3. ASSUME NEW job \in JobsOf(st), IsState(st2),
             JobsOf(st2) = (JobsOf(st) \ {job}) \cup {[job EXCEPT !.heartbeat = now]},
             st2.completedTotal = st.completedTotal
      PROVE  StepOf(st, A, st2, A \cup {s}, mut, eff, E0)
  <2> DEFINE beaten == [job EXCEPT !.heartbeat = now]
  <2>1. /\ beaten.id = job.id /\ beaten.attempts = job.attempts
        /\ beaten.maxAttempts = job.maxAttempts
        /\ beaten.status = job.status /\ beaten.workerId = job.workerId
    BY <1>1 DEF IsJob
  <2> HIDE DEF st2
  <2>2. JobsOf(st2) = (JobsOf(st) \ {job}) \cup {beaten}
    BY <1>3
  <2> HIDE DEF beaten
  <2>3. IsJob(beaten)
    BY <1>3, <2>2, JobsAreJobs
  <2>4. JobAccounted(beaten, A, mut, eff)
    BY <1>1, <2>1, <2>3, AccountsCopied
  <2>5. JobIds(st2) = JobIds(st)
    <3>1. \A i \in JobIds(st2) : i \in JobIds(st)
      BY <2>1, <2>2, JobsAndIds
    <3>2. \A j \in JobsOf(st) : \E k \in JobsOf(st2) : k.id = j.id
      BY <2>1, <2>2
    <3>3. \A i \in JobIds(st) : i \in JobIds(st2)
      BY <3>2, JobsAndIds
    <3> QED BY <3>1, <3>3
  <2>6. \A j \in JobsOf(st2) : JobAccounted(j, A, mut, eff)
    BY <1>1, <2>2, <2>4
  <2> QED BY <1>3, <2>5, <2>6, QuietAccounted
<1>4. \/ st2 = st
      \/ \E job \in JobsOf(st) :
           /\ IsState(st2)
           /\ JobsOf(st2) = (JobsOf(st) \ {job}) \cup {[job EXCEPT !.heartbeat = now]}
           /\ st2.completedTotal = st.completedTotal
  BY <1>1, HeartbeatJob
<1> QED
  BY <1>2, <1>3, <1>4

LEMMA CompleteAccounted ==
  ASSUME NEW st, NEW A, NEW mut, NEW eff, Accounted(st, A, mut, eff), NEW E0,
         NEW s, s \notin A, mut[s].type = "complete", mut[s].jobId \in E0
  PROVE  StepOf(st, A, completeJob(st, mut[s].jobId, mut[s].workerId),
                A \cup {s}, mut, eff, E0)
<1> DEFINE B == A \cup {s}
           done == mut[s].jobId
           worker == mut[s].workerId
           st2 == completeJob(st, done, worker)
<1> HIDE DEF done, worker
<1>1. /\ IsState(st) /\ Ledger(B, mut, eff) /\ IsFiniteSet(Enqueued(A, mut, eff))
      /\ Enqueued(B, mut, eff) = Enqueued(A, mut, eff)
      /\ JobIds(st) \subseteq Enqueued(A, mut, eff)
      /\ \A id : Completes(A, mut, id) \subseteq Completes(B, mut, id)
      /\ \A id : Claims(B, mut, eff, id) = Claims(A, mut, eff, id)
      /\ \A job : JobAccounted(job, A, mut, eff) => JobAccounted(job, B, mut, eff)
      /\ \A job \in JobsOf(st) : IsJob(job) /\ JobAccounted(job, A, mut, eff)
  <2>1. Quiet(st, A, B, mut, eff) /\ Ledger(A, mut, eff)
    BY QuietGrows DEF Accounted
  <2> QED BY <2>1 DEF Quiet, Ledger
<1>2. ASSUME st2 = st PROVE StepOf(st, A, st2, B, mut, eff, E0)
  BY <1>1, <1>2, QuietAccounted
<1>3. ASSUME NEW job \in JobsOf(st), job.id = done, IsState(st2),
             JobsOf(st2) = JobsOf(st) \ {job},
             st2.completedTotal = st.completedTotal + 1
      PROVE  StepOf(st, A, st2, B, mut, eff, E0)
  <2> HIDE DEF st2, B
  <2>1. done \in JobIds(st) /\ done \in E0
    BY <1>3, JobsAndIds DEF done
  <2>2. JobIds(st2) = JobIds(st) \ {done}
    <3>1. \A j \in JobsOf(st) : j.id = done => j = job
      BY <1>1, <1>3, OneJobPerId DEF IsState, IsJobList, JobsOf
    <3>2. \A i \in JobIds(st2) : i \in JobIds(st) /\ i # done
      BY <1>3, <3>1, JobsAndIds
    <3>3. \A j \in JobsOf(st) : j.id # done => j \in JobsOf(st2)
      BY <1>3
    <3> QED BY <3>2, <3>3, JobsAndIds
  <2>3. done \in Completes(B, mut, done) \/ s \in Completes(B, mut, done)
    BY DEF Completes, B, done
  <2>4. EndsAccounted(st2, B, mut, eff)
    <3>1. PICK D \in SUBSET Left(st, A, mut, eff) :
            /\ Cardinality(D) = st.completedTotal
            /\ \A id \in D : Completes(A, mut, id) # {}
            /\ \A id \in Left(st, A, mut, eff) \ D :
                  Cardinality(Claims(A, mut, eff, id)) >= maxAttemptsFor(mut, id)
      BY DEF Accounted, EndsAccounted
    <3> DEFINE D2 == D \cup {done}
    <3>2. Left(st2, B, mut, eff) = Left(st, A, mut, eff) \cup {done}
          /\ done \notin Left(st, A, mut, eff)
      BY <1>1, <2>1, <2>2 DEF Left
    <3>3. D2 \in SUBSET Left(st2, B, mut, eff)
      BY <3>2
    <3>4. Cardinality(D2) = st2.completedTotal
      <4>1. IsFiniteSet(D) /\ done \notin D
        BY <1>1, <3>2, FS_Subset DEF Left
      <4>2. Cardinality(D2) = Cardinality(D) + 1
        BY <4>1, FS_AddElement
      <4> QED BY <1>3, <3>1, <4>2
    <3>5. \A id \in D2 : Completes(B, mut, id) # {}
      BY <1>1, <2>3, <3>1
    <3>6. \A id \in Left(st2, B, mut, eff) \ D2 :
             Cardinality(Claims(B, mut, eff, id)) >= maxAttemptsFor(mut, id)
      BY <1>1, <3>1, <3>2
    <3> QED BY <3>3, <3>4, <3>5, <3>6 DEF EndsAccounted
  <2>5. Accounted(st2, B, mut, eff)
    BY <1>1, <1>3, <2>2, <2>4 DEF Accounted
  <2> QED BY <1>1, <2>1, <2>2, <2>5 DEF StepOf
<1>4. \/ st2 = st
      \/ \E job \in JobsOf(st) :
           /\ job.id = done /\ IsState(st2)
           /\ JobsOf(st2) = JobsOf(st) \ {job}
           /\ st2.completedTotal = st.completedTotal + 1
  BY <1>1, CompleteJob
<1> HIDE DEF st2, B
<1>5. StepOf(st, A, st2, B, mut, eff, E0)
  BY <1>2, <1>3, <1>4
<1> QED BY <1>5 DEF st2, B, done, worker

LEMMA EnqueueAccounted ==
  ASSUME NEW st, NEW A, NEW mut, NEW eff, Accounted(st, A, mut, eff), NEW E0,
         NEW s, s \notin A, mut[s].type = "enqueue", IsSpecList(mut[s].jobs),
         NEW n \in Nat, None \notin IdsOf(s, n, mut[s].jobs),
         eff[s] = enqueueJobs(st, mut[s].jobs, <<s, n>>).result
  PROVE  StepOf(st, A, enqueueJobs(st, mut[s].jobs, <<s, n>>).state,
                A \cup {s}, mut, eff, E0)
<1> DEFINE B == A \cup {s}
           specs == mut[s].jobs
           new == enqueueJobs(st, specs, <<s, n>>)
           st2 == new.state
           E == Enqueued(A, mut, eff)
           N == IdsOf(s, n, specs)
<1>1. /\ IsState(st) /\ IsFiniteSet(A) /\ Ledger(A, mut, eff) /\ JobIds(st) \subseteq E
      /\ \A job \in JobsOf(st) : IsJob(job) /\ JobAccounted(job, A, mut, eff)
  BY JobsAreJobs DEF Accounted, Ledger
<1>2. \A id \in N : id \notin E
  <2>1. \A id \in E : id[1] \in A
    BY <1>1, IdsOfIs DEF Ledger, Enqueued
  <2>2. \A id \in N : id[1] = s
    BY IdsOfIs
  <2> QED BY <2>1, <2>2
<1>3. /\ IsState(st2) /\ new.result.enqueuedIds = N
      /\ JobsOf(st2) = JobsOf(st) \cup {newJob(specs[i], IdAt(s, n, i)) : i \in DOMAIN specs}
      /\ st2.completedTotal = st.completedTotal
  <2>1. IsSeq(<<s, n>>)
    BY IdIs
  <2> DEFINE seed == <<s, n>>
  <2>2. \A i \in DOMAIN specs : Append(seed, i) \notin JobIds(st)
    BY <1>1, <1>2 DEF IdsOf
  <2> HIDE DEF specs, seed
  <2>3. LET c == enqueueJobs(st, specs, seed)
        IN /\ IsState(c.state)
           /\ c.result.enqueuedIds = {Append(seed, i) : i \in DOMAIN specs}
           /\ JobsOf(c.state) = JobsOf(st) \cup newJobs(specs, seed)
           /\ c.state.completedTotal = st.completedTotal
    <3>1. IsSpecList(specs) /\ IsSeq(seed)
      BY <2>1 DEF specs, seed
    <3> QED BY <1>1, <2>2, <3>1, EnqueueJobs
  <2> QED BY <2>3 DEF IdsOf, IdAt, seed, newJobs
<1> HIDE DEF new, st2
<1>4. eff[s].enqueuedIds = N
  BY <1>3 DEF new
<1>5. Enqueued(B, mut, eff) = E \cup N
  <2>1. Enqueued(B, mut, eff) = E \cup eff[s].enqueuedIds
    BY DEF Enqueued
  <2> QED BY <1>4, <2>1
<1>6. /\ \A id : Claims(B, mut, eff, id) = Claims(A, mut, eff, id)
      /\ \A id : Completes(A, mut, id) \subseteq Completes(B, mut, id)
  BY DEF Claims, Completes
<1>7. \A id \in N : Claims(B, mut, eff, id) = {}
  <2>1. \A id \in N : id # None /\ id \notin E
    BY <1>2
  <2> QED BY <1>1, <1>6, <2>1 DEF Claims, Ledger
<1>8. IsFiniteSet(E \cup N)
  <2>1. Len(specs) \in Nat /\ DOMAIN specs = 1..Len(specs)
    BY IsSeqFacts DEF IsSpecList
  <2> DEFINE at == [i \in 1..Len(specs) |-> IdAt(s, n, i)]
  <2>2. at \in Surjection(1..Len(specs), N)
    BY <2>1 DEF Surjection, IdsOf, IdAt
  <2>3. IsFiniteSet(1..Len(specs))
    <3>1. 1 \in Int /\ Len(specs) \in Int
      BY <2>1
    <3> QED BY <3>1, FS_Interval
  <2>4. IsFiniteSet(N)
    BY <2>2, <2>3, FS_Surjection DEF ExistsSurjection
  <2> QED BY <1>1, <2>4, FS_Union DEF Ledger
<1>9. Ledger(B, mut, eff)
  <2>1. IsFiniteSet(B)
    BY <1>1, FS_AddElement
  <2> QED BY <1>1, <1>4, <1>5, <1>8, <2>1 DEF Ledger
<1>10. ASSUME NEW i \in DOMAIN specs
       PROVE  JobAccounted(newJob(specs[i], IdAt(s, n, i)), B, mut, eff)
  <2> DEFINE id == IdAt(s, n, i)
             job == newJob(specs[i], id)
  <2>1. id[1] = s /\ id[3] = i
    BY IdIs
  <2>2. id \in N
    BY DEF IdsOf, IdAt
  <2> HIDE DEF id
  <2>3. /\ job.id = id /\ job.status = "unclaimed" /\ job.attempts = 0
        /\ job.maxAttempts = specs[i].maxAttempts
    BY DEF newJob
  <2>4. IsJob(job)
    BY <1>3, JobsAreJobs DEF id
  <2> HIDE DEF job
  <2>5. Cardinality(Claims(B, mut, eff, id)) = 0
    BY <1>7, <2>2, FS_EmptySet
  <2>6. 0 <= atMost(job) - 1
    BY <2>4, AtMostIs
  <2>7. JobAccounted(job, B, mut, eff)
    BY <2>1, <2>3, <2>5, <2>6 DEF JobAccounted
  <2> QED BY <2>7 DEF id, job
<1>11. \A job \in JobsOf(st2) : JobAccounted(job, B, mut, eff)
  <2>1. \A job \in JobsOf(st) : JobAccounted(job, B, mut, eff)
    BY <1>1, <1>6 DEF JobAccounted
  <2> QED BY <1>3, <1>10, <2>1
<1>12. JobIds(st2) = JobIds(st) \cup N
  <2>1. \A i \in DOMAIN specs : newJob(specs[i], IdAt(s, n, i)).id = IdAt(s, n, i)
    BY DEF newJob
  <2>2. \A id \in JobIds(st2) : id \in JobIds(st) \cup N
    BY <1>3, <2>1, JobsAndIds DEF IdsOf, IdAt
  <2>3. \A id \in JobIds(st) : id \in JobIds(st2)
    BY <1>3, JobsAndIds
  <2>4. \A id \in N : \E i \in DOMAIN specs : id = newJob(specs[i], IdAt(s, n, i)).id
    BY <2>1 DEF IdsOf, IdAt
  <2>5. \A id \in N : id \in JobIds(st2)
    BY <1>3, <2>4, JobsAndIds
  <2> QED BY <2>2, <2>3, <2>5
<1>13. EndsAccounted(st2, B, mut, eff)
  <2>1. Left(st2, B, mut, eff) = Left(st, A, mut, eff)
    BY <1>2, <1>5, <1>12 DEF Left
  <2>2. EndsAccounted(st, A, mut, eff)
    BY DEF Accounted
  <2> QED BY <1>3, <1>6, <2>1, <2>2, EndsKept
<1>14. Accounted(st2, B, mut, eff)
  BY <1>1, <1>3, <1>5, <1>9, <1>11, <1>12, <1>13 DEF Accounted
<1>15. StepOf(st, A, st2, B, mut, eff, E0)
  BY <1>1, <1>2, <1>5, <1>12, <1>14 DEF StepOf
<1> QED
  BY <1>15 DEF st2, new

(* A mutation as it is submitted: of one of the five kinds, and with a job *)
(* list when it enqueues.                                                  *)
MutationTypes == {"enqueue", "claim", "heartbeat", "complete", "register_broker"}
IsMutation(m) == m.type \in MutationTypes /\ (m.type = "enqueue" => IsSpecList(m.jobs))

LEMMA MutationAccounted ==
  ASSUME NEW st, NEW A, NEW mut, NEW eff, Accounted(st, A, mut, eff), NEW E0,
         NEW s, s \notin A, IsMutation(mut[s]),
         mut[s].type = "complete" => mut[s].jobId \in E0,
         NEW n \in Nat, mut[s].type = "enqueue" => None \notin IdsOf(s, n, mut[s].jobs),
         NEW now \in Nat,
         eff[s] = applyMutation(st, mut[s], <<s, n>>, now).result
  PROVE  StepOf(st, A, applyMutation(st, mut[s], <<s, n>>, now).state,
                A \cup {s}, mut, eff, E0)
<1>1. CASE mut[s].type = "enqueue"
  <2>1. applyMutation(st, mut[s], <<s, n>>, now) = enqueueJobs(st, mut[s].jobs, <<s, n>>)
    BY <1>1 DEF applyMutation
  <2> QED BY <1>1, <2>1, EnqueueAccounted DEF IsMutation
<1>2. CASE mut[s].type = "claim"
  <2>1. applyMutation(st, mut[s], <<s, n>>, now)
          = claimJob(st, mut[s].workerId, mut[s].jobTypes, now)
    BY <1>2 DEF applyMutation
  <2> QED BY <1>2, <2>1, ClaimAccounted
<1>3. CASE mut[s].type = "heartbeat"
  <2>1. applyMutation(st, mut[s], <<s, n>>, now).state
          = heartbeatJob(st, mut[s].jobId, mut[s].workerId, now)
    BY <1>3 DEF applyMutation
  <2> QED BY <1>3, <2>1, HeartbeatAccounted
<1>4. CASE mut[s].type = "complete"
  <2>1. applyMutation(st, mut[s], <<s, n>>, now).state
          = completeJob(st, mut[s].jobId, mut[s].workerId)
    BY <1>4 DEF applyMutation
  <2> QED BY <1>4, <2>1, CompleteAccounted
<1>5. CASE mut[s].type = "register_broker"
  <2>1. applyMutation(st, mut[s], <<s, n>>, now).state
          = registerBroker(st, mut[s].brokerAddress, mut[s].timestamp)
    BY <1>5 DEF applyMutation
  <2> QED BY <1>5, <2>1, RegisterAccounted
<1> QED
  BY <1>1, <1>2, <1>3, <1>4, <1>5 DEF IsMutation, MutationTypes

(***************************************************************************)
(* The pass over a batch.                                                  *)
(***************************************************************************)
LEMMA WorkIs ==
  ASSUME NEW mut, NEW batch, IsSeq(batch), NEW n
  PROVE  /\ Len(batch) \in Nat /\ DOMAIN batch = 1..Len(batch)
         /\ Len(WorkOf(mut, batch, n)) = Len(batch)
         /\ \A i \in 1..Len(batch) : /\ WorkOf(mut, batch, n)[i].mutation = mut[batch[i]]
                                     /\ WorkOf(mut, batch, n)[i].seed = <<batch[i], n>>
<1> DEFINE work == WorkOf(mut, batch, n)
           item(i) == [mutation |-> mut[batch[i]], seed |-> <<batch[i], n>>]
           m == Len(batch)
           T == {item(i) : i \in 1..m}
<1>1. m \in Nat /\ DOMAIN batch = 1..m
  BY IsSeqFacts
<1>2. work = [i \in 1..m |-> item(i)]
  BY <1>1 DEF WorkOf
<1> HIDE DEF m, work
<1>3. work \in [1..m -> T]
  BY <1>2
<1> HIDE DEF T
<1>4. work \in Seq(T)
  BY <1>1, <1>3, SeqDef
<1>5. Len(work) = m
  BY <1>1, <1>3, <1>4, LenProperties
<1>6. \A i \in 1..m : work[i].mutation = mut[batch[i]] /\ work[i].seed = <<batch[i], n>>
  BY <1>2
<1> QED
  BY <1>1, <1>5, <1>6 DEF m, work

PassEnds(st, A, st2, A2, mut, eff) ==
    /\ Accounted(st2, A2, mut, eff)
    /\ Enqueued(A, mut, eff) \subseteq Enqueued(A2, mut, eff)
    /\ Enqueued(A2, mut, eff) \ Enqueued(A, mut, eff) \subseteq JobIds(st2)
    /\ JobIds(st2) \cap Enqueued(A, mut, eff) \subseteq JobIds(st)

LEMMA OneMoreStep ==
  ASSUME NEW st, NEW A, NEW mut, NEW eff, NEW st1, NEW A1, PassEnds(st, A, st1, A1, mut, eff),
         NEW st2, NEW A2, StepOf(st1, A1, st2, A2, mut, eff, Enqueued(A, mut, eff))
  PROVE  PassEnds(st, A, st2, A2, mut, eff)
  BY DEF PassEnds, StepOf

(* A batch that may be applied to st: its submissions are new to A.        *)
Passable(st, A, mut, eff, batch, n) ==
    /\ Accounted(st, A, mut, eff)
    /\ IsSeq(batch) /\ IsInjective(batch) /\ n \in Nat
    /\ \A s \in ToSet(batch) :
          /\ s \notin A /\ IsMutation(mut[s])
          /\ mut[s].type = "complete" => mut[s].jobId \in Enqueued(A, mut, eff)
          /\ mut[s].type = "enqueue" => None \notin IdsOf(s, n, mut[s].jobs)

(* The states of the pass over it, each with its accounts.                 *)
GoesThrough(at, st, A, mut, eff, batch, n, now) ==
    /\ at[0] = expireHeartbeats(st, now)
    /\ at[Len(batch)] = applyBatch(st, WorkOf(mut, batch, n), now).state
    /\ \A i \in 1..Len(batch) :
          at[i] = applyMutation(at[i - 1], mut[batch[i]], <<batch[i], n>>, now).state
    /\ \A i \in 0..Len(batch) :
          PassEnds(st, A, at[i], A \cup {batch[k] : k \in 1..i}, mut, eff)

LEMMA PassStates ==
  ASSUME NEW st, NEW A, NEW mut, NEW eff, NEW batch, NEW n, Passable(st, A, mut, eff, batch, n),
         NEW now \in Nat,
         \A i \in DOMAIN batch :
            eff[batch[i]] = applyBatch(st, WorkOf(mut, batch, n), now).results[i]
  PROVE  \E at : GoesThrough(at, st, A, mut, eff, batch, n, now)
<1>0. /\ Accounted(st, A, mut, eff) /\ IsSeq(batch) /\ IsInjective(batch) /\ n \in Nat
      /\ \A s \in ToSet(batch) :
            /\ s \notin A /\ IsMutation(mut[s])
            /\ mut[s].type = "complete" => mut[s].jobId \in Enqueued(A, mut, eff)
            /\ mut[s].type = "enqueue" => None \notin IdsOf(s, n, mut[s].jobs)
  BY DEF Passable
<1> DEFINE work == WorkOf(mut, batch, n)
           len == Len(batch)
<1>1. /\ len \in Nat /\ DOMAIN batch = 1..len /\ Len(work) = len
      /\ \A i \in 1..len : work[i].mutation = mut[batch[i]] /\ work[i].seed = <<batch[i], n>>
  BY <1>0, WorkIs
<1> HIDE DEF work, len
<1>2. PICK at : /\ at[0] = expireHeartbeats(st, now)
                /\ at[len] = applyBatch(st, work, now).state
                /\ \A i \in 1..len :
                      LET step == applyMutation(at[i - 1], work[i].mutation, work[i].seed, now)
                      IN /\ at[i] = step.state
                         /\ applyBatch(st, work, now).results[i] = step.result
  <2>1. Len(work) \in Nat
    BY <1>1
  <2>2. PICK at : /\ at[0] = expireHeartbeats(st, now)
                  /\ at[Len(work)] = applyBatch(st, work, now).state
                  /\ \A i \in 1..Len(work) :
                        LET step == applyMutation(at[i - 1], work[i].mutation, work[i].seed, now)
                        IN /\ at[i] = step.state
                           /\ applyBatch(st, work, now).results[i] = step.result
    BY <2>1, BatchSteps
  <2> QED BY <1>1, <2>2
<1> DEFINE B(i) == A \cup {batch[k] : k \in 1..i}
           Good == {i \in 0..len : PassEnds(st, A, at[i], B(i), mut, eff)}
<1>3. ASSUME NEW i \in 1..len
      PROVE  LET step == applyMutation(at[i - 1], mut[batch[i]], <<batch[i], n>>, now)
             IN at[i] = step.state /\ eff[batch[i]] = step.result
  BY <1>1, <1>2 DEF work
<1>4. 0 \in Good
  <2>1. Accounted(at[0], A, mut, eff) /\ JobIds(at[0]) \subseteq JobIds(st)
    BY <1>0, <1>2, ExpiryAccounted
  <2>2. B(0) = A
    OBVIOUS
  <2>3. PassEnds(st, A, at[0], B(0), mut, eff)
    BY <2>1, <2>2 DEF PassEnds
  <2> QED BY <1>1, <2>3
<1>5. ASSUME NEW i \in 1..len, i - 1 \in Good PROVE i \in Good
  <2> DEFINE s == batch[i]
             A1 == B(i - 1)
             st1 == at[i - 1]
  <2>1. PassEnds(st, A, st1, A1, mut, eff)
    BY <1>5
  <2>2. s \in ToSet(batch) /\ s \notin A1
    <3>1. s \in ToSet(batch)
      BY <1>1 DEF ToSet
    <3>2. \A k \in 1..(i - 1) : batch[k] # s
      BY <1>0, <1>1 DEF IsInjective
    <3> QED BY <1>0, <3>1, <3>2
  <2>3. B(i) = A1 \cup {s}
    <3>1. 1..i = (1..(i - 1)) \cup {i}
      BY <1>1
    <3> QED BY <3>1
  <2> HIDE DEF s, A1, st1, B, Good
  <2>4. StepOf(st1, A1, at[i], A1 \cup {s}, mut, eff, Enqueued(A, mut, eff))
    <3>1. Accounted(st1, A1, mut, eff)
      BY <2>1 DEF PassEnds
    <3>2. /\ IsMutation(mut[s])
          /\ mut[s].type = "complete" => mut[s].jobId \in Enqueued(A, mut, eff)
          /\ mut[s].type = "enqueue" => None \notin IdsOf(s, n, mut[s].jobs)
      BY <1>0, <2>2
    <3>3. /\ at[i] = applyMutation(st1, mut[s], <<s, n>>, now).state
          /\ eff[s] = applyMutation(st1, mut[s], <<s, n>>, now).result
      BY <1>3 DEF s, st1
    <3> DEFINE E0 == Enqueued(A, mut, eff)
    <3>4. /\ s \notin A1 /\ IsMutation(mut[s])
          /\ mut[s].type = "complete" => mut[s].jobId \in E0
      BY <2>2, <3>2
    <3> HIDE DEF E0
    <3>5. StepOf(st1, A1, applyMutation(st1, mut[s], <<s, n>>, now).state,
                 A1 \cup {s}, mut, eff, E0)
      BY <1>0, <3>1, <3>2, <3>3, <3>4, MutationAccounted
    <3> QED BY <3>3, <3>5 DEF E0
  <2>5. PassEnds(st, A, at[i], B(i), mut, eff)
    BY <2>1, <2>3, <2>4, OneMoreStep
  <2> QED BY <1>1, <2>5 DEF Good
<1> HIDE DEF Good
<1>6. \A i \in 0..len : i \in Good
  BY <1>1, <1>4, <1>5, PassInduction
<1>7. \A i \in 0..len : PassEnds(st, A, at[i], B(i), mut, eff)
  BY <1>6 DEF Good
<1> HIDE DEF B
<1>8. /\ at[len] = applyBatch(st, WorkOf(mut, batch, n), now).state
      /\ \A i \in 1..len :
            at[i] = applyMutation(at[i - 1], mut[batch[i]], <<batch[i], n>>, now).state
  BY <1>2, <1>3 DEF work
<1> QED
  BY <1>2, <1>7, <1>8 DEF GoesThrough, len, B

LEMMA PassAccounted ==
  ASSUME NEW st, NEW A, NEW mut, NEW eff, NEW batch, NEW n, Passable(st, A, mut, eff, batch, n),
         NEW now \in Nat,
         \A i \in DOMAIN batch :
            eff[batch[i]] = applyBatch(st, WorkOf(mut, batch, n), now).results[i]
  PROVE  PassEnds(st, A, applyBatch(st, WorkOf(mut, batch, n), now).state,
                  A \cup ToSet(batch), mut, eff)
<1> DEFINE new == applyBatch(st, WorkOf(mut, batch, n), now).state
<1>1. Len(batch) \in Nat /\ DOMAIN batch = 1..Len(batch)
  BY IsSeqFacts DEF Passable
<1>2. PICK at : GoesThrough(at, st, A, mut, eff, batch, n, now)
  BY PassStates
<1>3. PassEnds(st, A, at[Len(batch)], A \cup {batch[k] : k \in 1..Len(batch)}, mut, eff)
  <2> DEFINE len == Len(batch)
             Ends(i) == PassEnds(st, A, at[i], A \cup {batch[k] : k \in 1..i}, mut, eff)
  <2>1. len \in Nat /\ \A i \in 0..len : Ends(i)
    BY <1>1, <1>2 DEF GoesThrough
  <2> HIDE DEF len, Ends
  <2>2. Ends(len)
    BY <2>1
  <2> QED BY <2>2 DEF len, Ends
<1>4. at[Len(batch)] = new
  BY <1>2 DEF GoesThrough
<1>5. {batch[k] : k \in 1..Len(batch)} = ToSet(batch)
  BY <1>1 DEF ToSet
<1> HIDE DEF new
<1>6. PassEnds(st, A, new, A \cup ToSet(batch), mut, eff)
  BY <1>3, <1>4, <1>5
<1> QED
  BY <1>6 DEF new

(* The accounts only look at the mutations of A.                           *)
LEMMA AccountsAgree ==
  ASSUME NEW st, NEW A, NEW mut, NEW eff, Accounted(st, A, mut, eff), NEW mut2, NEW eff2,
         \A s \in A : mut2[s] = mut[s] /\ eff2[s] = eff[s]
  PROVE  /\ Accounted(st, A, mut2, eff2)
         /\ Enqueued(A, mut2, eff2) = Enqueued(A, mut, eff)
<1> DEFINE E == Enqueued(A, mut, eff)
<1>1. Enqueued(A, mut2, eff2) = E
  BY DEF Enqueued
<1>2. ASSUME NEW id
      PROVE  /\ Claims(A, mut2, eff2, id) = Claims(A, mut, eff, id)
             /\ Completes(A, mut2, id) = Completes(A, mut, id)
  BY DEF Claims, Completes
<1>3. IsState(st) /\ Ledger(A, mut, eff) /\ JobIds(st) \subseteq E
      /\ \A job \in JobsOf(st) : JobAccounted(job, A, mut, eff)
  BY DEF Accounted
<1>4. \A id \in E : mut2[id[1]] = mut[id[1]]
  BY <1>3, IdsOfIs DEF Ledger, Enqueued
<1>5. Ledger(A, mut2, eff2)
  BY <1>1, <1>3 DEF Ledger
<1>6. ASSUME NEW job \in JobsOf(st) PROVE JobAccounted(job, A, mut2, eff2)
  <2>1. mut2[job.id[1]] = mut[job.id[1]]
    BY <1>3, <1>4, JobsAreJobs
  <2>2. \A s \in Claims(A, mut, eff, job.id) : mut2[s] = mut[s]
    BY DEF Claims
  <2>3. JobAccounted(job, A, mut, eff)
    BY <1>3
  <2> QED BY <1>2, <2>1, <2>2, <2>3 DEF JobAccounted
<1>7. EndsAccounted(st, A, mut2, eff2)
  <2>1. Left(st, A, mut2, eff2) = Left(st, A, mut, eff)
    BY <1>1 DEF Left
  <2>2. \A id \in Left(st, A, mut, eff) : maxAttemptsFor(mut2, id) = maxAttemptsFor(mut, id)
    BY <1>4 DEF Left, maxAttemptsFor
  <2>3. PICK D \in SUBSET Left(st, A, mut, eff) :
          /\ Cardinality(D) = st.completedTotal
          /\ \A id \in D : Completes(A, mut, id) # {}
          /\ \A id \in Left(st, A, mut, eff) \ D :
                Cardinality(Claims(A, mut, eff, id)) >= maxAttemptsFor(mut, id)
    BY DEF Accounted, EndsAccounted
  <2>4. \A id \in D : Completes(A, mut2, id) # {}
    BY <1>2, <2>3
  <2>5. \A id \in Left(st, A, mut, eff) \ D :
           Cardinality(Claims(A, mut2, eff2, id)) >= maxAttemptsFor(mut2, id)
    BY <1>2, <2>2, <2>3
  <2> QED BY <2>1, <2>3, <2>4, <2>5 DEF EndsAccounted
<1> QED
  BY <1>1, <1>3, <1>5, <1>6, <1>7 DEF Accounted

(***************************************************************************)
(* The engines.                                                            *)
(***************************************************************************)
AppliedOf(com) == {s \in Submissions : com[s] # 0}

InAccount(st, com, mut, eff, left) ==
    /\ Accounted(st, AppliedOf(com), mut, eff)
    /\ left = Left(st, AppliedOf(com), mut, eff)

(* Workers only complete jobs that were enqueued.                          *)
IsAsked(m, com, mut, eff) ==
    /\ IsMutation(m)
    /\ m.type = "complete" => m.jobId \in Enqueued(AppliedOf(com), mut, eff)

(* What has been applied accounts for the jobs in the queue and for the    *)
(* ones that have left it.                                                 *)
AccountsSound ==
    /\ InAccount(store.state, commits, mutation, effect, gone)
    /\ \A s \in Submissions :
          outcome[s] # "new" => IsAsked(mutation[s], commits, mutation, effect)

LEMMA AccountsPrimed ==
  AccountsSound' =
    (/\ InAccount(store'.state, commits', mutation', effect', gone')
     /\ \A s \in Submissions :
           outcome'[s] # "new" => IsAsked(mutation'[s], commits', mutation', effect'))
  BY DEF AccountsSound, InAccount, IsAsked, AppliedOf, Accounted, Left, Ledger, JobAccounted,
         EndsAccounted, Enqueued, Claims, Completes, maxAttemptsFor, IdsOf

LEMMA AccountsInit == Init => AccountsSound
<1> SUFFICES ASSUME Init PROVE AccountsSound
  OBVIOUS
<1> DEFINE A == AppliedOf(commits)
<1>1. A = {} /\ store.state = emptyState /\ gone = {} /\ \A s \in Submissions : outcome[s] = "new"
  BY DEF Init, AppliedOf
<1>2. IsState(emptyState) /\ JobsOf(emptyState) = {} /\ JobIds(emptyState) = {}
  BY EmptyIsState
<1>3. Enqueued({}, mutation, effect) = {}
  BY DEF Enqueued
<1>4. Ledger({}, mutation, effect)
  BY <1>3, FS_EmptySet DEF Ledger
<1>5. Left(emptyState, {}, mutation, effect) = {}
  BY <1>3 DEF Left
<1>6. EndsAccounted(emptyState, {}, mutation, effect)
  <2>1. Cardinality({}) = emptyState.completedTotal
    BY FS_EmptySet DEF emptyState
  <2> QED BY <1>5, <2>1 DEF EndsAccounted
<1>7. Accounted(emptyState, {}, mutation, effect)
  BY <1>2, <1>3, <1>4, <1>6 DEF Accounted
<1> QED
  BY <1>1, <1>5, <1>7 DEF AccountsSound, InAccount

(* The batch of a landing write may be applied to what is stored.          *)
LEMMA LandingPasses ==
  ASSUME EngineSound, AccountsSound, NEW b \in Brokers, NEW l \in Slots,
         InFlight(loop[<<b, l>>]), versionMatches(loop[<<b, l>>]), Land(loop[<<b, l>>])
  PROVE  LET lp == loop[<<b, l>>]
             A == AppliedOf(commits)
         IN /\ Passable(store.state, A, mutation, effect', lp.batch, lp.attempt)
            /\ Enqueued(A, mutation, effect') = Enqueued(A, mutation, effect)
            /\ AppliedOf(commits') = A \cup ToSet(lp.batch)
            /\ \A now : PassAt(lp, mutation, store.state, now) =>
                  LET pass == applyBatch(store.state, WorkOf(mutation, lp.batch, lp.attempt), now)
                  IN /\ lp.data = pass.state
                     /\ \A i \in DOMAIN lp.batch : effect'[lp.batch[i]] = pass.results[i]
<1> DEFINE lp == loop[<<b, l>>]
           B == ToSet(lp.batch)
           A == AppliedOf(commits)
           st == store.state
           E == Enqueued(A, mutation, effect)
<1>1. /\ lp.batch \in Seq(Submissions) /\ IsInjective(lp.batch) /\ B \subseteq Submissions
      /\ lp.attempt \in 0..MaxRetries
      /\ \A s \in B : outcome[s] \in {"pending", "rejected"} /\ commits[s] = 0
      /\ commits' = [s \in Submissions |-> commits[s] + (IF s \in B THEN 1 ELSE 0)]
      /\ \A s \in Submissions : s \notin B => effect'[s] = effect[s]
      /\ \A i \in DOMAIN lp.batch : effect'[lp.batch[i]] = lp.results[i]
  BY LandingIs
<1>2. lp.attempt \in Nat /\ commits \in [Submissions -> Nat]
  BY <1>1, RetriesAssumption DEF EngineSound, TypeOK
<1> HIDE DEF lp, B
<1>3. AppliedOf(commits') = A \cup B
  BY <1>1, <1>2 DEF AppliedOf
<1>4. \A s \in B : s \notin A
  BY <1>1 DEF AppliedOf
<1>5. Accounted(st, A, mutation, effect') /\ Enqueued(A, mutation, effect') = E
  <2>1. \A s \in A : effect'[s] = effect[s]
    BY <1>1, <1>4 DEF AppliedOf
  <2>2. Accounted(st, A, mutation, effect)
    BY DEF AccountsSound, InAccount
  <2> QED BY <2>1, <2>2, AccountsAgree
<1>6. ASSUME NEW s \in B
      PROVE  /\ s \notin A /\ IsMutation(mutation[s])
             /\ mutation[s].type = "complete" => mutation[s].jobId \in E
             /\ mutation[s].type = "enqueue" =>
                   None \notin IdsOf(s, lp.attempt, mutation[s].jobs)
  <2>1. s \notin A /\ s \in Submissions /\ outcome[s] # "new"
    BY <1>1, <1>4
  <2>2. /\ IsMutation(mutation[s])
        /\ mutation[s].type = "complete" => mutation[s].jobId \in E
    BY <2>1 DEF AccountsSound, IsAsked
  <2>3. ASSUME mutation[s].type = "enqueue", None \in IdsOf(s, lp.attempt, mutation[s].jobs)
        PROVE  FALSE
    <3>1. IsSpecList(mutation[s].jobs)
      BY <2>2, <2>3 DEF IsMutation
    <3>2. PICK i \in DOMAIN mutation[s].jobs : None = Append(<<s, lp.attempt>>, i)
      BY <2>3 DEF IdsOf
    <3>3. i \in Nat
      BY <3>1, IsSeqFacts DEF IsSpecList
    <3>4. Append(<<s, lp.attempt>>, i) = <<s, lp.attempt, i>>
      BY IdIsTriple DEF IdAt
    <3> QED BY <1>1, <2>1, <3>2, <3>3, <3>4, JobIdsAssumption
  <2> QED BY <2>1, <2>2, <2>3
<1>7. IsSeq(lp.batch)
  BY <1>1, IsSeqOf
<1>8. Passable(st, A, mutation, effect', lp.batch, lp.attempt)
  BY <1>1, <1>2, <1>5, <1>6, <1>7 DEF Passable, B
<1>9. ASSUME NEW now, PassAt(lp, mutation, st, now)
      PROVE  LET pass == applyBatch(st, WorkOf(mutation, lp.batch, lp.attempt), now)
             IN /\ lp.data = pass.state
                /\ \A i \in DOMAIN lp.batch : effect'[lp.batch[i]] = pass.results[i]
  BY <1>1, <1>9 DEF PassAt
<1> QED
  BY <1>3, <1>5, <1>8, <1>9 DEF lp, B

(* A landing write settles the accounts with the batch it carries.         *)
LEMMA AccountsLanded ==
  ASSUME EngineSound, AccountsSound, NEW b \in Brokers, NEW l \in Slots,
         InFlight(loop[<<b, l>>]), versionMatches(loop[<<b, l>>]), Land(loop[<<b, l>>]),
         mutation' = mutation
  PROVE  /\ InAccount(store'.state, commits', mutation', effect', gone')
         /\ Enqueued(AppliedOf(commits), mutation, effect)
              \subseteq Enqueued(AppliedOf(commits'), mutation', effect')
<1> DEFINE lp == loop[<<b, l>>]
           B == ToSet(lp.batch)
           A == AppliedOf(commits)
           st == store.state
           E == Enqueued(A, mutation, effect)
           E2 == Enqueued(A \cup B, mutation, effect')
<1>1. PICK now \in 0..clock : PassAt(lp, mutation, st, now)
  BY LandingIs
<1>2. /\ Passable(st, A, mutation, effect', lp.batch, lp.attempt)
      /\ Enqueued(A, mutation, effect') = E
      /\ AppliedOf(commits') = A \cup B
      /\ lp.data = applyBatch(st, WorkOf(mutation, lp.batch, lp.attempt), now).state
      /\ \A i \in DOMAIN lp.batch : effect'[lp.batch[i]] =
            applyBatch(st, WorkOf(mutation, lp.batch, lp.attempt), now).results[i]
  BY <1>1, LandingPasses
<1>3. store'.state = lp.data /\ gone' = gone \cup (JobIds(st) \ JobIds(lp.data))
  BY DEF Land
<1>4. JobIds(st) \subseteq E /\ gone = E \ JobIds(st)
  BY DEF AccountsSound, InAccount, Accounted, Left
<1> DEFINE eff == effect'
<1>5. PassEnds(st, A, lp.data, A \cup B, mutation, eff)
  <2> DEFINE batch == lp.batch
             n == lp.attempt
             mut == mutation
  <2>1. now \in Nat
    BY DEF EngineSound, TypeOK
  <2>2. /\ Passable(st, A, mut, eff, batch, n)
        /\ \A i \in DOMAIN batch :
              eff[batch[i]] = applyBatch(st, WorkOf(mut, batch, n), now).results[i]
    BY <1>2
  <2> HIDE DEF batch, n, mut, eff, A, st
  <2>3. PassEnds(st, A, applyBatch(st, WorkOf(mut, batch, n), now).state,
                 A \cup ToSet(batch), mut, eff)
    BY <2>1, <2>2, PassAccounted
  <2> QED BY <1>2, <2>3 DEF batch, n, mut, B
<1> HIDE DEF A, B, E, E2, st, lp, eff
<1>6. /\ Accounted(lp.data, A \cup B, mutation, effect')
      /\ E \subseteq E2 /\ E2 \ E \subseteq JobIds(lp.data)
      /\ JobIds(lp.data) \cap E \subseteq JobIds(st)
  BY <1>2, <1>5 DEF PassEnds, E2, eff
<1>7. gone' = E2 \ JobIds(lp.data)
  BY <1>3, <1>4, <1>6
<1>8. gone' = Left(lp.data, A \cup B, mutation, effect')
  BY <1>7 DEF Left, E2
<1> QED
  BY <1>2, <1>3, <1>6, <1>8 DEF InAccount, E, E2, A, lp

(* Only submit makes a submission, and what it asks for stays.             *)
LEMMA AskMoves ==
  ASSUME EngineSound, [Next]_vars, NEW s \in Submissions, outcome'[s] # "new"
  PROVE  \/ outcome[s] # "new" /\ mutation'[s] = mutation[s]
         \/ /\ UNCHANGED storeVars
            /\ \E b \in Brokers : \E m \in Requests(b) : mutation'[s] = m
<1>0. TypeOK /\ PlacesSound /\ DOMAIN mutation = Submissions
  BY DEF EngineSound
<1>1. outcome[s] # "new" => mutation'[s] = mutation[s]
  BY <1>0, Frame
<1> DEFINE Old == outcome[s] # "new"
           Asked == /\ UNCHANGED storeVars
                    /\ \E b \in Brokers : \E m \in Requests(b) : mutation'[s] = m
<1>2. ASSUME NEW D, NEW verdict, Settle(D, verdict), \A t \in D : outcome[t] # "new"
      PROVE  Old
  BY <1>2 DEF Settle
<1>3. ASSUME NEW b \in Brokers, NEW t \in Submissions, NEW m \in Requests(b), submit(b, t, m)
      PROVE  Old \/ Asked
  <2>1. CASE t = s
    <3>1. UNCHANGED storeVars /\ mutation'[s] = m
      BY <1>0, <1>3, <2>1 DEF submit
    <3> QED BY <3>1
  <2>2. CASE t # s
    BY <1>0, <1>3, <2>2 DEF submit, TypeOK
  <2> QED BY <2>1, <2>2
<1>4. ASSUME NEW b \in Brokers, stop(b) \/ \E l \in Slots : ReadFails(b, l) PROVE Old
  <2>1. Settle(ToSet(buffer[b]), "rejected")
    BY <1>4 DEF stop, ReadFails, Reject
  <2>2. \A t \in ToSet(buffer[b]) : outcome[t] # "new"
    BY <1>0 DEF PlacesSound, BufferSound
  <2> HIDE DEF Old
  <2> QED BY <1>2, <2>1, <2>2
<1>5. ASSUME NEW b \in Brokers, Crash(b) PROVE Old
  <2> DEFINE D == {t \in Submissions : home[t] = b /\ outcome[t] = "pending"}
  <2>1. Settle(D, "rejected")
    BY <1>5 DEF Crash, Reject
  <2>2. \A t \in D : outcome[t] # "new"
    OBVIOUS
  <2> HIDE DEF Old, D
  <2> QED BY <1>2, <2>1, <2>2
<1>6. ASSUME NEW b \in Brokers, NEW l \in Slots,
             WriteFails(b, l) \/ ConflictGivesUp(b, l) \/ Committed(b, l)
      PROVE  Old
  <2> DEFINE D == ToSet(loop[<<b, l>>].batch)
  <2>1. \E verdict : Settle(D, verdict)
    BY <1>6 DEF WriteFails, ConflictGivesUp, Committed, Reject
  <2>2. \A t \in D : outcome[t] # "new"
    BY <1>0 DEF PlacesSound, BatchSound
  <2> HIDE DEF Old, D
  <2> QED BY <1>2, <2>1, <2>2
<1>7. ASSUME NEW b \in Brokers, NEW l \in Slots,
             \/ writeLoop(b, l) \/ StoreRead(b, l) \/ refreshCache(b, l) \/ StoreWrite(b, l)
             \/ ConflictBacksOff(b, l) \/ BackoffEnds(b, l) \/ OrphanWrite(b, l)
      PROVE  Old
  BY <1>7 DEF writeLoop, StoreRead, refreshCache, StoreWrite, ConflictBacksOff, BackoffEnds,
              OrphanWrite, promiseVars
<1>8. ASSUME NEW b \in Brokers, CreateState(b) \/ ReadState(b) \/ StartFails(b) PROVE Old
  BY <1>8 DEF CreateState, ReadState, StartFails, promiseVars
<1>9. ASSUME Tick \/ UNCHANGED vars PROVE Old
  BY <1>9 DEF Tick, vars, promiseVars
<1> HIDE DEF Old, Asked
<1>10. Old \/ Asked
  BY <1>3, <1>4, <1>5, <1>6, <1>7, <1>8, <1>9 DEF Next
<1> QED
  BY <1>1, <1>10 DEF Old, Asked

(* What may be submitted is well formed, and a job that is completed was   *)
(* granted by an applied claim, so it was enqueued.                        *)
LEMMA RequestsAsk ==
  ASSUME PlacesSound, AccountsSound, NEW b \in Brokers, NEW m \in Requests(b)
  PROVE  IsAsked(m, commits, mutation, effect)
<1> DEFINE A == AppliedOf(commits)
           E == Enqueued(A, mutation, effect)
<1>1. CASE m \in [type : {"enqueue"}, jobs : JobSpecs]
  <2>1. m.type = "enqueue" /\ m.jobs \in JobSpecs
    BY <1>1
  <2>2. IsSpecList(m.jobs)
    BY <2>1, JobSpecsAssumption DEF IsSpecList, IsSeq
  <2> QED BY <2>1, <2>2 DEF IsAsked, IsMutation, MutationTypes
<1>2. CASE m \in [type : {"claim"}, workerId : Workers, jobTypes : Filters]
  BY <1>2 DEF IsAsked, IsMutation, MutationTypes
<1>3. ASSUME NEW kind \in {"heartbeat", "complete"}, NEW held \in Granted,
             m = [type |-> kind, jobId |-> held[1], workerId |-> held[2]]
      PROVE  IsAsked(m, commits, mutation, effect)
  <2>1. PICK s \in Submissions :
          /\ outcome[s] = "resolved" /\ mutation[s].type = "claim"
          /\ result[s].claimedJob # None
          /\ held = <<result[s].claimedJob, mutation[s].workerId>>
    BY DEF Granted
  <2>2. commits[s] = 1 /\ result[s] = effect[s]
    BY <2>1 DEF PlacesSound, SettledSound
  <2>3. s \in A
    BY <2>2 DEF AppliedOf
  <2>4. held[1] = effect[s].claimedJob /\ held[1] # None
    BY <2>1, <2>2
  <2>5. Ledger(A, mutation, effect)
    BY DEF AccountsSound, InAccount, Accounted
  <2>6. held[1] \in E
    BY <2>1, <2>3, <2>4, <2>5 DEF Ledger
  <2>7. m.type \in {"heartbeat", "complete"} /\ m.jobId = held[1]
    BY <1>3
  <2> QED BY <2>6, <2>7 DEF IsAsked, IsMutation, MutationTypes
<1>4. CASE m \in {[type |-> "register_broker", brokerAddress |-> b, timestamp |-> clock]}
  BY <1>4 DEF IsAsked, IsMutation, MutationTypes
<1>5. \/ m \in [type : {"enqueue"}, jobs : JobSpecs]
      \/ m \in [type : {"claim"}, workerId : Workers, jobTypes : Filters]
      \/ \E kind \in {"heartbeat", "complete"}, held \in Granted :
            m = [type |-> kind, jobId |-> held[1], workerId |-> held[2]]
      \/ m \in {[type |-> "register_broker", brokerAddress |-> b, timestamp |-> clock]}
  BY DEF Requests
<1> QED
  BY <1>1, <1>2, <1>3, <1>4, <1>5

LEMMA AccountsNext == EngineSound /\ AccountsSound /\ [Next]_vars => AccountsSound'
<1> SUFFICES ASSUME EngineSound, AccountsSound, [Next]_vars PROVE AccountsSound'
  OBVIOUS
<1> DEFINE A == AppliedOf(commits)
           E == Enqueued(A, mutation, effect)
           E2 == Enqueued(AppliedOf(commits'), mutation', effect')
<1>0. TypeOK /\ PlacesSound /\ SnapshotsSound /\ DOMAIN mutation = Submissions
  BY DEF EngineSound
<1>1. InAccount(store.state, commits, mutation, effect, gone)
  BY DEF AccountsSound
<1>2. \A s \in A : s \in Submissions /\ mutation'[s] = mutation[s]
  <2>1. \A s \in A : s \in Submissions /\ outcome[s] # "new"
    BY <1>0 DEF AppliedOf, PlacesSound, SettledSound
  <2> QED BY <1>0, <2>1, Frame
<1>3. ASSUME store'.state = store.state, UNCHANGED <<commits, effect, gone>>
      PROVE  InAccount(store'.state, commits', mutation', effect', gone') /\ E2 = E
  <2>1. Accounted(store.state, A, mutation, effect) /\ gone = Left(store.state, A, mutation, effect)
    BY <1>1 DEF InAccount
  <2>2. Accounted(store.state, A, mutation', effect) /\ Enqueued(A, mutation', effect) = E
    BY <1>2, <2>1, AccountsAgree
  <2>3. Left(store.state, A, mutation', effect) = Left(store.state, A, mutation, effect)
    BY <2>2 DEF Left
  <2> QED BY <1>3, <2>1, <2>2, <2>3 DEF InAccount
<1>4. InAccount(store'.state, commits', mutation', effect', gone') /\ E \subseteq E2
  <2>1. CASE UNCHANGED storeVars
    BY <1>3, <2>1 DEF storeVars
  <2>2. CASE store' = Created /\ store.version = 0 /\ UNCHANGED <<commits, effect, gone>>
    <3>1. store'.state = store.state
      BY <1>0, <2>2 DEF SnapshotsSound, Created
    <3> QED BY <1>3, <2>2, <3>1
  <2>3. ASSUME NEW b \in Brokers, NEW l \in Slots,
               versionMatches(loop[<<b, l>>]), Land(loop[<<b, l>>]),
               StoreWrite(b, l) \/ OrphanWrite(b, l)
        PROVE  InAccount(store'.state, commits', mutation', effect', gone') /\ E \subseteq E2
    <3>1. InFlight(loop[<<b, l>>]) /\ mutation' = mutation
      BY <2>3 DEF StoreWrite, OrphanWrite, InFlight, promiseVars
    <3> QED BY <2>3, <3>1, AccountsLanded
  <2> HIDE DEF E, E2
  <2> QED BY <2>1, <2>2, <2>3, StoreMoves
<1>5. ASSUME NEW s \in Submissions, outcome'[s] # "new"
      PROVE  IsAsked(mutation'[s], commits', mutation', effect')
  <2>1. \E m : mutation'[s] = m /\ IsAsked(m, commits, mutation, effect)
    <3>1. CASE outcome[s] # "new" /\ mutation'[s] = mutation[s]
      BY <3>1 DEF AccountsSound
    <3>2. ASSUME NEW b \in Brokers, NEW m \in Requests(b), mutation'[s] = m
          PROVE  IsAsked(m, commits, mutation, effect)
      BY <1>0, RequestsAsk
    <3> QED BY <1>5, <3>1, <3>2, AskMoves
  <2> QED BY <1>4, <2>1 DEF IsAsked
<1> QED
  BY <1>4, <1>5, AccountsPrimed

LEMMA AlwaysAccounted == Spec => [](EngineSound /\ AccountsSound)
  BY EngineInit, EngineNext, AccountsInit, AccountsNext, PTL DEF Spec

(***************************************************************************)
(* What the accounts say of the queue.                                     *)
(***************************************************************************)
LEMMA AccountsAre ==
  ASSUME AccountsSound
  PROVE  LET st == store.state
         IN /\ IsState(st) /\ JobIds(st) \subseteq EnqueuedIds
            /\ IsFiniteSet(gone) /\ gone = EnqueuedIds \ JobIds(st)
            /\ \A job \in JobsOf(st) :
                 /\ job.attempts = Cardinality(ClaimsOf(job.id))
                 /\ job.status = "in_progress" =>
                       \E s \in ClaimsOf(job.id) : mutation[s].workerId = job.workerId
                 /\ job.attempts <= atMost(job) - (IF job.status = "unclaimed" THEN 1 ELSE 0)
            /\ \E D \in SUBSET gone :
                 /\ Cardinality(D) = st.completedTotal
                 /\ \A id \in D : CompletesOf(id) # {}
                 /\ \A id \in gone \ D : Cardinality(ClaimsOf(id)) >= maxAttemptsById(id)
<1> DEFINE st == store.state
           A == AppliedOf(commits)
           E == Enqueued(A, mutation, effect)
<1>1. /\ Applied = A /\ EnqueuedIds = E
      /\ \A id : ClaimsOf(id) = Claims(A, mutation, effect, id)
      /\ \A id : CompletesOf(id) = Completes(A, mutation, id)
      /\ \A id : maxAttemptsById(id) = maxAttemptsFor(mutation, id)
  BY DEF Applied, AppliedOf, AppliedEnqueues, EnqueuedIds, Enqueued, ClaimsOf, Claims,
         CompletesOf, Completes, maxAttemptsById, maxAttemptsFor
<1>2. /\ IsState(st) /\ JobIds(st) \subseteq E /\ IsFiniteSet(E)
      /\ \A job \in JobsOf(st) : JobAccounted(job, A, mutation, effect)
      /\ EndsAccounted(st, A, mutation, effect)
      /\ gone = Left(st, A, mutation, effect)
  BY DEF AccountsSound, InAccount, Accounted, Ledger
<1>3. gone = E \ JobIds(st) /\ IsFiniteSet(gone)
  <2>1. gone = E \ JobIds(st)
    BY <1>2 DEF Left
  <2> QED BY <1>2, <2>1, FS_Subset
<1>4. PICK D \in SUBSET gone :
        /\ Cardinality(D) = st.completedTotal
        /\ \A id \in D : Completes(A, mutation, id) # {}
        /\ \A id \in gone \ D :
              Cardinality(Claims(A, mutation, effect, id)) >= maxAttemptsFor(mutation, id)
  BY <1>2 DEF EndsAccounted
<1> HIDE DEF A, E
<1>5. \A job \in JobsOf(st) :
        /\ job.attempts = Cardinality(ClaimsOf(job.id))
        /\ job.status = "in_progress" =>
              \E s \in ClaimsOf(job.id) : mutation[s].workerId = job.workerId
        /\ job.attempts <= atMost(job) - (IF job.status = "unclaimed" THEN 1 ELSE 0)
  BY <1>1, <1>2 DEF JobAccounted
<1>6. /\ \A id \in D : CompletesOf(id) # {}
      /\ \A id \in gone \ D : Cardinality(ClaimsOf(id)) >= maxAttemptsById(id)
  BY <1>1, <1>4
<1> QED
  BY <1>1, <1>2, <1>3, <1>4, <1>5, <1>6

(* Each job that was enqueued is in the queue, or has been completed, or   *)
(* was claimed as often as it may be.                                      *)
THEOREM NoJobIsLost == Spec => []NoJobLost
<1>1. ASSUME AccountsSound PROVE NoJobLost
  <2>1. /\ gone = EnqueuedIds \ JobIds(store.state)
        /\ \E D \in SUBSET gone :
             /\ \A id \in D : CompletesOf(id) # {}
             /\ \A id \in gone \ D : Cardinality(ClaimsOf(id)) >= maxAttemptsById(id)
    BY <1>1, AccountsAre
  <2> QED BY <2>1 DEF NoJobLost, hasEnded
<1> QED
  BY <1>1, AlwaysAccounted, PTL

(* A job that has left the queue never comes back.                         *)
THEOREM NoJobReturns == Spec => []NoResurrection
<1>1. ASSUME AccountsSound PROVE NoResurrection
  <2>1. gone = EnqueuedIds \ JobIds(store.state)
    BY <1>1, AccountsAre
  <2> QED BY <2>1 DEF NoResurrection
<1> QED
  BY <1>1, AlwaysAccounted, PTL

(* The attempts of a job are its granted claims.                           *)
THEOREM AttemptsAreClaims == Spec => []AttemptsCountClaims
<1>1. ASSUME AccountsSound PROVE AttemptsCountClaims
  <2>1. \A job \in JobsOf(store.state) :
          /\ job.attempts = Cardinality(ClaimsOf(job.id))
          /\ job.status = "in_progress" =>
                \E s \in ClaimsOf(job.id) : mutation[s].workerId = job.workerId
    BY <1>1, AccountsAre
  <2>2. \A i \in DOMAIN store.state.jobs : store.state.jobs[i] \in JobsOf(store.state)
    BY DEF JobsOf, ToSet
  <2> QED BY <2>1, <2>2 DEF AttemptsCountClaims
<1> QED
  BY <1>1, AlwaysAccounted, PTL

(* No job is run more often than it may be.                                *)
THEOREM AttemptsAreBounded == Spec => []AttemptsBounded
<1>1. ASSUME AccountsSound PROVE AttemptsBounded
  <2>1. \A job \in JobsOf(store.state) :
          job.attempts <= atMost(job) - (IF job.status = "unclaimed" THEN 1 ELSE 0)
    BY <1>1, AccountsAre
  <2>2. \A i \in DOMAIN store.state.jobs : store.state.jobs[i] \in JobsOf(store.state)
    BY DEF JobsOf, ToSet
  <2> QED BY <2>1, <2>2 DEF AttemptsBounded
<1> QED
  BY <1>1, AlwaysAccounted, PTL

(***************************************************************************)
(* Who holds a job.                                                        *)
(***************************************************************************)
(* The ids of a mutation that is not in A are none of those made in A.     *)
LEMMA IdsAreNew ==
  ASSUME NEW A, NEW mut, NEW eff, Ledger(A, mut, eff), NEW s, s \notin A, NEW n, NEW specs
  PROVE  \A id \in IdsOf(s, n, specs) : id \notin Enqueued(A, mut, eff)
<1>1. \A id \in Enqueued(A, mut, eff) : id[1] \in A
  BY IdsOfIs DEF Ledger, Enqueued
<1>2. \A id \in IdsOf(s, n, specs) : id[1] = s
  BY IdsOfIs
<1> QED BY <1>1, <1>2

LEMMA MutationKeepsHolders ==
  ASSUME NEW st, NEW A, NEW mut, NEW eff, Accounted(st, A, mut, eff),
         NEW s, s \notin A, IsMutation(mut[s]), NEW n \in Nat,
         NEW now \in Nat, HeartbeatsPast(st, now)
  PROVE  HoldersKept(st, applyMutation(st, mut[s], <<s, n>>, now).state, mut[s], now)
<1>0. /\ IsState(st) /\ Ledger(A, mut, eff) /\ JobIds(st) \subseteq Enqueued(A, mut, eff)
      /\ now \in Int
  BY DEF Accounted
<1> DEFINE m == mut[s]
           seed == <<s, n>>
<1>1. CASE m.type = "enqueue"
  <2> DEFINE specs == m.jobs
  <2>1. applyMutation(st, m, seed, now) = enqueueJobs(st, specs, seed)
    BY <1>1 DEF applyMutation
  <2>2. IsSpecList(specs) /\ IsSeq(seed)
    BY <1>1, IdIs DEF IsMutation
  <2>3. \A i \in DOMAIN specs : Append(seed, i) \notin JobIds(st)
    <3>1. \A i \in DOMAIN specs : Append(seed, i) \in IdsOf(s, n, specs)
      BY DEF IdsOf
    <3> QED BY <1>0, <3>1, IdsAreNew
  <2> HIDE DEF m, seed, specs
  <2>4. HoldersKept(st, enqueueJobs(st, specs, seed).state, m, now)
    BY <1>0, <2>2, <2>3, EnqueueKeepsHolders
  <2> QED BY <2>1, <2>4 DEF m, seed
<1>2. CASE m.type = "claim"
  <2>1. applyMutation(st, m, seed, now) = claimJob(st, m.workerId, m.jobTypes, now)
    BY <1>2 DEF applyMutation
  <2> QED BY <1>0, <2>1, ClaimKeepsHolders
<1>3. CASE m.type = "heartbeat"
  <2>1. applyMutation(st, m, seed, now).state = heartbeatJob(st, m.jobId, m.workerId, now)
    BY <1>3 DEF applyMutation
  <2> QED BY <1>0, <2>1, HeartbeatKeepsHolders
<1>4. CASE m.type = "complete"
  <2>1. applyMutation(st, m, seed, now).state = completeJob(st, m.jobId, m.workerId)
    BY <1>4 DEF applyMutation
  <2> QED BY <1>0, <1>4, <2>1, CompleteKeepsHolders
<1>5. CASE m.type = "register_broker"
  <2>1. applyMutation(st, m, seed, now).state
          = registerBroker(st, m.brokerAddress, m.timestamp)
    BY <1>5 DEF applyMutation
  <2>2. JobsOf(registerBroker(st, m.brokerAddress, m.timestamp)) = JobsOf(st)
    BY <1>0, RegisterBroker
  <2> QED BY <1>0, <2>1, <2>2, SameHolders
<1> QED
  BY <1>1, <1>2, <1>3, <1>4, <1>5 DEF IsMutation, MutationTypes

(* A pass keeps the holders of the jobs that are not stale, but for the    *)
(* jobs its batch completes.                                               *)
LEMMA PassKeepsHolders ==
  ASSUME NEW st, NEW A, NEW mut, NEW eff, NEW batch, NEW n, Passable(st, A, mut, eff, batch, n),
         NEW now \in Nat, HeartbeatsPast(st, now),
         \A i \in DOMAIN batch :
            eff[batch[i]] = applyBatch(st, WorkOf(mut, batch, n), now).results[i]
  PROVE  LET st2 == applyBatch(st, WorkOf(mut, batch, n), now).state
         IN /\ IsState(st2) /\ HeartbeatsPast(st2, now)
            /\ \A old \in JobsOf(st) : old.status = "in_progress" =>
                  \/ HeldIn(st2, old)
                  \/ isStale(old, now)
                  \/ \E s \in ToSet(batch) : DoneBy(mut[s], old)
<1> DEFINE st2 == applyBatch(st, WorkOf(mut, batch, n), now).state
           len == Len(batch)
<1>0. /\ IsState(st) /\ n \in Nat /\ len \in Nat /\ DOMAIN batch = 1..len
      /\ IsInjective(batch)
      /\ \A s \in ToSet(batch) : s \notin A /\ IsMutation(mut[s])
  BY IsSeqFacts DEF Passable, Accounted
<1> DEFINE Before(i) == A \cup {batch[k] : k \in 1..i}
<1>1. PICK at : GoesThrough(at, st, A, mut, eff, batch, n, now)
  BY PassStates
<1>2. /\ at[0] = expireHeartbeats(st, now) /\ at[len] = st2
      /\ \A i \in 1..len :
            at[i] = applyMutation(at[i - 1], mut[batch[i]], <<batch[i], n>>, now).state
      /\ \A i \in 0..len : Accounted(at[i], Before(i), mut, eff)
  BY <1>1 DEF GoesThrough, PassEnds
<1>3. \A i \in 0..len : IsState(at[i])
  BY <1>2 DEF Accounted
<1>4. \A i \in 1..len : batch[i] \in ToSet(batch) /\ batch[i] \notin Before(i - 1)
  <2> SUFFICES ASSUME NEW i \in 1..len
               PROVE  batch[i] \in ToSet(batch) /\ batch[i] \notin Before(i - 1)
    OBVIOUS
  <2>1. batch[i] \in ToSet(batch)
    BY <1>0 DEF ToSet
  <2>2. \A k \in 1..(i - 1) : batch[k] # batch[i]
    BY <1>0 DEF IsInjective
  <2> QED BY <1>0, <2>1, <2>2
<1> HIDE DEF st2, len, Before
<1>5. ASSUME NEW i \in 1..len, HeartbeatsPast(at[i - 1], now)
      PROVE  HoldersKept(at[i - 1], at[i], mut[batch[i]], now)
  <2> DEFINE s == batch[i]
             B == Before(i - 1)
             st1 == at[i - 1]
  <2>1. Accounted(st1, B, mut, eff)
    BY <1>0, <1>2
  <2>2. s \notin B /\ IsMutation(mut[s]) /\ at[i] = applyMutation(st1, mut[s], <<s, n>>, now).state
    BY <1>0, <1>2, <1>4
  <2>3. HeartbeatsPast(st1, now)
    BY <1>5
  <2> HIDE DEF s, B, st1
  <2>4. HoldersKept(st1, applyMutation(st1, mut[s], <<s, n>>, now).state, mut[s], now)
    BY <1>0, <2>1, <2>2, <2>3, MutationKeepsHolders
  <2>5. HoldersKept(st1, at[i], mut[s], now)
    BY <2>2, <2>4
  <2> QED BY <2>5 DEF st1, s
<1>6. /\ HeartbeatsPast(at[0], now)
      /\ \A old \in JobsOf(st) :
            old.status = "in_progress" /\ ~isStale(old, now) => HeldIn(at[0], old)
  BY <1>0, <1>2, ExpiryKeepsHolders
<1>7. \A i \in 0..len : HeartbeatsPast(at[i], now)
  <2> DEFINE Good == {i \in 0..len : HeartbeatsPast(at[i], now)}
  <2>1. 0 \in Good
    BY <1>0, <1>6
  <2>2. \A i \in 1..len : i - 1 \in Good => i \in Good
    BY <1>5 DEF HoldersKept
  <2> HIDE DEF Good
  <2>3. \A i \in 0..len : i \in Good
    BY <1>0, <2>1, <2>2, PassInduction
  <2> QED BY <2>3 DEF Good
<1>8. ASSUME NEW old \in JobsOf(st), old.status = "in_progress", ~isStale(old, now)
      PROVE  HeldIn(at[len], old) \/ \E s \in ToSet(batch) : DoneBy(mut[s], old)
  <2> DEFINE Done == \E s \in ToSet(batch) : DoneBy(mut[s], old)
             Good == {i \in 0..len : HeldIn(at[i], old) \/ Done}
  <2>0. old.heartbeat \in Int
    BY <1>8 DEF HeartbeatsPast
  <2>1. 0 \in Good
    BY <1>0, <1>6, <1>8
  <2>2. ASSUME NEW i \in 1..len, i - 1 \in Good PROVE i \in Good
    <3> HIDE DEF Done
    <3>1. CASE Done
      BY <3>1
    <3>2. CASE HeldIn(at[i - 1], old)
      <4>1. PICK mid \in JobsOf(at[i - 1]) : StillHeld(old, mid)
        BY <3>2 DEF HeldIn
      <4>2. i - 1 \in 0..len /\ i \in 0..len
        BY <1>0
      <4>3. HoldersKept(at[i - 1], at[i], mut[batch[i]], now)
        BY <1>5, <1>7, <4>2
      <4>4. HeldIn(at[i], mid) \/ DoneBy(mut[batch[i]], mid)
        BY <4>1, <4>3 DEF HoldersKept, StillHeld
      <4>5. ASSUME DoneBy(mut[batch[i]], mid) PROVE Done
        BY <1>4, <4>1, <4>5 DEF DoneBy, StillHeld, Done
      <4>6. ASSUME HeldIn(at[i], mid) PROVE HeldIn(at[i], old)
        <5>1. PICK new \in JobsOf(at[i]) : StillHeld(mid, new)
          BY <4>6 DEF HeldIn
        <5>2. IsJob(mid) /\ IsJob(new)
          BY <1>3, <4>2, JobsAreJobs
        <5>3. StillHeld(old, new)
          BY <2>0, <4>1, <5>1, <5>2, HeldTransitive
        <5> QED BY <5>3 DEF HeldIn
      <4> QED BY <4>2, <4>4, <4>5, <4>6
    <3> QED BY <2>2, <3>1, <3>2
  <2> HIDE DEF Good
  <2>3. len \in Good
    BY <1>0, <2>1, <2>2, PassInduction
  <2> QED BY <2>3 DEF Good
<1>9. IsState(st2) /\ HeartbeatsPast(st2, now)
  BY <1>0, <1>2, <1>3, <1>7
<1>10. \A old \in JobsOf(st) : old.status = "in_progress" =>
          \/ HeldIn(st2, old)
          \/ isStale(old, now)
          \/ \E s \in ToSet(batch) : DoneBy(mut[s], old)
  BY <1>2, <1>8
<1> QED
  BY <1>9, <1>10 DEF st2

(***************************************************************************)
(* Time: what is stored has no heartbeat of a later time, and a write that *)
(* may land was made no earlier than the heartbeats it may expire.         *)
(***************************************************************************)
MayLand(lp, mut, st, time) ==
    lp.expected = st.version =>
        \E now \in 0..time : HeartbeatsPast(st.state, now) /\ PassAt(lp, mut, st.state, now)

TimelySound ==
    /\ HeartbeatsPast(store.state, clock)
    /\ \A bl \in Brokers \X Slots : InFlight(loop[bl]) => MayLand(loop[bl], mutation, store, clock)

LEMMA TimelyPrimed ==
  TimelySound' =
    (/\ HeartbeatsPast(store'.state, clock')
     /\ \A bl \in Brokers \X Slots :
           InFlight(loop'[bl]) => MayLand(loop'[bl], mutation', store', clock'))
  BY DEF TimelySound, InFlight, MayLand, HeartbeatsPast, PassAt, WorkOf

LEMMA TimelyInit == Init => TimelySound
<1> SUFFICES ASSUME Init PROVE TimelySound
  OBVIOUS
<1>1. JobsOf(store.state) = {}
  BY EmptyIsState DEF Init
<1>2. \A bl \in Brokers \X Slots : ~InFlight(loop[bl])
  BY DEF Init, InFlight, IdleLoop, NewLoop
<1> QED
  BY <1>1, <1>2 DEF TimelySound, HeartbeatsPast

(* Who holds the jobs after a landing write.                               *)
LEMMA LandingKeepsHolders ==
  ASSUME EngineSound, AccountsSound, TimelySound, NEW b \in Brokers, NEW l \in Slots,
         InFlight(loop[<<b, l>>]), versionMatches(loop[<<b, l>>]), Land(loop[<<b, l>>])
  PROVE  \E now \in 0..clock :
           /\ IsState(store'.state) /\ HeartbeatsPast(store'.state, now)
           /\ \A old \in JobsOf(store.state) : old.status = "in_progress" =>
                 \/ HeldIn(store'.state, old)
                 \/ isStale(old, now)
                 \/ \E s \in ToSet(loop[<<b, l>>].batch) : DoneBy(mutation[s], old)
<1> DEFINE lp == loop[<<b, l>>]
           A == AppliedOf(commits)
           st == store.state
           batch == lp.batch
           n == lp.attempt
           mut == mutation
           eff == effect'
<1>1. PICK now \in 0..clock : HeartbeatsPast(st, now) /\ PassAt(lp, mutation, st, now)
  BY DEF TimelySound, MayLand, versionMatches
<1>2. now \in Nat
  BY DEF EngineSound, TypeOK
<1>3. /\ Passable(st, A, mut, eff, batch, n)
      /\ lp.data = applyBatch(st, WorkOf(mut, batch, n), now).state
      /\ \A i \in DOMAIN batch :
            eff[batch[i]] = applyBatch(st, WorkOf(mut, batch, n), now).results[i]
  BY <1>1, LandingPasses
<1>4. store'.state = lp.data
  BY DEF Land
<1> HIDE DEF lp, A, st, batch, n, mut, eff
<1> DEFINE st2 == applyBatch(st, WorkOf(mut, batch, n), now).state
<1>5. /\ IsState(st2) /\ HeartbeatsPast(st2, now)
      /\ \A old \in JobsOf(st) : old.status = "in_progress" =>
            \/ HeldIn(st2, old)
            \/ isStale(old, now)
            \/ \E s \in ToSet(batch) : DoneBy(mut[s], old)
  BY <1>1, <1>2, <1>3, PassKeepsHolders
<1>6. store'.state = st2
  BY <1>3, <1>4
<1> HIDE DEF st2
<1> QED
  BY <1>5, <1>6 DEF st, batch, mut, lp

LEMMA TimelyNext == EngineSound /\ AccountsSound /\ TimelySound /\ [Next]_vars => TimelySound'
<1> SUFFICES ASSUME EngineSound, AccountsSound, TimelySound, [Next]_vars PROVE TimelySound'
  OBVIOUS
<1>0. /\ TypeOK /\ VersionsSound /\ PlacesSound /\ PassSound /\ SnapshotsSound
      /\ DOMAIN mutation = Submissions
  BY DEF EngineSound
<1>1. /\ store' = store \/ store.version < store'.version
      /\ clock \in Nat /\ clock' \in Nat /\ clock <= clock'
  BY <1>0, Frame
<1>2. HeartbeatsPast(store'.state, clock')
  <2>1. CASE store'.state = store.state
    BY <1>1, <2>1 DEF TimelySound, HeartbeatsPast
  <2>2. ASSUME NEW b \in Brokers, NEW l \in Slots,
               versionMatches(loop[<<b, l>>]), Land(loop[<<b, l>>]),
               StoreWrite(b, l) \/ OrphanWrite(b, l)
        PROVE  HeartbeatsPast(store'.state, clock')
    <3>1. InFlight(loop[<<b, l>>])
      BY <2>2 DEF StoreWrite, OrphanWrite, InFlight
    <3>2. PICK now \in 0..clock : HeartbeatsPast(store'.state, now)
      BY <2>2, <3>1, LandingKeepsHolders
    <3> QED BY <1>1, <3>2 DEF HeartbeatsPast
  <2>3. CASE store' = Created /\ store.version = 0
    <3>1. store'.state = store.state
      BY <1>0, <2>3 DEF SnapshotsSound, Created
    <3> QED BY <2>1, <3>1
  <2>4. UNCHANGED storeVars => store'.state = store.state
    BY DEF storeVars
  <2> QED BY <2>1, <2>2, <2>3, <2>4, StoreMoves
<1>3. ASSUME NEW b \in Brokers, NEW l \in Slots, InFlight(loop'[<<b, l>>])
      PROVE  MayLand(loop'[<<b, l>>], mutation', store', clock')
  <2> DEFINE old == loop[<<b, l>>]
             new == loop'[<<b, l>>]
  <2>1. CASE /\ InFlight(old) /\ new.expected = old.expected
             /\ \A state, now : PassAt(old, mutation, state, now)
                                   => PassAt(new, mutation', state, now)
    <3>1. MayLand(old, mutation, store, clock)
      BY <2>1 DEF TimelySound
    <3>2. CASE store' = store
      <4>1. \A now \in 0..clock : now \in 0..clock'
        BY <1>1
      <4> QED BY <2>1, <3>1, <3>2, <4>1 DEF MayLand
    <3>3. CASE store.version < store'.version
      <4>1. old.expected \in Nat /\ store.version \in Nat /\ store'.version \in Nat
        <5>1. TypeOK'
          BY <1>0, TypeNext
        <5> QED BY <1>0, <5>1 DEF TypeOK, LoopOK
      <4>2. old.expected <= store.version
        BY <1>0, <2>1, PassSoundIs DEF CarriesPass
      <4>3. new.expected # store'.version
        BY <2>1, <3>3, <4>1, <4>2
      <4> QED BY <4>3 DEF MayLand
    <3> QED BY <1>1, <3>2, <3>3
  <2>2. CASE /\ UNCHANGED <<store, clock, mutation>>
             /\ new.expected <= store.version
             /\ new.expected = store.version => PassAt(new, mutation', store.state, clock)
    <3>1. clock \in 0..clock
      BY <1>1
    <3> QED BY <2>2, <3>1 DEF MayLand, TimelySound
  <2> QED BY <1>0, <1>3, <2>1, <2>2, RequestMoves
<1> QED
  BY <1>2, <1>3, TimelyPrimed

LEMMA HolderStep ==
  ASSUME EngineSound, AccountsSound, TimelySound, [Next]_vars, NEW id \in JobIds(store.state)
  PROVE  HolderKept(id)
<1> DEFINE st == store.state
           st2 == store'.state
<1>0. TypeOK /\ PlacesSound /\ SnapshotsSound /\ IsState(st) /\ clock \in Nat
  BY DEF EngineSound, AccountsSound, InAccount, Accounted, TypeOK
<1>1. PICK old \in JobsOf(st) : old.id = id
  BY JobsAndIds
<1>2. JobOf(st, id) = old /\ IsJob(old)
  BY <1>0, <1>1, JobOfIs, JobsAreJobs
<1> SUFFICES ASSUME old.status = "in_progress"
             PROVE  HolderKept(id)
  BY <1>2 DEF HolderKept
<1>3. old.heartbeat \in Int
  BY <1>2 DEF IsJob
<1>4. ASSUME IsState(st2), HeldIn(st2, old) PROVE HolderKept(id)
  <2>1. PICK job \in JobsOf(st2) : StillHeld(old, job)
    BY <1>4 DEF HeldIn
  <2>2. JobOf(st2, id) = job /\ id \in JobIds(st2)
    BY <1>1, <1>4, <2>1, JobOfIs, JobsAreJobs DEF StillHeld
  <2> QED BY <1>1, <1>2, <2>1, <2>2 DEF HolderKept, StillHeld
<1>5. ASSUME st2 = st PROVE HolderKept(id)
  BY <1>0, <1>2, <1>4, <1>5, HeldStays DEF HeldIn
<1>6. ASSUME NEW b \in Brokers, NEW l \in Slots,
             versionMatches(loop[<<b, l>>]), Land(loop[<<b, l>>]),
             StoreWrite(b, l) \/ OrphanWrite(b, l)
      PROVE  HolderKept(id)
  <2> DEFINE lp == loop[<<b, l>>]
  <2>1. InFlight(lp)
    BY <1>6 DEF StoreWrite, OrphanWrite, InFlight
  <2>2. PICK now \in 0..clock :
          /\ IsState(st2)
          /\ \/ HeldIn(st2, old)
             \/ isStale(old, now)
             \/ \E s \in ToSet(lp.batch) : DoneBy(mutation[s], old)
    BY <1>6, <2>1, LandingKeepsHolders
  <2>3. ASSUME isStale(old, now) PROVE HolderKept(id)
    <3>1. clock - old.heartbeat > HeartbeatTimeout
      BY <1>0, <1>3, <2>3, TimeoutAssumption DEF isStale
    <3> QED BY <1>2, <3>1 DEF HolderKept
  <2>4. ASSUME NEW s \in ToSet(lp.batch), DoneBy(mutation[s], old) PROVE HolderKept(id)
    <3>1. /\ s \in Submissions
          /\ commits' = [t \in Submissions |->
                           commits[t] + (IF t \in ToSet(lp.batch) THEN 1 ELSE 0)]
      BY <1>6, <2>1, LandingIs
    <3>2. commits[s] \in Nat
      BY <1>0, <3>1 DEF TypeOK
    <3>3. commits'[s] > commits[s]
      BY <3>1, <3>2
    <3> QED BY <1>1, <1>2, <2>4, <3>1, <3>3 DEF HolderKept, DoneBy
  <2> QED BY <1>4, <2>2, <2>3, <2>4
<1>7. CASE store' = Created /\ store.version = 0
  <2>1. st2 = st
    BY <1>0, <1>7 DEF SnapshotsSound, Created
  <2> QED BY <1>5, <2>1
<1>8. UNCHANGED storeVars => st2 = st
  BY DEF storeVars
<1> QED
  BY <1>5, <1>6, <1>7, <1>8, StoreMoves

(* Whoever holds a job keeps it until its heartbeat is older than the      *)
(* timeout or it completes the job, and its heartbeat never goes back.     *)
THEOREM HoldersKeepTheirJobs == Spec => HolderKeepsJob
<1>1. EngineSound /\ AccountsSound /\ TimelySound /\ [Next]_vars
        => \A id \in JobIds(store.state) : HolderKept(id)
  BY HolderStep
<1> QED
  BY <1>1, EngineInit, EngineNext, AccountsInit, AccountsNext, TimelyInit, TimelyNext,
     PTL DEF Spec, HolderKeepsJob
(***************************************************************************)
(* What leaves the queue.                                                  *)
(***************************************************************************)
LEMMA ReplacedIds ==
  ASSUME NEW st, NEW st2, NEW job \in JobsOf(st), NEW new, new.id = job.id,
         JobsOf(st2) = (JobsOf(st) \ {job}) \cup {new}
  PROVE  JobIds(st2) = JobIds(st)
<1>1. \A j \in JobsOf(st2) : \E k \in JobsOf(st) : k.id = j.id
  OBVIOUS
<1>2. \A j \in JobsOf(st) : \E k \in JobsOf(st2) : k.id = j.id
  OBVIOUS
<1> QED
  BY <1>1, <1>2, JobsAndIds

LEMMA RemovedIds ==
  ASSUME NEW st, IsState(st), NEW st2, NEW job \in JobsOf(st),
         JobsOf(st2) = JobsOf(st) \ {job}
  PROVE  JobIds(st2) = JobIds(st) \ {job.id}
<1>1. \A j \in JobsOf(st) : j.id = job.id => j = job
  BY OneJobPerId DEF IsState, IsJobList, JobsOf
<1> QED
  BY <1>1, JobsAndIds

LEMMA ExpiryDrops ==
  ASSUME NEW st, IsState(st), NEW now
  PROVE  LET new == expireHeartbeats(st, now)
         IN /\ JobIds(new) = JobIds(st) \ Expired(st, now)
            /\ new.completedTotal = st.completedTotal
<1> DEFINE new == expireHeartbeats(st, now)
<1>1. /\ new.completedTotal = st.completedTotal
      /\ \A job \in JobsOf(st) : ~dropped(job, now) => survivor(job, now) \in JobsOf(new)
      /\ \A job \in JobsOf(new) : \E old \in JobsOf(st) :
            ~dropped(old, now) /\ job = survivor(old, now)
  BY ExpireHeartbeats
<1> HIDE DEF new
<1>2. ASSUME NEW job \in JobsOf(st)
      PROVE  /\ job.id \in Expired(st, now) <=> dropped(job, now)
             /\ survivor(job, now).id = job.id
  <2>1. JobOf(st, job.id) = job /\ IsJob(job) /\ job.id \in JobIds(st)
    BY JobOfIs, JobsAreJobs
  <2> QED BY <2>1, SurvivorIs DEF Expired, dropped
<1>3. ASSUME NEW id \in JobIds(new) PROVE id \in JobIds(st) \ Expired(st, now)
  <2>1. PICK job \in JobsOf(new) : job.id = id
    BY JobsAndIds
  <2>2. PICK old \in JobsOf(st) : ~dropped(old, now) /\ job = survivor(old, now)
    BY <1>1
  <2>3. old.id \in JobIds(st)
    BY JobsAndIds
  <2> QED BY <1>2, <2>1, <2>2, <2>3
<1>4. ASSUME NEW id \in JobIds(st) \ Expired(st, now) PROVE id \in JobIds(new)
  <2>1. PICK job \in JobsOf(st) : job.id = id
    BY JobsAndIds
  <2>2. survivor(job, now) \in JobsOf(new) /\ survivor(job, now).id = id
    BY <1>1, <1>2, <1>4, <2>1
  <2> QED BY <2>2, JobsAndIds
<1> QED
  BY <1>1, <1>3, <1>4 DEF new

(* What a mutation takes out of a state, where E are the ids there are:    *)
(* nothing, or the job that its worker completes, which is counted.        *)
Takes(st, st2, m, E) ==
    /\ JobIds(st2) \cap E \subseteq JobIds(st)
    /\ \/ JobIds(st) \subseteq JobIds(st2) /\ st2.completedTotal = st.completedTotal
       \/ \E job \in JobsOf(st) :
            /\ DoneBy(m, job) /\ job.status = "in_progress"
            /\ JobIds(st2) = JobIds(st) \ {job.id}
            /\ st2.completedTotal = st.completedTotal + 1

LEMMA MutationTakes ==
  ASSUME NEW st, NEW A, NEW mut, NEW eff, Accounted(st, A, mut, eff),
         NEW s, s \notin A, IsMutation(mut[s]), NEW n \in Nat, NEW now \in Nat
  PROVE  Takes(st, applyMutation(st, mut[s], <<s, n>>, now).state, mut[s],
               Enqueued(A, mut, eff))
<1> DEFINE m == mut[s]
           seed == <<s, n>>
           E == Enqueued(A, mut, eff)
<1>0. /\ IsState(st) /\ Ledger(A, mut, eff) /\ JobIds(st) \subseteq E
      /\ \A job \in JobsOf(st) : IsJob(job)
      /\ now \in Int
  BY JobsAreJobs DEF Accounted
<1>1. ASSUME NEW st2, JobIds(st2) = JobIds(st), st2.completedTotal = st.completedTotal
      PROVE  Takes(st, st2, m, E)
  BY <1>1 DEF Takes
<1>2. CASE m.type = "enqueue"
  <2> DEFINE specs == m.jobs
             st2 == enqueueJobs(st, specs, seed).state
  <2>1. applyMutation(st, m, seed, now) = enqueueJobs(st, specs, seed)
    BY <1>2 DEF applyMutation
  <2>2. IsSpecList(specs) /\ IsSeq(seed)
    BY <1>2, IdIs DEF IsMutation
  <2>3. \A i \in DOMAIN specs : Append(seed, i) \notin E
    <3>1. \A i \in DOMAIN specs : Append(seed, i) \in IdsOf(s, n, specs)
      BY DEF IdsOf
    <3> QED BY <1>0, <3>1, IdsAreNew
  <2> HIDE DEF m, seed, specs, E
  <2>4. /\ JobsOf(st2) = JobsOf(st) \cup newJobs(specs, seed)
        /\ st2.completedTotal = st.completedTotal
    BY <1>0, <2>2, <2>3, EnqueueJobs
  <2> HIDE DEF st2
  <2>5. JobIds(st) \subseteq JobIds(st2)
    BY <2>4, JobsAndIds
  <2>6. \A job \in newJobs(specs, seed) : job.id \notin E
    <3>1. ASSUME NEW i \in DOMAIN specs PROVE newJob(specs[i], Append(seed, i)).id \notin E
      BY <2>3 DEF newJob
    <3> QED BY <3>1 DEF newJobs
  <2>7. JobIds(st2) \cap E \subseteq JobIds(st)
    BY <2>4, <2>6, JobsAndIds
  <2>8. Takes(st, st2, m, E)
    BY <2>4, <2>5, <2>7 DEF Takes
  <2> QED BY <2>1, <2>8 DEF st2, m, seed, E
<1>3. CASE m.type = "claim"
  <2> DEFINE st2 == claimJob(st, m.workerId, m.jobTypes, now).state
  <2>1. applyMutation(st, m, seed, now).state = st2
    BY <1>3 DEF applyMutation
  <2>2. \/ st2 = st
        \/ \E job \in JobsOf(st) :
             /\ JobsOf(st2) = (JobsOf(st) \ {job}) \cup {claimedBy(job, m.workerId, now)}
             /\ st2.completedTotal = st.completedTotal
    BY <1>0, ClaimJob
  <2> HIDE DEF st2, E
  <2>3. \A job \in JobsOf(st) : claimedBy(job, m.workerId, now).id = job.id
    BY <1>0 DEF claimedBy, IsJob
  <2>4. JobIds(st2) = JobIds(st) /\ st2.completedTotal = st.completedTotal
    BY <2>2, <2>3, ReplacedIds
  <2>5. Takes(st, st2, m, E)
    BY <1>1, <2>4
  <2> QED BY <2>1, <2>5 DEF m, seed, E
<1>4. CASE m.type = "heartbeat"
  <2> DEFINE st2 == heartbeatJob(st, m.jobId, m.workerId, now)
  <2>1. applyMutation(st, m, seed, now).state = st2
    BY <1>4 DEF applyMutation
  <2>2. \/ st2 = st
        \/ \E job \in JobsOf(st) :
             /\ JobsOf(st2) = (JobsOf(st) \ {job}) \cup {[job EXCEPT !.heartbeat = now]}
             /\ st2.completedTotal = st.completedTotal
    BY <1>0, HeartbeatJob
  <2> HIDE DEF st2, E
  <2>3. \A job \in JobsOf(st) : [job EXCEPT !.heartbeat = now].id = job.id
    BY <1>0 DEF IsJob
  <2>4. JobIds(st2) = JobIds(st) /\ st2.completedTotal = st.completedTotal
    BY <2>2, <2>3, ReplacedIds
  <2>5. Takes(st, st2, m, E)
    BY <1>1, <2>4
  <2> QED BY <2>1, <2>5 DEF m, seed, E
<1>5. CASE m.type = "complete"
  <2> DEFINE st2 == completeJob(st, m.jobId, m.workerId)
  <2>1. applyMutation(st, m, seed, now).state = st2
    BY <1>5 DEF applyMutation
  <2>2. \/ st2 = st
        \/ \E job \in JobsOf(st) :
             /\ job.id = m.jobId /\ job.workerId = m.workerId /\ job.status = "in_progress"
             /\ JobsOf(st2) = JobsOf(st) \ {job}
             /\ st2.completedTotal = st.completedTotal + 1
    BY <1>0, CompleteJob
  <2> HIDE DEF st2, E
  <2>3. ASSUME NEW job \in JobsOf(st),
               job.id = m.jobId, job.workerId = m.workerId, job.status = "in_progress",
               JobsOf(st2) = JobsOf(st) \ {job},
               st2.completedTotal = st.completedTotal + 1
        PROVE  Takes(st, st2, m, E)
    <3>1. JobIds(st2) = JobIds(st) \ {job.id}
      BY <1>0, <2>3, RemovedIds
    <3>2. DoneBy(m, job)
      BY <1>5, <2>3 DEF DoneBy
    <3> QED BY <2>3, <3>1, <3>2 DEF Takes
  <2>4. Takes(st, st2, m, E)
    BY <1>1, <2>2, <2>3
  <2> QED BY <2>1, <2>4 DEF m, seed, E
<1>6. CASE m.type = "register_broker"
  <2> DEFINE st2 == registerBroker(st, m.brokerAddress, m.timestamp)
  <2>1. applyMutation(st, m, seed, now).state = st2
    BY <1>6 DEF applyMutation
  <2>2. JobsOf(st2) = JobsOf(st) /\ st2.completedTotal = st.completedTotal
    BY <1>0, RegisterBroker
  <2> HIDE DEF st2, E
  <2>3. Takes(st, st2, m, E)
    BY <1>1, <2>2, JobsAndIds
  <2> QED BY <2>1, <2>3 DEF m, seed, E
<1> QED
  BY <1>2, <1>3, <1>4, <1>5, <1>6 DEF IsMutation, MutationTypes
(* A submission of a batch that completes a job by a worker it was granted *)
(* to, and what a pass takes out of a state.                               *)
Completing(s, id, A, mut, eff) ==
    /\ mut[s].type = "complete" /\ mut[s].jobId = id
    /\ \E c \in Claims(A, mut, eff, id) : mut[c].workerId = mut[s].workerId

PassTakes(st, st2, batch, A, mut, eff, now) ==
    LET left == JobIds(st) \ JobIds(st2)
        done == left \ Expired(st, now)
    IN /\ Expired(st, now) \subseteq left
       /\ \A id \in done : \E s \in ToSet(batch) : Completing(s, id, A, mut, eff)
       /\ st2.completedTotal = st.completedTotal + Cardinality(done)

LEMMA PassCounts ==
  ASSUME NEW st, NEW A, NEW mut, NEW eff, NEW batch, NEW n, Passable(st, A, mut, eff, batch, n),
         NEW now \in Nat,
         \A i \in DOMAIN batch :
            eff[batch[i]] = applyBatch(st, WorkOf(mut, batch, n), now).results[i]
  PROVE  PassTakes(st, applyBatch(st, WorkOf(mut, batch, n), now).state, batch,
                   A \cup ToSet(batch), mut, eff, now)
<1> DEFINE st2 == applyBatch(st, WorkOf(mut, batch, n), now).state
           len == Len(batch)
           E == Enqueued(A, mut, eff)
           A2 == A \cup ToSet(batch)
<1>0. /\ IsState(st) /\ n \in Nat /\ len \in Nat /\ DOMAIN batch = 1..len
      /\ IsInjective(batch) /\ JobIds(st) \subseteq E /\ IsFiniteSet(E)
      /\ \A s \in ToSet(batch) : /\ s \notin A /\ IsMutation(mut[s])
                                 /\ mut[s].type = "complete" => mut[s].jobId \in E
  BY IsSeqFacts DEF Passable, Accounted, Ledger
<1> DEFINE Before(i) == A \cup {batch[k] : k \in 1..i}
<1>1. PICK at : GoesThrough(at, st, A, mut, eff, batch, n, now)
  BY PassStates
<1>2. /\ at[0] = expireHeartbeats(st, now) /\ at[len] = st2
      /\ \A i \in 1..len :
            at[i] = applyMutation(at[i - 1], mut[batch[i]], <<batch[i], n>>, now).state
      /\ \A i \in 0..len : /\ Accounted(at[i], Before(i), mut, eff)
                           /\ E \subseteq Enqueued(Before(i), mut, eff)
  BY <1>1 DEF GoesThrough, PassEnds
<1>3. /\ JobIds(at[0]) = JobIds(st) \ Expired(st, now)
      /\ at[0].completedTotal = st.completedTotal
  BY <1>0, <1>2, ExpiryDrops
<1>4. ASSUME NEW i \in 1..len
      PROVE  batch[i] \in ToSet(batch) /\ batch[i] \notin Before(i - 1)
  <2>1. batch[i] \in ToSet(batch)
    BY <1>0 DEF ToSet
  <2>2. \A k \in 1..(i - 1) : batch[k] # batch[i]
    BY <1>0 DEF IsInjective
  <2> QED BY <1>0, <2>1, <2>2
<1>5. \A i \in 0..len : Before(i) \subseteq A2
  BY <1>0 DEF ToSet
<1> HIDE DEF st2, len, Before, E, A2
<1>6. ASSUME NEW i \in 1..len
      PROVE  Takes(at[i - 1], at[i], mut[batch[i]], E)
  <2> DEFINE s == batch[i]
             B == Before(i - 1)
             st1 == at[i - 1]
  <2>1. Accounted(st1, B, mut, eff) /\ E \subseteq Enqueued(B, mut, eff)
    BY <1>0, <1>2
  <2>2. s \notin B /\ IsMutation(mut[s]) /\ at[i] = applyMutation(st1, mut[s], <<s, n>>, now).state
    BY <1>0, <1>2, <1>4
  <2> HIDE DEF s, B, st1
  <2>3. Takes(st1, applyMutation(st1, mut[s], <<s, n>>, now).state, mut[s],
              Enqueued(B, mut, eff))
    BY <1>0, <2>1, <2>2, MutationTakes
  <2>4. Takes(st1, at[i], mut[s], E)
    BY <2>1, <2>2, <2>3 DEF Takes
  <2> QED BY <2>4 DEF s, st1
<1> DEFINE Gone(i) == JobIds(at[0]) \ JobIds(at[i])
           Counted(i) ==
             /\ JobIds(at[i]) \cap E \subseteq JobIds(at[0])
             /\ \A id \in Gone(i) : \E s \in ToSet(batch) : Completing(s, id, A2, mut, eff)
             /\ at[i].completedTotal = st.completedTotal + Cardinality(Gone(i))
           Good == {i \in 0..len : Counted(i)}
<1>7. JobIds(at[0]) \subseteq E /\ st.completedTotal \in Nat
  BY <1>0, <1>3 DEF IsState
<1>8. \A i \in 0..len : IsFiniteSet(Gone(i)) /\ Cardinality(Gone(i)) \in Nat
  BY <1>0, <1>7, FS_Subset, FS_CardinalityType
<1>9. 0 \in Good
  <2>1. Gone(0) = {}
    OBVIOUS
  <2>2. Cardinality(Gone(0)) = 0
    BY <2>1, FS_EmptySet
  <2> HIDE DEF Gone
  <2>3. Counted(0)
    BY <1>3, <1>7, <2>1, <2>2
  <2> QED BY <1>0, <2>3
<1>10. ASSUME NEW i \in 1..len, i - 1 \in Good PROVE i \in Good
  <2>1. Counted(i - 1) /\ i \in 0..len /\ i - 1 \in 0..len
    BY <1>0, <1>10
  <2>2. JobIds(at[i]) \cap E \subseteq JobIds(at[i - 1])
    BY <1>6 DEF Takes
  <2>3. JobIds(at[i]) \cap E \subseteq JobIds(at[0])
    BY <2>1, <2>2
  <2>4. CASE /\ JobIds(at[i - 1]) \subseteq JobIds(at[i])
             /\ at[i].completedTotal = at[i - 1].completedTotal
    <3>1. Gone(i) = Gone(i - 1)
      BY <1>7, <2>2, <2>4
    <3> HIDE DEF Gone
    <3> QED BY <2>1, <2>3, <2>4, <3>1
  <2>5. ASSUME NEW job \in JobsOf(at[i - 1]),
               DoneBy(mut[batch[i]], job), job.status = "in_progress",
               JobIds(at[i]) = JobIds(at[i - 1]) \ {job.id},
               at[i].completedTotal = at[i - 1].completedTotal + 1
        PROVE  Counted(i)
    <3> DEFINE id == job.id
    <3>1. IsState(at[i - 1]) /\ JobAccounted(job, Before(i - 1), mut, eff)
      BY <1>2, <2>1 DEF Accounted
    <3>2. Completing(batch[i], id, A2, mut, eff)
      <4>1. PICK c \in Claims(Before(i - 1), mut, eff, id) : mut[c].workerId = job.workerId
        BY <2>5, <3>1 DEF JobAccounted
      <4>2. c \in Claims(A2, mut, eff, id)
        BY <1>5, <2>1, <4>1 DEF Claims
      <4> QED BY <2>5, <4>1, <4>2 DEF Completing, DoneBy
    <3>3. id \in JobIds(at[i - 1]) /\ id \in JobIds(at[0])
      <4>1. id \in JobIds(at[i - 1])
        BY <3>1, JobsAreJobs
      <4>2. id \in E
        BY <1>0, <1>4, <2>5 DEF DoneBy
      <4> QED BY <2>1, <4>1, <4>2
    <3>4. Gone(i) = Gone(i - 1) \cup {id} /\ id \notin Gone(i - 1)
      BY <2>5, <3>3
    <3> HIDE DEF Gone
    <3>5. Cardinality(Gone(i)) = Cardinality(Gone(i - 1)) + 1
      BY <1>8, <2>1, <3>4, FS_AddElement
    <3>6. \A x \in Gone(i) : \E s \in ToSet(batch) : Completing(s, x, A2, mut, eff)
      BY <1>4, <2>1, <3>2, <3>4
    <3>7. at[i].completedTotal = st.completedTotal + Cardinality(Gone(i))
      BY <1>7, <1>8, <2>1, <2>5, <3>5
    <3> QED BY <2>3, <3>6, <3>7
  <2> HIDE DEF Counted
  <2>6. Counted(i)
    BY <1>6, <2>4, <2>5 DEF Takes
  <2> QED BY <2>1, <2>6
<1> HIDE DEF Good
<1>11. len \in Good
  BY <1>0, <1>9, <1>10, PassInduction
<1>12. Counted(len)
  BY <1>11 DEF Good
<1>13. (JobIds(st) \ JobIds(st2)) \ Expired(st, now) = Gone(len)
  BY <1>2, <1>3
<1>14. Expired(st, now) \subseteq JobIds(st) \ JobIds(st2)
  <2>1. Expired(st, now) \subseteq JobIds(st)
    BY DEF Expired
  <2> QED BY <1>0, <1>2, <1>3, <1>12, <2>1
<1> HIDE DEF Gone
<1> QED
  BY <1>2, <1>12, <1>13, <1>14 DEF PassTakes, st2, A2

(* A landing write changes the queue as the pass it carries.               *)
LEMMA LandingCounts ==
  ASSUME EngineSound, AccountsSound, NEW b \in Brokers, NEW l \in Slots,
         InFlight(loop[<<b, l>>]), versionMatches(loop[<<b, l>>]), Land(loop[<<b, l>>]),
         mutation' = mutation
  PROVE  \E now \in 0..clock : LeavingCounted(now)
<1> DEFINE lp == loop[<<b, l>>]
           A == AppliedOf(commits)
           st == store.state
           batch == lp.batch
           n == lp.attempt
           mut == mutation
           eff == effect'
           A2 == A \cup ToSet(batch)
<1>1. PICK now \in 0..clock : PassAt(lp, mutation, st, now)
  BY LandingIs
<1>2. now \in Nat
  BY DEF EngineSound, TypeOK
<1>3. /\ Passable(st, A, mut, eff, batch, n)
      /\ lp.data = applyBatch(st, WorkOf(mut, batch, n), now).state
      /\ \A i \in DOMAIN batch :
            eff[batch[i]] = applyBatch(st, WorkOf(mut, batch, n), now).results[i]
      /\ AppliedOf(commits') = A2
  BY <1>1, LandingPasses
<1>4. /\ store'.state = lp.data /\ ToSet(batch) \subseteq Submissions
      /\ \A s \in ToSet(batch) : commits'[s] > commits[s]
  <2>1. /\ store'.state = lp.data /\ ToSet(batch) \subseteq Submissions
        /\ commits' = [s \in Submissions |-> commits[s] + (IF s \in ToSet(batch) THEN 1 ELSE 0)]
        /\ \A s \in ToSet(batch) : commits[s] = 0
    BY LandingIs
  <2> HIDE DEF batch
  <2> QED BY <2>1
<1> HIDE DEF lp, A, st, batch, n, mut, eff
<1>5. PassTakes(st, lp.data, batch, A2, mut, eff, now)
  <2> DEFINE st2 == applyBatch(st, WorkOf(mut, batch, n), now).state
  <2>1. PassTakes(st, st2, batch, A \cup ToSet(batch), mut, eff, now)
    BY <1>2, <1>3, PassCounts
  <2>2. lp.data = st2
    BY <1>3
  <2> HIDE DEF st2
  <2> QED BY <2>1, <2>2
<1>6. ASSUME NEW id, NEW s \in ToSet(batch), Completing(s, id, A2, mut, eff)
      PROVE  CompletedNow(id)
  <2>1. PICK c \in A2 : /\ mut[c].type = "claim" /\ eff[c].claimedJob = id
                        /\ mut[c].workerId = mut[s].workerId
    BY <1>6 DEF Completing, Claims
  <2>2. c \in Submissions /\ commits'[c] # 0
    BY <1>3, <2>1 DEF AppliedOf
  <2>3. mut[s].type = "complete" /\ mut[s].jobId = id
    BY <1>6 DEF Completing
  <2> QED BY <1>4, <2>1, <2>2, <2>3 DEF CompletedNow, mut, eff
<1> QED
  BY <1>4, <1>5, <1>6 DEF PassTakes, LeavingCounted, st

(* completedTotal counts the jobs that a worker they were granted to has   *)
(* completed, each once, and no other job leaves the queue but those whose *)
(* attempts are used up when they expire (core/src/state.ts, completeJob   *)
(* and expireHeartbeats, over any batches and write loops).                *)
THEOREM CompletionsAreCounted == Spec => CompletedCounted
<1>1. ASSUME EngineSound, AccountsSound, [Next]_vars, store'.state # store.state
      PROVE  \E now \in 0..clock : LeavingCounted(now)
  <2>1. DOMAIN mutation = Submissions /\ SnapshotsSound
    BY <1>1 DEF EngineSound
  <2>2. ~UNCHANGED storeVars
    BY <1>1 DEF storeVars
  <2>3. ~(store' = Created /\ store.version = 0)
    BY <1>1, <2>1 DEF SnapshotsSound, Created
  <2>4. PICK b \in Brokers, l \in Slots :
          /\ versionMatches(loop[<<b, l>>]) /\ Land(loop[<<b, l>>])
          /\ StoreWrite(b, l) \/ OrphanWrite(b, l)
    BY <1>1, <2>2, <2>3, StoreMoves
  <2>5. InFlight(loop[<<b, l>>]) /\ mutation' = mutation
    BY <2>4 DEF StoreWrite, OrphanWrite, InFlight, promiseVars
  <2> QED BY <1>1, <2>4, <2>5, LandingCounts
<1>2. EngineSound /\ AccountsSound /\ [Next]_vars
        => (store'.state # store.state => \E now \in 0..clock : LeavingCounted(now))
  BY <1>1
<1> QED
  BY <1>2, AlwaysAccounted, EngineInit, EngineNext, AccountsInit, AccountsNext,
     PTL DEF Spec, CompletedCounted
=============================================================================
