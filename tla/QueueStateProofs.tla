-------------------------- MODULE QueueStateProofs --------------------------
(***************************************************************************)
(* What the functions of state.ts do to any queue state: the passes over   *)
(* the jobs and over a batch unfold one element at a time, and induction   *)
(* over them is by the least counterexample.                               *)
(***************************************************************************)
EXTENDS QueueState, SequenceTheorems, WellFoundedInduction, TLAPS

(***************************************************************************)
(* Induction: a nonempty set of naturals has a least element.              *)
(***************************************************************************)
LEMMA LeastElement ==
  ASSUME NEW T \in SUBSET Nat, T # {}
  PROVE  \E m \in T : \A k \in T : m <= k
<1> DEFINE R == OpToRel(<, Nat)
<1>1. IsWellFoundedOn(R, Nat)
  BY NatLessThanWellFounded
<1> HIDE DEF R
<1>2. PICK m \in T : \A k \in T : <<k, m>> \notin R
  BY <1>1, WFMin
<1>3. \A k \in T : ~(k < m)
  BY <1>2 DEF R, OpToRel
<1> QED
  BY <1>3

(***************************************************************************)
(* Sequences of anything.                                                  *)
(***************************************************************************)
IsSeq(s) == s \in Seq(ToSet(s))

LEMMA IsSeqOf == ASSUME NEW S, NEW s \in Seq(S) PROVE IsSeq(s)
<1>1. \A i \in 1..Len(s) : s[i] \in ToSet(s)
  BY LenProperties DEF ToSet
<1>2. s \in [1..Len(s) -> ToSet(s)] /\ Len(s) \in Nat
  BY <1>1, LenProperties
<1> QED
  BY <1>2, SeqDef DEF IsSeq

LEMMA IsSeqFacts ==
  ASSUME NEW s, IsSeq(s)
  PROVE  Len(s) \in Nat /\ DOMAIN s = 1..Len(s)
  BY LenProperties DEF IsSeq

LEMMA EmptyIsSeq == IsSeq(<<>>) /\ Len(<<>>) = 0 /\ DOMAIN <<>> = {}
<1>1. <<>> \in Seq({}) /\ Len(<<>>) = 0
  BY EmptySeq
<1>2. IsSeq(<<>>)
  BY <1>1, IsSeqOf
<1> QED
  BY <1>1, <1>2, IsSeqFacts

LEMMA AppendSeq ==
  ASSUME NEW s, IsSeq(s), NEW e
  PROVE  /\ IsSeq(Append(s, e))
         /\ Len(Append(s, e)) = Len(s) + 1
         /\ \A i \in 1..Len(s) : Append(s, e)[i] = s[i]
         /\ Append(s, e)[Len(s) + 1] = e
         /\ ToSet(Append(s, e)) = ToSet(s) \cup {e}
<1> DEFINE S == ToSet(s) \cup {e}
           t == Append(s, e)
<1>1. s \in Seq(S) /\ e \in S
  BY SeqMonotonic DEF IsSeq
<1> HIDE DEF S
<1>2. /\ t \in Seq(S) /\ Len(t) = Len(s) + 1
      /\ \A i \in 1..Len(s) : t[i] = s[i]
      /\ t[Len(s) + 1] = e
  BY <1>1, AppendProperties
<1>3. IsSeq(t) /\ DOMAIN t = 1..(Len(s) + 1) /\ DOMAIN s = 1..Len(s) /\ Len(s) \in Nat
  BY <1>2, IsSeqOf, IsSeqFacts
<1> HIDE DEF t
<1>4. ToSet(t) = ToSet(s) \cup {e}
  <2>1. ASSUME NEW x \in ToSet(t) PROVE x \in ToSet(s) \cup {e}
    BY <1>2, <1>3, <2>1 DEF ToSet
  <2>2. ASSUME NEW x \in ToSet(s) PROVE x \in ToSet(t)
    BY <1>2, <1>3, <2>2 DEF ToSet
  <2>3. e \in ToSet(t)
    BY <1>2, <1>3 DEF ToSet
  <2> QED BY <2>1, <2>2, <2>3
<1> QED
  BY <1>2, <1>3, <1>4 DEF t

LEMMA ConcatSeq ==
  ASSUME NEW s, NEW t, IsSeq(s), IsSeq(t)
  PROVE  /\ IsSeq(s \o t)
         /\ Len(s \o t) = Len(s) + Len(t)
         /\ \A i \in 1..Len(s) : (s \o t)[i] = s[i]
         /\ \A i \in 1..Len(t) : (s \o t)[Len(s) + i] = t[i]
<1> DEFINE S == ToSet(s) \cup ToSet(t)
<1>1. s \in Seq(S) /\ t \in Seq(S)
  BY SeqMonotonic DEF IsSeq
<1> HIDE DEF S
<1>2. Len(s) \in Nat /\ Len(t) \in Nat
  BY IsSeqFacts
<1>3. /\ s \o t \in Seq(S) /\ Len(s \o t) = Len(s) + Len(t)
      /\ \A i \in 1..Len(s) + Len(t) :
            (s \o t)[i] = IF i <= Len(s) THEN s[i] ELSE t[i - Len(s)]
  BY <1>1, ConcatProperties
<1>4. ASSUME NEW i \in 1..Len(t) PROVE (s \o t)[Len(s) + i] = t[i]
  <2>1. Len(s) + i \in 1..Len(s) + Len(t) /\ ~(Len(s) + i <= Len(s)) /\ (Len(s) + i) - Len(s) = i
    BY <1>2
  <2> QED BY <1>3, <2>1
<1>5. ASSUME NEW i \in 1..Len(s) PROVE (s \o t)[i] = s[i]
  <2>1. i \in 1..Len(s) + Len(t) /\ i <= Len(s)
    BY <1>2
  <2> QED BY <1>3, <2>1
<1> QED
  BY <1>3, <1>4, <1>5, IsSeqOf

LEMMA ReplaceInSeq ==
  ASSUME NEW s, IsSeq(s), NEW k \in 1..Len(s), NEW e
  PROVE  /\ IsSeq([s EXCEPT ![k] = e])
         /\ Len([s EXCEPT ![k] = e]) = Len(s)
         /\ \A i \in 1..Len(s) : [s EXCEPT ![k] = e][i] = IF i = k THEN e ELSE s[i]
<1> DEFINE S == ToSet(s) \cup {e}
<1>1. s \in Seq(S) /\ e \in S
  BY SeqMonotonic DEF IsSeq
<1> HIDE DEF S
<1> DEFINE t == [s EXCEPT ![k] = e]
<1>2. /\ t \in Seq(S) /\ Len(t) = Len(s)
      /\ \A i \in 1..Len(s) : t[i] = IF i = k THEN e ELSE s[i]
  BY <1>1, ExceptSeq
<1>3. IsSeq(t)
  BY <1>2, IsSeqOf
<1> QED
  BY <1>2, <1>3

LEMMA RemoveSeq ==
  ASSUME NEW s, IsSeq(s), NEW k \in 1..Len(s)
  PROVE  /\ IsSeq(RemoveAt(s, k))
         /\ Len(RemoveAt(s, k)) = Len(s) - 1
         /\ \A i \in 1..(Len(s) - 1) : RemoveAt(s, k)[i] = IF i < k THEN s[i] ELSE s[i + 1]
<1> DEFINE S == ToSet(s)
           before == SubSeq(s, 1, k - 1)
           after == SubSeq(s, k + 1, Len(s))
<1>1. Len(s) \in Nat /\ k \in Int /\ \A i \in 1..Len(s) : s[i] \in S
  BY IsSeqFacts DEF ToSet
<1> HIDE DEF S
<1>2. /\ before \in Seq(S) /\ Len(before) = k - 1
      /\ \A i \in 1..(k - 1) : before[i] = s[i]
  BY <1>1, SubSeqProperties
<1>3. /\ after \in Seq(S) /\ Len(after) = Len(s) - k
      /\ \A i \in 1..(Len(s) - k) : after[i] = s[k + i]
  <2>1. Len(s) - (k + 1) + 1 = Len(s) - k /\ k + 1 \in Int
    BY <1>1
  <2>2. \A i \in 1..(Len(s) - k) : (k + 1) + i - 1 = k + i
    BY <1>1
  <2>3. \A i \in (k + 1)..Len(s) : s[i] \in S
    BY <1>1
  <2>4. /\ after \in Seq(S) /\ Len(after) = IF k + 1 <= Len(s) THEN Len(s) - (k + 1) + 1 ELSE 0
        /\ \A i \in 1..(Len(s) - (k + 1) + 1) : after[i] = s[(k + 1) + i - 1]
    BY <1>1, <2>1, <2>3, SubSeqProperties
  <2>5. Len(after) = Len(s) - k
    BY <1>1, <2>4
  <2>6. \A i \in 1..(Len(s) - k) : after[i] = s[(k + 1) + i - 1]
    BY <2>1, <2>4
  <2> QED BY <2>2, <2>4, <2>5, <2>6
<1> HIDE DEF before, after
<1>4. IsSeq(before) /\ IsSeq(after)
  BY <1>2, <1>3, IsSeqOf
<1>5. /\ IsSeq(before \o after) /\ Len(before \o after) = Len(s) - 1
      /\ \A i \in 1..(k - 1) : (before \o after)[i] = s[i]
      /\ \A i \in 1..(Len(s) - k) : (before \o after)[(k - 1) + i] = s[k + i]
  <2>1. /\ IsSeq(before \o after) /\ Len(before \o after) = (k - 1) + (Len(s) - k)
        /\ \A i \in 1..(k - 1) : (before \o after)[i] = before[i]
        /\ \A i \in 1..(Len(s) - k) : (before \o after)[(k - 1) + i] = after[i]
    <3>1. /\ IsSeq(before \o after) /\ Len(before \o after) = Len(before) + Len(after)
          /\ \A i \in 1..Len(before) : (before \o after)[i] = before[i]
          /\ \A i \in 1..Len(after) : (before \o after)[Len(before) + i] = after[i]
      BY <1>4, ConcatSeq
    <3>2. Len(before) = k - 1 /\ Len(after) = Len(s) - k
      BY <1>2, <1>3
    <3> QED BY <3>1, <3>2
  <2>2. (k - 1) + (Len(s) - k) = Len(s) - 1
    BY <1>1
  <2> QED BY <1>2, <1>3, <2>1, <2>2
<1>6. ASSUME NEW i \in 1..(Len(s) - 1)
      PROVE  (before \o after)[i] = IF i < k THEN s[i] ELSE s[i + 1]
  <2>1. CASE i < k
    BY <1>1, <1>5, <2>1
  <2>2. CASE ~(i < k)
    <3>1. /\ (i + 1) - k \in 1..(Len(s) - k) /\ (k - 1) + ((i + 1) - k) = i
          /\ k + ((i + 1) - k) = i + 1
      BY <1>1, <2>2
    <3> QED BY <1>5, <2>2, <3>1
  <2> QED BY <2>1, <2>2
<1> QED
  BY <1>5, <1>6 DEF RemoveAt, before, after

(***************************************************************************)
(* The passes over the jobs and over a batch, unfolded.                    *)
(***************************************************************************)
(* The pass of expireHeartbeats is a sequence of expireJob.                *)
LEMMA ExpiryUnfolds ==
  ASSUME NEW state, NEW now, Len(state.jobs) \in Nat
  PROVE  \E kept :
           /\ DOMAIN kept = 0..Len(state.jobs)
           /\ kept[0] = <<>>
           /\ \A i \in 1..Len(state.jobs) : kept[i] = expireJob(kept[i - 1], state.jobs[i], now)
           /\ expireHeartbeats(state, now) = [state EXCEPT !.jobs = kept[Len(state.jobs)]]
<1> DEFINE n == Len(state.jobs)
           first == <<>>
           next(p, i) == expireJob(p, state.jobs[i], now)
           IsPass(k, g) == g = [i \in 0..k |-> IF i = 0 THEN first ELSE next(g[i - 1], i)]
           T == {k \in 0..n : ~ \E g : IsPass(k, g)}
<1>1. expireHeartbeats(state, now) = [state EXCEPT !.jobs = (CHOOSE g : IsPass(n, g))[n]]
  BY DEF expireHeartbeats
<1> HIDE DEF first, next
<1>2. T = {}
  <2>1. SUFFICES ASSUME T # {} PROVE FALSE
    OBVIOUS
  <2>2. PICK m \in T : \A k \in T : m <= k
    <3>1. T \in SUBSET Nat
      OBVIOUS
    <3> QED BY <2>1, <3>1, LeastElement
  <2>3. CASE m = 0
    <3>1. IsPass(0, [i \in 0..0 |-> first])
      OBVIOUS
    <3> QED BY <2>2, <2>3, <3>1
  <2>4. CASE m # 0
    <3>1. m - 1 \in 0..n /\ m - 1 \notin T
      BY <2>2, <2>4
    <3>2. PICK g : IsPass(m - 1, g)
      BY <3>1
    <3> DEFINE h == [i \in 0..m |-> IF i = m THEN next(g[m - 1], m) ELSE g[i]]
    <3>3. \A i \in 0..(m - 1) : h[i] = g[i]
      BY <2>2
    <3>4. \A i \in 0..m : h[i] = IF i = 0 THEN first ELSE next(h[i - 1], i)
      <4> SUFFICES ASSUME NEW i \in 0..m
                   PROVE  h[i] = IF i = 0 THEN first ELSE next(h[i - 1], i)
        OBVIOUS
      <4>1. CASE i = m
        <5>1. h[m] = next(g[m - 1], m) /\ h[m - 1] = g[m - 1]
          BY <2>2, <2>4, <3>3
        <5> QED BY <2>4, <4>1, <5>1
      <4>2. CASE i # m
        <5>1. i \in 0..(m - 1)
          BY <2>2, <4>2
        <5>2. g[i] = IF i = 0 THEN first ELSE next(g[i - 1], i)
          BY <3>2, <5>1
        <5> QED BY <3>3, <5>1, <5>2
      <4> QED BY <4>1, <4>2
    <3>5. IsPass(m, h)
      BY <3>4
    <3> QED BY <2>2, <3>5
  <2> QED BY <2>3, <2>4
<1>3. \E g : IsPass(n, g)
  BY <1>2
<1> DEFINE kept == CHOOSE g : IsPass(n, g)
<1>4. IsPass(n, kept)
  BY <1>3
<1> HIDE DEF kept
<1>5. /\ DOMAIN kept = 0..n /\ kept[0] = first
      /\ \A i \in 1..n : kept[i] = next(kept[i - 1], i)
  <2>1. n \in Nat
    OBVIOUS
  <2> HIDE DEF n
  <2>2. 0 \in 0..n /\ \A i \in 1..n : i \in 0..n /\ i # 0
    BY <2>1
  <2>3. kept = [i \in 0..n |-> IF i = 0 THEN first ELSE next(kept[i - 1], i)]
    BY <1>4
  <2> QED BY <2>2, <2>3
<1> QED
  BY <1>1, <1>5 DEF kept, first, next

(* The pass over a batch is a sequence of applyNext.                       *)
LEMMA BatchUnfolds ==
  ASSUME NEW state, NEW batch, NEW now, Len(batch) \in Nat
  PROVE  \E pass :
           /\ DOMAIN pass = 0..Len(batch)
           /\ pass[0] = [state |-> expireHeartbeats(state, now), results |-> <<>>]
           /\ \A i \in 1..Len(batch) : pass[i] = applyNext(pass[i - 1], batch[i], now)
           /\ applyBatch(state, batch, now) = pass[Len(batch)]
<1> DEFINE n == Len(batch)
           first == [state |-> expireHeartbeats(state, now), results |-> <<>>]
           next(p, i) == applyNext(p, batch[i], now)
           IsPass(k, g) == g = [i \in 0..k |-> IF i = 0 THEN first ELSE next(g[i - 1], i)]
           T == {k \in 0..n : ~ \E g : IsPass(k, g)}
<1>1. applyBatch(state, batch, now) = (CHOOSE g : IsPass(n, g))[n]
  BY DEF applyBatch
<1> HIDE DEF first, next
<1>2. T = {}
  <2>1. SUFFICES ASSUME T # {} PROVE FALSE
    OBVIOUS
  <2>2. PICK m \in T : \A k \in T : m <= k
    <3>1. T \in SUBSET Nat
      OBVIOUS
    <3> QED BY <2>1, <3>1, LeastElement
  <2>3. CASE m = 0
    <3>1. IsPass(0, [i \in 0..0 |-> first])
      OBVIOUS
    <3> QED BY <2>2, <2>3, <3>1
  <2>4. CASE m # 0
    <3>1. m - 1 \in 0..n /\ m - 1 \notin T
      BY <2>2, <2>4
    <3>2. PICK g : IsPass(m - 1, g)
      BY <3>1
    <3> DEFINE h == [i \in 0..m |-> IF i = m THEN next(g[m - 1], m) ELSE g[i]]
    <3>3. \A i \in 0..(m - 1) : h[i] = g[i]
      BY <2>2
    <3>4. \A i \in 0..m : h[i] = IF i = 0 THEN first ELSE next(h[i - 1], i)
      <4> SUFFICES ASSUME NEW i \in 0..m
                   PROVE  h[i] = IF i = 0 THEN first ELSE next(h[i - 1], i)
        OBVIOUS
      <4>1. CASE i = m
        <5>1. h[m] = next(g[m - 1], m) /\ h[m - 1] = g[m - 1]
          BY <2>2, <2>4, <3>3
        <5> QED BY <2>4, <4>1, <5>1
      <4>2. CASE i # m
        <5>1. i \in 0..(m - 1)
          BY <2>2, <4>2
        <5>2. g[i] = IF i = 0 THEN first ELSE next(g[i - 1], i)
          BY <3>2, <5>1
        <5> QED BY <3>3, <5>1, <5>2
      <4> QED BY <4>1, <4>2
    <3>5. IsPass(m, h)
      BY <3>4
    <3> QED BY <2>2, <3>5
  <2> QED BY <2>3, <2>4
<1>3. \E g : IsPass(n, g)
  BY <1>2
<1> DEFINE pass == CHOOSE g : IsPass(n, g)
<1>4. IsPass(n, pass)
  BY <1>3
<1> HIDE DEF pass
<1>5. /\ DOMAIN pass = 0..n /\ pass[0] = first
      /\ \A i \in 1..n : pass[i] = next(pass[i - 1], i)
  BY <1>4
<1> QED
  BY <1>1, <1>5 DEF pass, first, next

(* Induction over a pass: what holds before it and at each of its steps.   *)
LEMMA PassInduction ==
  ASSUME NEW n \in Nat, NEW Good, 0 \in Good,
         \A i \in 1..n : i - 1 \in Good => i \in Good
  PROVE  \A i \in 0..n : i \in Good
<1> DEFINE T == {i \in 0..n : i \notin Good}
<1>1. SUFFICES ASSUME T # {} PROVE FALSE
  OBVIOUS
<1>2. T \in SUBSET Nat
  OBVIOUS
<1>3. PICK m \in T : \A k \in T : m <= k
  BY <1>1, <1>2, LeastElement
<1>4. m # 0 /\ m \in 1..n /\ m - 1 \in 0..n
  BY <1>3
<1>5. m - 1 \in Good
  BY <1>3, <1>4
<1> QED
  BY <1>3, <1>4, <1>5

(***************************************************************************)
(* The shape of a queue state.                                             *)
(***************************************************************************)
IsJob(job) ==
    /\ DOMAIN job = {"id", "type", "status", "workerId", "heartbeat", "attempts", "maxAttempts"}
    /\ job.status \in {"unclaimed", "in_progress"}
    /\ job.attempts \in Nat
    /\ job.maxAttempts \in Int \cup {None}
    /\ job.status = "in_progress" => job.heartbeat \in Int

UniqueIds(jobs) == \A i, k \in DOMAIN jobs : jobs[i].id = jobs[k].id => i = k

IsJobList(jobs) ==
    IsSeq(jobs) /\ UniqueIds(jobs) /\ \A job \in ToSet(jobs) : IsJob(job)

IsState(state) ==
    /\ DOMAIN state = {"broker", "brokerHeartbeat", "jobs", "completedTotal"}
    /\ IsJobList(state.jobs)
    /\ state.completedTotal \in Nat

JobsOf(state) == ToSet(state.jobs)

LEMMA JobsAndIds ==
  ASSUME NEW state
  PROVE  JobIds(state) = {job.id : job \in JobsOf(state)}
  BY DEF JobIds, JobsOf, ToSet

LEMMA OneJobPerId ==
  ASSUME NEW jobs, UniqueIds(jobs), NEW j \in ToSet(jobs), NEW k \in ToSet(jobs), j.id = k.id
  PROVE  j = k
  BY DEF UniqueIds, ToSet

(* JobOf finds the one job of an id.                                       *)
LEMMA JobOfIs ==
  ASSUME NEW state, IsState(state), NEW job \in JobsOf(state)
  PROVE  JobOf(state, job.id) = job
<1>1. PICK k \in DOMAIN state.jobs : state.jobs[k] = job
  BY DEF JobsOf, ToSet
<1> DEFINE c == CHOOSE i \in DOMAIN state.jobs : state.jobs[i].id = job.id
<1>2. c \in DOMAIN state.jobs /\ state.jobs[c].id = job.id
  BY <1>1
<1>3. c = k
  BY <1>1, <1>2 DEF IsState, IsJobList, UniqueIds
<1> QED
  BY <1>1, <1>3 DEF JobOf

LEMMA EmptyIsState == IsState(emptyState) /\ JobsOf(emptyState) = {} /\ JobIds(emptyState) = {}
<1>1. ToSet(<<>>) = {} /\ IsSeq(<<>>) /\ DOMAIN <<>> = {}
  BY EmptyIsSeq DEF ToSet
<1> QED
  BY <1>1 DEF IsState, IsJobList, UniqueIds, JobsOf, JobIds, emptyState

LEMMA ReplaceJob ==
  ASSUME NEW jobs, IsJobList(jobs), NEW k \in DOMAIN jobs, NEW job, IsJob(job),
         job.id = jobs[k].id
  PROVE  /\ IsJobList([jobs EXCEPT ![k] = job])
         /\ ToSet([jobs EXCEPT ![k] = job]) = (ToSet(jobs) \ {jobs[k]}) \cup {job}
<1> DEFINE t == [jobs EXCEPT ![k] = job]
<1>1. IsSeq(jobs) /\ DOMAIN jobs = 1..Len(jobs) /\ Len(jobs) \in Nat
  BY IsSeqFacts DEF IsJobList
<1>2. /\ IsSeq(t) /\ Len(t) = Len(jobs)
      /\ \A i \in 1..Len(jobs) : t[i] = IF i = k THEN job ELSE jobs[i]
  BY <1>1, ReplaceInSeq
<1>3. DOMAIN t = 1..Len(jobs)
  BY <1>2, IsSeqFacts
<1> HIDE DEF t
<1>4. UniqueIds(t)
  BY <1>1, <1>2, <1>3 DEF UniqueIds, IsJobList
<1>5. \A j \in ToSet(t) : j \in (ToSet(jobs) \ {jobs[k]}) \cup {job}
  BY <1>1, <1>2, <1>3 DEF ToSet, UniqueIds, IsJobList
<1>6. \A j \in (ToSet(jobs) \ {jobs[k]}) \cup {job} : j \in ToSet(t)
  BY <1>1, <1>2, <1>3 DEF ToSet
<1>7. \A j \in ToSet(t) : IsJob(j)
  BY <1>5 DEF IsJobList
<1> QED
  BY <1>2, <1>4, <1>5, <1>6, <1>7 DEF IsJobList, t

LEMMA RemoveJob ==
  ASSUME NEW jobs, IsJobList(jobs), NEW k \in DOMAIN jobs
  PROVE  /\ IsJobList(RemoveAt(jobs, k))
         /\ ToSet(RemoveAt(jobs, k)) = ToSet(jobs) \ {jobs[k]}
<1> DEFINE t == RemoveAt(jobs, k)
           n == Len(jobs)
<1>1. IsSeq(jobs) /\ DOMAIN jobs = 1..n /\ n \in Nat
  BY IsSeqFacts DEF IsJobList
<1>2. /\ IsSeq(t) /\ Len(t) = n - 1
      /\ \A i \in 1..(n - 1) : t[i] = IF i < k THEN jobs[i] ELSE jobs[i + 1]
  BY <1>1, RemoveSeq
<1>3. DOMAIN t = 1..(n - 1)
  BY <1>2, IsSeqFacts
<1> HIDE DEF t, n
<1>4. UniqueIds(t)
  <2> SUFFICES ASSUME NEW i \in 1..(n - 1), NEW m \in 1..(n - 1), t[i].id = t[m].id
               PROVE  i = m
    BY <1>3 DEF UniqueIds
  <2> DEFINE at(x) == IF x < k THEN x ELSE x + 1
  <2>1. at(i) \in 1..n /\ at(m) \in 1..n /\ t[i] = jobs[at(i)] /\ t[m] = jobs[at(m)]
    BY <1>1, <1>2
  <2>2. at(i) = at(m)
    BY <1>1, <2>1 DEF UniqueIds, IsJobList
  <2> QED BY <1>1, <2>2
<1>5. ASSUME NEW j \in ToSet(t) PROVE j \in ToSet(jobs) \ {jobs[k]}
  <2>1. PICK i \in 1..(n - 1) : t[i] = j
    BY <1>3, <1>5 DEF ToSet
  <2>2. PICK m \in 1..n : m # k /\ jobs[m] = j
    BY <1>1, <1>2, <2>1
  <2> QED BY <1>1, <2>2 DEF ToSet, UniqueIds, IsJobList
<1>6. ASSUME NEW j \in ToSet(jobs) \ {jobs[k]} PROVE j \in ToSet(t)
  <2>1. PICK m \in 1..n : m # k /\ jobs[m] = j
    BY <1>1, <1>6 DEF ToSet
  <2>2. PICK i \in 1..(n - 1) : t[i] = j
    <3>1. CASE m < k
      <4>1. m \in 1..(n - 1)
        BY <1>1, <3>1
      <4> QED BY <1>2, <2>1, <3>1, <4>1
    <3>2. CASE m > k
      <4>1. m - 1 \in 1..(n - 1) /\ ~(m - 1 < k) /\ (m - 1) + 1 = m
        BY <1>1, <3>2
      <4> QED BY <1>2, <2>1, <4>1
    <3> QED BY <1>1, <2>1, <3>1, <3>2
  <2> QED BY <1>3, <2>2 DEF ToSet
<1>7. \A j \in ToSet(t) : IsJob(j)
  BY <1>5 DEF IsJobList
<1> QED
  BY <1>2, <1>4, <1>5, <1>6, <1>7 DEF IsJobList, t

(***************************************************************************)
(* What each function of state.ts does to the jobs of a state.             *)
(***************************************************************************)
LEMMA MinIsMember ==
  ASSUME NEW I \in SUBSET Nat, I # {}
  PROVE  Min(I) \in I
<1>1. PICK m \in I : \A k \in I : m <= k
  BY LeastElement
<1> QED
  BY <1>1 DEF Min

(* The index a search returns is that of a job it was looking for.         *)
LEMMA HeldIndexIs ==
  ASSUME NEW state, IsState(state), NEW id, NEW worker,
         heldIndex(state, id, worker) # 0
  PROVE  /\ heldIndex(state, id, worker) \in DOMAIN state.jobs
         /\ LET job == state.jobs[heldIndex(state, id, worker)]
            IN job.id = id /\ job.workerId = worker /\ job.status = "in_progress"
<1> DEFINE jobs == state.jobs
           I == {i \in 1..Len(jobs) : /\ jobs[i].id = id /\ jobs[i].workerId = worker
                                      /\ jobs[i].status = "in_progress"}
<1>1. heldIndex(state, id, worker) = IF I # {} THEN Min(I) ELSE 0
  BY DEF heldIndex, SelectInSeq
<1>2. Len(jobs) \in Nat /\ DOMAIN jobs = 1..Len(jobs)
  BY IsSeqFacts DEF IsState, IsJobList
<1>3. I \in SUBSET Nat /\ I # {}
  BY <1>1, <1>2
<1>4. Min(I) \in I
  BY <1>3, MinIsMember
<1> QED
  BY <1>1, <1>2, <1>3, <1>4

(* A job that is held is found, and a heartbeat of its worker renews it.   *)
LEMMA HeldIndexFinds ==
  ASSUME NEW state, IsState(state), NEW job \in JobsOf(state), job.status = "in_progress"
  PROVE  LET idx == heldIndex(state, job.id, job.workerId)
         IN idx # 0 /\ idx \in DOMAIN state.jobs /\ state.jobs[idx] = job
<1> DEFINE jobs == state.jobs
           id == job.id
           worker == job.workerId
           idx == heldIndex(state, id, worker)
           I == {i \in 1..Len(jobs) : /\ jobs[i].id = id /\ jobs[i].workerId = worker
                                      /\ jobs[i].status = "in_progress"}
<1>1. idx = IF I # {} THEN Min(I) ELSE 0
  BY DEF heldIndex, SelectInSeq
<1>2. Len(jobs) \in Nat /\ DOMAIN jobs = 1..Len(jobs) /\ UniqueIds(jobs)
  BY IsSeqFacts DEF IsState, IsJobList
<1>3. PICK k \in DOMAIN jobs : jobs[k] = job
  BY DEF JobsOf, ToSet
<1>4. I \in SUBSET Nat /\ k \in I
  BY <1>2, <1>3
<1>5. Min(I) \in I
  BY <1>4, MinIsMember
<1>a. I # {}
  BY <1>4
<1>b. idx \in I
  BY <1>1, <1>5, <1>a
<1> HIDE DEF idx
<1>6. idx # 0 /\ idx \in DOMAIN jobs /\ jobs[idx].id = id
  BY <1>2, <1>b
<1>7. jobs[idx] = job
  BY <1>2, <1>3, <1>6 DEF UniqueIds
<1> QED BY <1>6, <1>7 DEF idx

claimedBy(job, worker, now) ==
    [job EXCEPT !.status = "in_progress", !.workerId = worker,
                !.heartbeat = now, !.attempts = job.attempts + 1]

LEMMA ClaimJob ==
  ASSUME NEW state, IsState(state), NEW worker, NEW jobTypes, NEW now \in Int
  PROVE  LET new == claimJob(state, worker, jobTypes, now)
         IN \/ new.state = state /\ new.result.claimedJob = None
            \/ \E job \in JobsOf(state) :
                 /\ job.status = "unclaimed"
                 /\ new.result.claimedJob = job.id
                 /\ IsState(new.state)
                 /\ JobsOf(new.state) =
                      (JobsOf(state) \ {job}) \cup {claimedBy(job, worker, now)}
                 /\ new.state.completedTotal = state.completedTotal
<1> DEFINE jobs == state.jobs
           I == {i \in 1..Len(jobs) : /\ jobs[i].status = "unclaimed"
                                      /\ matchesJobTypeFilter(jobs[i], jobTypes)}
           idx == SelectInSeq(state.jobs, LAMBDA job :
                   job.status = "unclaimed" /\ matchesJobTypeFilter(job, jobTypes))
           job == jobs[idx]
           claimed == claimedBy(job, worker, now)
           new == claimJob(state, worker, jobTypes, now)
<1>1. idx = IF I # {} THEN Min(I) ELSE 0
  BY DEF SelectInSeq
<1>2. Len(jobs) \in Nat /\ DOMAIN jobs = 1..Len(jobs) /\ IsJobList(jobs)
  BY IsSeqFacts DEF IsState, IsJobList
<1>3. CASE idx = 0
  BY <1>3 DEF claimJob
<1>4. CASE idx # 0
  <2>1. I \in SUBSET Nat /\ I # {}
    BY <1>1, <1>2, <1>4
  <2>2. idx \in DOMAIN jobs /\ job.status = "unclaimed"
    BY <1>1, <1>2, <2>1, MinIsMember
  <2>3. new = [state |-> [state EXCEPT !.jobs[idx] = claimed],
               result |-> [claimedJob |-> job.id]]
    BY <1>4 DEF claimJob, claimedBy
  <2> HIDE DEF idx
  <2>4. IsJob(job) /\ job \in JobsOf(state)
    BY <1>2, <2>2 DEF IsJobList, ToSet, JobsOf
  <2>5. IsJob(claimed) /\ claimed.id = job.id
    <3>1. /\ DOMAIN claimed = DOMAIN job /\ claimed.id = job.id
          /\ claimed.status = "in_progress" /\ claimed.heartbeat = now
          /\ claimed.attempts = job.attempts + 1 /\ claimed.maxAttempts = job.maxAttempts
      BY <2>4 DEF IsJob, claimedBy
    <3>2. job.attempts + 1 \in Nat /\ job.maxAttempts \in Int \cup {None}
      BY <2>4 DEF IsJob
    <3> HIDE DEF claimed
    <3> QED BY <2>4, <3>1, <3>2 DEF IsJob
  <2>6. /\ DOMAIN new.state = DOMAIN state /\ new.state.jobs = [jobs EXCEPT ![idx] = claimed]
        /\ new.state.completedTotal = state.completedTotal
        /\ new.result.claimedJob = job.id
    <3>1. new.state = [state EXCEPT !.jobs[idx] = claimed] /\ new.result.claimedJob = job.id
      BY <2>3
    <3> HIDE DEF claimed
    <3> QED BY <3>1 DEF IsState
  <2> HIDE DEF new, claimed
  <2>7. /\ IsJobList([jobs EXCEPT ![idx] = claimed])
        /\ ToSet([jobs EXCEPT ![idx] = claimed]) = (ToSet(jobs) \ {job}) \cup {claimed}
    BY <1>2, <2>2, <2>5, ReplaceJob
  <2>8. /\ IsState(new.state) /\ new.state.jobs = [jobs EXCEPT ![idx] = claimed]
        /\ new.state.completedTotal = state.completedTotal
    BY <2>6, <2>7 DEF IsState
  <2> QED
    BY <2>2, <2>4, <2>6, <2>7, <2>8 DEF claimed, new, JobsOf
<1> QED
  BY <1>3, <1>4

LEMMA HeartbeatJob ==
  ASSUME NEW state, IsState(state), NEW id, NEW worker, NEW now \in Int
  PROVE  LET new == heartbeatJob(state, id, worker, now)
         IN \/ new = state
            \/ \E job \in JobsOf(state) :
                 /\ job.id = id /\ job.workerId = worker /\ job.status = "in_progress"
                 /\ IsState(new)
                 /\ JobsOf(new) = (JobsOf(state) \ {job}) \cup {[job EXCEPT !.heartbeat = now]}
                 /\ new.completedTotal = state.completedTotal
<1> DEFINE idx == heldIndex(state, id, worker)
           jobs == state.jobs
           job == jobs[idx]
           beaten == [job EXCEPT !.heartbeat = now]
           new == heartbeatJob(state, id, worker, now)
<1>1. CASE idx = 0
  BY <1>1 DEF heartbeatJob
<1>2. CASE idx # 0
  <2>1. /\ idx \in DOMAIN jobs
        /\ job.id = id /\ job.workerId = worker /\ job.status = "in_progress"
    BY <1>2, HeldIndexIs
  <2>2. new = [state EXCEPT !.jobs = [jobs EXCEPT ![idx] = beaten]]
    BY <1>2 DEF heartbeatJob, IsState
  <2> HIDE DEF idx, new
  <2>3. IsJobList(jobs) /\ IsJob(job) /\ job \in JobsOf(state)
    BY <2>1 DEF IsState, IsJobList, ToSet, JobsOf
  <2>4. IsJob(beaten) /\ beaten.id = job.id
    BY <2>3 DEF IsJob
  <2> HIDE DEF beaten
  <2>5. /\ IsJobList([jobs EXCEPT ![idx] = beaten])
        /\ ToSet([jobs EXCEPT ![idx] = beaten]) = (ToSet(jobs) \ {job}) \cup {beaten}
    BY <2>1, <2>3, <2>4, ReplaceJob
  <2>6. /\ IsState(new) /\ new.jobs = [jobs EXCEPT ![idx] = beaten]
        /\ new.completedTotal = state.completedTotal
    BY <2>2, <2>5 DEF IsState
  <2> QED
    BY <2>1, <2>3, <2>5, <2>6 DEF beaten, new, JobsOf
<1> QED
  BY <1>1, <1>2

LEMMA HeartbeatArrives ==
  ASSUME NEW state, IsState(state), NEW job \in JobsOf(state), job.status = "in_progress",
         NEW now \in Int
  PROVE  [job EXCEPT !.heartbeat = now]
            \in JobsOf(heartbeatJob(state, job.id, job.workerId, now))
<1> DEFINE idx == heldIndex(state, job.id, job.workerId)
           jobs == state.jobs
           beaten == [job EXCEPT !.heartbeat = now]
           new == heartbeatJob(state, job.id, job.workerId, now)
<1>1. idx # 0 /\ idx \in DOMAIN jobs /\ jobs[idx] = job
  BY HeldIndexFinds
<1>2. new = [state EXCEPT !.jobs = [jobs EXCEPT ![idx] = beaten]]
  BY <1>1 DEF heartbeatJob, IsState
<1> HIDE DEF idx, new
<1>3. new.jobs = [jobs EXCEPT ![idx] = beaten] /\ IsJobList(jobs) /\ IsJob(job)
  BY <1>1, <1>2 DEF IsState, IsJobList, ToSet
<1>4. IsJob(beaten) /\ beaten.id = job.id
  BY <1>3 DEF IsJob
<1> HIDE DEF beaten
<1>5. ToSet([jobs EXCEPT ![idx] = beaten]) = (ToSet(jobs) \ {job}) \cup {beaten}
  BY <1>1, <1>3, <1>4, ReplaceJob
<1> QED BY <1>3, <1>5 DEF JobsOf, new, beaten

LEMMA CompleteJob ==
  ASSUME NEW state, IsState(state), NEW id, NEW worker
  PROVE  LET new == completeJob(state, id, worker)
         IN \/ new = state
            \/ \E job \in JobsOf(state) :
                 /\ job.id = id /\ job.workerId = worker /\ job.status = "in_progress"
                 /\ IsState(new)
                 /\ JobsOf(new) = JobsOf(state) \ {job}
                 /\ new.completedTotal = state.completedTotal + 1
<1> DEFINE idx == heldIndex(state, id, worker)
           jobs == state.jobs
           job == jobs[idx]
           new == completeJob(state, id, worker)
<1>1. CASE idx = 0
  BY <1>1 DEF completeJob
<1>2. CASE idx # 0
  <2>1. /\ idx \in DOMAIN jobs
        /\ job.id = id /\ job.workerId = worker /\ job.status = "in_progress"
    BY <1>2, HeldIndexIs
  <2>2. new = [state EXCEPT !.jobs = RemoveAt(jobs, idx),
                            !.completedTotal = state.completedTotal + 1]
    BY <1>2 DEF completeJob, IsState
  <2> HIDE DEF idx, new
  <2>3. IsJobList(jobs) /\ job \in JobsOf(state)
    BY <2>1 DEF IsState, ToSet, JobsOf
  <2>4. /\ IsJobList(RemoveAt(jobs, idx))
        /\ ToSet(RemoveAt(jobs, idx)) = ToSet(jobs) \ {job}
    BY <2>1, <2>3, RemoveJob
  <2>5. /\ IsState(new) /\ new.jobs = RemoveAt(jobs, idx)
        /\ new.completedTotal = state.completedTotal + 1
    <3>1. /\ DOMAIN new = DOMAIN state /\ new.jobs = RemoveAt(jobs, idx)
          /\ new.completedTotal = state.completedTotal + 1
      BY <2>2 DEF IsState
    <3>2. state.completedTotal + 1 \in Nat
      BY DEF IsState
    <3> QED BY <2>4, <3>1, <3>2 DEF IsState
  <2> QED
    BY <2>1, <2>3, <2>4, <2>5 DEF new, JobsOf
<1> QED
  BY <1>1, <1>2

LEMMA RegisterBroker ==
  ASSUME NEW state, IsState(state), NEW address, NEW timestamp
  PROVE  LET new == registerBroker(state, address, timestamp)
         IN /\ IsState(new) /\ JobsOf(new) = JobsOf(state)
            /\ new.completedTotal = state.completedTotal
<1> DEFINE new == registerBroker(state, address, timestamp)
<1>1. /\ DOMAIN new = DOMAIN state
      /\ new.jobs = state.jobs /\ new.completedTotal = state.completedTotal
  BY DEF registerBroker, IsState
<1> HIDE DEF new
<1>2. IsState(new)
  BY <1>1 DEF IsState
<1> QED
  BY <1>1, <1>2 DEF new, JobsOf

LEMMA AppendJob ==
  ASSUME NEW jobs, IsJobList(jobs), NEW job, IsJob(job),
         \A j \in ToSet(jobs) : j.id # job.id
  PROVE  /\ IsJobList(Append(jobs, job))
         /\ ToSet(Append(jobs, job)) = ToSet(jobs) \cup {job}
<1> DEFINE t == Append(jobs, job)
<1>1. IsSeq(jobs) /\ DOMAIN jobs = 1..Len(jobs) /\ Len(jobs) \in Nat
  BY IsSeqFacts DEF IsJobList
<1>2. /\ IsSeq(t) /\ Len(t) = Len(jobs) + 1
      /\ \A i \in 1..Len(jobs) : t[i] = jobs[i]
      /\ t[Len(jobs) + 1] = job
      /\ ToSet(t) = ToSet(jobs) \cup {job}
  BY <1>1, AppendSeq
<1>3. DOMAIN t = 1..(Len(jobs) + 1)
  BY <1>2, IsSeqFacts
<1> HIDE DEF t
<1>4. \A i \in 1..Len(jobs) : jobs[i] \in ToSet(jobs)
  BY <1>1 DEF ToSet
<1>5. UniqueIds(t)
  <2> SUFFICES ASSUME NEW i \in 1..(Len(jobs) + 1), NEW k \in 1..(Len(jobs) + 1),
                      t[i].id = t[k].id
               PROVE  i = k
    BY <1>3 DEF UniqueIds
  <2>1. CASE i \in 1..Len(jobs) /\ k \in 1..Len(jobs)
    BY <1>1, <1>2, <2>1 DEF UniqueIds, IsJobList
  <2>2. CASE i = Len(jobs) + 1 /\ k \in 1..Len(jobs)
    BY <1>2, <1>4, <2>2
  <2>3. CASE i \in 1..Len(jobs) /\ k = Len(jobs) + 1
    BY <1>2, <1>4, <2>3
  <2> QED BY <1>1, <2>1, <2>2, <2>3
<1> QED
  BY <1>2, <1>5 DEF IsJobList, t

(* Expiry keeps every job that is not stale, resets the stale ones that    *)
(* have attempts left and drops the others.                                *)
dropped(job, now) == isStale(job, now) /\ usedUp(job)
survivor(job, now) ==
    IF isStale(job, now)
    THEN [job EXCEPT !.status = "unclaimed", !.workerId = None, !.heartbeat = None]
    ELSE job

LEMMA SurvivorIs ==
  ASSUME NEW job, IsJob(job), NEW now
  PROVE  LET new == survivor(job, now)
         IN /\ IsJob(new) /\ new.id = job.id /\ new.attempts = job.attempts
            /\ new.maxAttempts = job.maxAttempts
            /\ isStale(job, now) => new.status = "unclaimed"
  BY DEF survivor, IsJob

LEMMA ExpireHeartbeats ==
  ASSUME NEW state, IsState(state), NEW now
  PROVE  LET new == expireHeartbeats(state, now)
         IN /\ IsState(new)
            /\ new.completedTotal = state.completedTotal
            /\ \A job \in JobsOf(state) : ~dropped(job, now) => survivor(job, now) \in JobsOf(new)
            /\ \A job \in JobsOf(new) : \E old \in JobsOf(state) :
                  ~dropped(old, now) /\ job = survivor(old, now)
<1> DEFINE jobs == state.jobs
           n == Len(jobs)
<1>1. n \in Nat /\ DOMAIN jobs = 1..n /\ UniqueIds(jobs) /\ \A i \in 1..n : IsJob(jobs[i])
  BY IsSeqFacts DEF IsState, IsJobList, ToSet
<1>2. PICK kept : /\ kept[0] = <<>>
                  /\ \A i \in 1..n : kept[i] = expireJob(kept[i - 1], jobs[i], now)
                  /\ expireHeartbeats(state, now) = [state EXCEPT !.jobs = kept[n]]
  BY <1>1, ExpiryUnfolds
<1> HIDE DEF jobs, n
<1> DEFINE Survives(i) ==
             /\ IsJobList(kept[i])
             /\ \A k \in 1..i : ~dropped(jobs[k], now) => survivor(jobs[k], now) \in ToSet(kept[i])
             /\ \A job \in ToSet(kept[i]) :
                   \E k \in 1..i : ~dropped(jobs[k], now) /\ job = survivor(jobs[k], now)
           Good == {i \in 0..n : Survives(i)}
<1>3. 0 \in Good
  <2>1. IsJobList(<<>>) /\ ToSet(<<>>) = {}
    BY EmptyIsSeq DEF IsJobList, UniqueIds, ToSet
  <2> QED BY <1>1, <1>2, <2>1
<1>4. ASSUME NEW i \in 1..n, i - 1 \in Good PROVE i \in Good
  <2> DEFINE old == kept[i - 1]
             job == jobs[i]
             new == survivor(job, now)
  <2>1. Survives(i - 1) /\ 1..i = (1..(i - 1)) \cup {i} /\ IsJob(job)
    BY <1>1, <1>4
  <2>2. kept[i] = IF dropped(job, now) THEN old ELSE Append(old, new)
    BY <1>2 DEF expireJob, dropped, survivor
  <2>3. CASE dropped(job, now)
    BY <2>1, <2>2, <2>3
  <2>4. CASE ~dropped(job, now)
    <3>1. \A j \in ToSet(old) : \E k \in 1..(i - 1) : j.id = jobs[k].id
      BY <1>1, <2>1, SurvivorIs
    <3>2. \A j \in ToSet(old) : j.id # job.id
      BY <1>1, <3>1 DEF UniqueIds
    <3>3. IsJob(new) /\ new.id = job.id
      BY <2>1, SurvivorIs
    <3> HIDE DEF new
    <3>4. IsJobList(Append(old, new)) /\ ToSet(Append(old, new)) = ToSet(old) \cup {new}
      BY <2>1, <3>2, <3>3, AppendJob
    <3>5. kept[i] = Append(old, new)
      BY <2>2, <2>4
    <3>6. ASSUME NEW k \in 1..i, ~dropped(jobs[k], now)
          PROVE  survivor(jobs[k], now) \in ToSet(kept[i])
      BY <2>1, <3>4, <3>5, <3>6 DEF new
    <3>7. ASSUME NEW j \in ToSet(kept[i])
          PROVE  \E k \in 1..i : ~dropped(jobs[k], now) /\ j = survivor(jobs[k], now)
      <4>1. CASE j \in ToSet(old)
        BY <2>1, <4>1
      <4>2. CASE j = new
        <5>1. i \in 1..i /\ ~dropped(jobs[i], now) /\ j = survivor(jobs[i], now)
          BY <2>1, <2>4, <4>2 DEF new
        <5> QED BY <5>1
      <4>3. j \in ToSet(old) \/ j = new
        BY <3>4, <3>5, <3>7
      <4> QED BY <4>1, <4>2, <4>3
    <3>8. IsJobList(kept[i])
      BY <3>4, <3>5
    <3>9. Survives(i)
      BY <3>6, <3>7, <3>8
    <3> QED BY <3>9
  <2> QED BY <2>3, <2>4
<1>5. Survives(n)
  <2> HIDE DEF Good
  <2>1. n \in Good
    BY <1>1, <1>3, <1>4, PassInduction
  <2> QED BY <2>1 DEF Good
<1> DEFINE new == expireHeartbeats(state, now)
<1>6. IsState(new) /\ new.jobs = kept[n] /\ new.completedTotal = state.completedTotal
  BY <1>2, <1>5 DEF IsState
<1>7. ToSet(jobs) = {jobs[i] : i \in 1..n}
  BY <1>1 DEF ToSet
<1> QED
  BY <1>5, <1>6, <1>7 DEF JobsOf, jobs

(* The jobs enqueueJobs makes: one for each spec, under the next ids.      *)
newJob(spec, id) ==
    [id |-> id, type |-> spec.jobType, status |-> "unclaimed", workerId |-> None,
     heartbeat |-> None, attempts |-> 0, maxAttempts |-> spec.maxAttempts]

IsSpecList(specs) ==
    IsSeq(specs) /\ \A i \in DOMAIN specs : specs[i].maxAttempts \in Int \cup {None}

LEMMA AppendDistinct ==
  ASSUME NEW seed, IsSeq(seed), NEW x, NEW y, Append(seed, x) = Append(seed, y)
  PROVE  x = y
  BY AppendSeq

newJobs(specs, seed) == {newJob(specs[i], Append(seed, i)) : i \in DOMAIN specs}

LEMMA EnqueueJobs ==
  ASSUME NEW state, IsState(state), NEW specs, IsSpecList(specs), NEW seed, IsSeq(seed),
         \A i \in DOMAIN specs : Append(seed, i) \notin JobIds(state)
  PROVE  LET new == enqueueJobs(state, specs, seed)
         IN /\ IsState(new.state)
            /\ new.result.enqueuedIds = {Append(seed, i) : i \in DOMAIN specs}
            /\ JobsOf(new.state) = JobsOf(state) \cup newJobs(specs, seed)
            /\ new.state.completedTotal = state.completedTotal
<1> DEFINE job(i) == newJob(specs[i], Append(seed, i))
           added == [i \in DOMAIN specs |-> job(i)]
           jobs == state.jobs \o added
           n == Len(state.jobs)
           m == Len(specs)
           new == enqueueJobs(state, specs, seed)
<1>1. /\ new.state = [state EXCEPT !.jobs = jobs]
      /\ new.result.enqueuedIds = {Append(seed, i) : i \in DOMAIN specs}
  BY DEF enqueueJobs, newJob
<1>2. /\ IsSeq(state.jobs) /\ n \in Nat /\ DOMAIN state.jobs = 1..n
      /\ m \in Nat /\ DOMAIN specs = 1..m
  BY IsSeqFacts DEF IsState, IsJobList, IsSpecList
<1>3. IsSeq(added) /\ Len(added) = m
  <2>1. \A i \in 1..m : job(i) \in {job(k) : k \in 1..m}
    OBVIOUS
  <2>2. added \in [1..m -> {job(k) : k \in 1..m}]
    BY <1>2, <2>1
  <2>3. added \in Seq({job(k) : k \in 1..m})
    BY <1>2, <2>2, SeqDef
  <2>4. Len(added) = m
    BY <1>2, <2>2, <2>3, LenProperties
  <2> QED BY <2>3, <2>4, IsSeqOf
<1>4. \A i \in 1..m : added[i] = job(i)
  BY <1>2
<1> HIDE DEF added
<1>5. /\ IsSeq(jobs) /\ Len(jobs) = n + m
      /\ \A i \in 1..n : jobs[i] = state.jobs[i]
      /\ \A i \in 1..m : jobs[n + i] = job(i)
  <2>1. /\ IsSeq(jobs) /\ Len(jobs) = n + Len(added)
        /\ \A i \in 1..n : jobs[i] = state.jobs[i]
        /\ \A i \in 1..Len(added) : jobs[n + i] = added[i]
    BY <1>2, <1>3, ConcatSeq
  <2> QED BY <1>3, <1>4, <2>1
<1>6. DOMAIN jobs = 1..(n + m)
  BY <1>5, IsSeqFacts
<1> HIDE DEF jobs, n, m
<1>7. \A i \in 1..m : IsJob(job(i)) /\ job(i).id = Append(seed, i)
  BY <1>2 DEF newJob, IsJob, IsSpecList
<1> HIDE DEF job
<1>8. \A i \in 1..(n + m) : i \in 1..n \/ (i - n \in 1..m /\ n + (i - n) = i)
  BY <1>2
<1>9. UniqueIds(jobs)
  <2> SUFFICES ASSUME NEW i \in 1..(n + m), NEW k \in 1..(n + m), jobs[i].id = jobs[k].id
               PROVE  i = k
    BY <1>6 DEF UniqueIds
  <2>1. \A j \in 1..n : jobs[j].id \in JobIds(state)
    BY <1>2, <1>5 DEF JobIds
  <2>2. \A j \in 1..m : jobs[n + j].id \notin JobIds(state)
    BY <1>2, <1>5, <1>7
  <2>3. CASE i \in 1..n /\ k \in 1..n
    BY <1>2, <1>5, <2>3 DEF UniqueIds, IsState, IsJobList
  <2>4. CASE i - n \in 1..m /\ k - n \in 1..m
    <3>1. Append(seed, i - n) = Append(seed, k - n)
      BY <1>2, <1>5, <1>7, <1>8, <2>4
    <3>2. i - n = k - n
      BY <3>1, AppendDistinct
    <3> QED BY <1>2, <3>2
  <2> QED BY <1>2, <1>8, <2>1, <2>2, <2>3, <2>4
<1>10. ToSet(jobs) = JobsOf(state) \cup {job(i) : i \in DOMAIN specs}
  <2>1. ASSUME NEW j \in ToSet(jobs) PROVE j \in JobsOf(state) \cup {job(i) : i \in DOMAIN specs}
    BY <1>2, <1>5, <1>6, <1>8, <2>1 DEF ToSet, JobsOf
  <2>2. ASSUME NEW j \in JobsOf(state) PROVE j \in ToSet(jobs)
    BY <1>2, <1>5, <1>6, <2>2 DEF ToSet, JobsOf
  <2>3. ASSUME NEW i \in DOMAIN specs PROVE job(i) \in ToSet(jobs)
    <3>1. n + i \in 1..(n + m)
      BY <1>2
    <3> QED BY <1>2, <1>5, <1>6, <3>1 DEF ToSet
  <2> QED BY <2>1, <2>2, <2>3
<1>11. \A j \in ToSet(jobs) : IsJob(j)
  BY <1>2, <1>7, <1>10 DEF IsState, IsJobList, JobsOf
<1> HIDE DEF new
<1>12. /\ IsState(new.state) /\ new.state.jobs = jobs
       /\ new.state.completedTotal = state.completedTotal
  BY <1>1, <1>5, <1>9, <1>11 DEF IsState, IsJobList
<1> QED
  BY <1>1, <1>10, <1>12 DEF JobsOf, job, new, newJobs

(* A pass over a batch: the states it goes through, and the results its    *)
(* mutations have on them.                                                 *)
LEMMA BatchSteps ==
  ASSUME NEW state, NEW batch, NEW now, Len(batch) \in Nat
  PROVE  LET pass == applyBatch(state, batch, now)
         IN \E at :
              /\ at[0] = expireHeartbeats(state, now)
              /\ at[Len(batch)] = pass.state
              /\ \A i \in 1..Len(batch) :
                    LET step == applyMutation(at[i - 1], batch[i].mutation, batch[i].seed, now)
                    IN at[i] = step.state /\ pass.results[i] = step.result
<1> DEFINE n == Len(batch)
<1>1. PICK pass : /\ pass[0] = [state |-> expireHeartbeats(state, now), results |-> <<>>]
                  /\ \A i \in 1..n : pass[i] = applyNext(pass[i - 1], batch[i], now)
                  /\ applyBatch(state, batch, now) = pass[n]
  BY BatchUnfolds
<1> DEFINE step(i) == applyMutation(pass[i - 1].state, batch[i].mutation, batch[i].seed, now)
           at == [i \in 0..n |-> pass[i].state]
           Has(i) == /\ IsSeq(pass[i].results) /\ Len(pass[i].results) = i
                     /\ \A k \in 1..i : pass[i].results[k] = step(k).result
           Good == {i \in 0..n : Has(i)}
<1>2. \A i \in 1..n : /\ pass[i].state = step(i).state
                      /\ pass[i].results = Append(pass[i - 1].results, step(i).result)
  <2>1. \A i \in 1..n : applyNext(pass[i - 1], batch[i], now) =
           [state |-> step(i).state, results |-> Append(pass[i - 1].results, step(i).result)]
    BY DEF applyNext
  <2> HIDE DEF step
  <2>2. \A i \in 1..n : pass[i] =
           [state |-> step(i).state, results |-> Append(pass[i - 1].results, step(i).result)]
    BY <1>1, <2>1
  <2>3. ASSUME NEW i \in 1..n
        PROVE  /\ pass[i].state = step(i).state
               /\ pass[i].results = Append(pass[i - 1].results, step(i).result)
    <3> DEFINE r == Append(pass[i - 1].results, step(i).result)
               t == step(i).state
    <3>1. pass[i] = [state |-> t, results |-> r]
      BY <2>2
    <3> HIDE DEF r, t
    <3>2. pass[i].state = t /\ pass[i].results = r
      BY <3>1
    <3> QED BY <3>2 DEF r, t
  <2> QED BY <2>3
<1> HIDE DEF step
<1>3. 0 \in Good
  BY <1>1, EmptyIsSeq
<1>4. ASSUME NEW i \in 1..n, i - 1 \in Good PROVE i \in Good
  <2> DEFINE old == pass[i - 1].results
             new == pass[i].results
  <2>1. /\ IsSeq(old) /\ Len(old) = i - 1
        /\ \A k \in 1..(i - 1) : old[k] = step(k).result
        /\ new = Append(old, step(i).result)
    BY <1>2, <1>4
  <2> HIDE DEF old, new
  <2>2. /\ IsSeq(new) /\ Len(new) = (i - 1) + 1
        /\ \A k \in 1..(i - 1) : new[k] = old[k]
        /\ new[(i - 1) + 1] = step(i).result
    BY <2>1, AppendSeq
  <2>3. ASSUME NEW k \in 1..i PROVE new[k] = step(k).result
    <3>1. k \in 1..(i - 1) \/ k = (i - 1) + 1
      OBVIOUS
    <3> QED BY <2>1, <2>2, <3>1
  <2>4. Len(new) = i
    BY <2>2
  <2> QED BY <2>2, <2>3, <2>4 DEF new
<1> HIDE DEF Good
<1>5. \A i \in 0..n : i \in Good
  BY <1>3, <1>4, PassInduction
<1>6. \A k \in 1..n : pass[n].results[k] = step(k).result
  <2>1. n \in Good
    BY <1>5
  <2> QED BY <2>1 DEF Good
<1>7. at[0] = expireHeartbeats(state, now) /\ at[n] = pass[n].state
  BY <1>1
<1>8. \A i \in 1..n : at[i] = step(i).state /\ at[i - 1] = pass[i - 1].state
  BY <1>2
<1> HIDE DEF at
<1> QED
  BY <1>1, <1>6, <1>7, <1>8 DEF step

(***************************************************************************)
(* Who holds a job.                                                        *)
(***************************************************************************)
LEMMA JobsAreJobs ==
  ASSUME NEW st, IsState(st), NEW job \in JobsOf(st)
  PROVE  IsJob(job) /\ job.id \in JobIds(st)
<1>1. job \in ToSet(st.jobs)
  BY DEF JobsOf
<1> QED
  BY <1>1, JobsAndIds DEF IsState, IsJobList

(* The job is still held: by the same worker, in the same attempt, and its *)
(* heartbeat has not gone back.                                            *)
StillHeld(old, job) ==
    /\ job.id = old.id /\ job.status = "in_progress"
    /\ job.attempts = old.attempts /\ job.workerId = old.workerId
    /\ job.heartbeat >= old.heartbeat

HeldIn(st, old) == \E job \in JobsOf(st) : StillHeld(old, job)

DoneBy(m, old) == m.type = "complete" /\ m.jobId = old.id /\ m.workerId = old.workerId

(* No job that is held has a heartbeat later than now.                     *)
HeartbeatsPast(st, now) ==
    \A job \in JobsOf(st) :
        job.status = "in_progress" => job.heartbeat \in Int /\ job.heartbeat <= now

(* What a mutation of st does to the jobs that are held.                   *)
HoldersKept(st, st2, m, now) ==
    /\ HeartbeatsPast(st2, now)
    /\ \A old \in JobsOf(st) : old.status = "in_progress" => HeldIn(st2, old) \/ DoneBy(m, old)

LEMMA HeldStays ==
  ASSUME NEW job, IsJob(job), job.status = "in_progress"
  PROVE  StillHeld(job, job)
  BY DEF StillHeld, IsJob

LEMMA HeldTransitive ==
  ASSUME NEW j1, NEW j2, NEW j3, StillHeld(j1, j2), StillHeld(j2, j3),
         IsJob(j2), IsJob(j3), j1.heartbeat \in Int
  PROVE  StillHeld(j1, j3)
<1>1. j2.heartbeat \in Int /\ j3.heartbeat \in Int
  BY DEF StillHeld, IsJob
<1> QED BY <1>1 DEF StillHeld

(* A state that only adds unclaimed jobs, or changes none.                 *)
LEMMA SameHolders ==
  ASSUME NEW st, IsState(st), NEW st2, NEW m, NEW now \in Int, HeartbeatsPast(st, now),
         JobsOf(st) \subseteq JobsOf(st2),
         \A job \in JobsOf(st2) : job \in JobsOf(st) \/ job.status = "unclaimed"
  PROVE  HoldersKept(st, st2, m, now)
<1>1. HeartbeatsPast(st2, now)
  BY DEF HeartbeatsPast
<1>2. \A old \in JobsOf(st) : old.status = "in_progress" => StillHeld(old, old)
  BY JobsAreJobs, HeldStays
<1> QED
  BY <1>1, <1>2 DEF HoldersKept, HeldIn

LEMMA ClaimKeepsHolders ==
  ASSUME NEW st, IsState(st), NEW m, NEW now \in Int, HeartbeatsPast(st, now),
         NEW worker, NEW jobTypes
  PROVE  HoldersKept(st, claimJob(st, worker, jobTypes, now).state, m, now)
<1> DEFINE st2 == claimJob(st, worker, jobTypes, now).state
<1>1. \/ st2 = st
      \/ \E job \in JobsOf(st) :
           /\ job.status = "unclaimed"
           /\ JobsOf(st2) = (JobsOf(st) \ {job}) \cup {claimedBy(job, worker, now)}
  BY ClaimJob
<1> HIDE DEF st2
<1>2. ASSUME st2 = st PROVE HoldersKept(st, st2, m, now)
  BY <1>2, SameHolders
<1>3. ASSUME NEW job \in JobsOf(st), job.status = "unclaimed",
             JobsOf(st2) = (JobsOf(st) \ {job}) \cup {claimedBy(job, worker, now)}
      PROVE  HoldersKept(st, st2, m, now)
  <2>1. claimedBy(job, worker, now).heartbeat = now
    BY JobsAreJobs DEF claimedBy, IsJob
  <2>2. HeartbeatsPast(st2, now)
    BY <1>3, <2>1 DEF HeartbeatsPast
  <2>3. \A old \in JobsOf(st) : old.status = "in_progress" =>
           old \in JobsOf(st2) /\ StillHeld(old, old)
    BY <1>3, JobsAreJobs, HeldStays
  <2> QED BY <2>2, <2>3 DEF HoldersKept, HeldIn
<1>4. HoldersKept(st, st2, m, now)
  BY <1>1, <1>2, <1>3
<1> QED BY <1>4 DEF st2

LEMMA HeartbeatKeepsHolders ==
  ASSUME NEW st, IsState(st), NEW m, NEW now \in Int, HeartbeatsPast(st, now),
         NEW id, NEW worker
  PROVE  HoldersKept(st, heartbeatJob(st, id, worker, now), m, now)
<1> DEFINE st2 == heartbeatJob(st, id, worker, now)
<1>1. \/ st2 = st
      \/ \E job \in JobsOf(st) :
           /\ job.status = "in_progress"
           /\ JobsOf(st2) = (JobsOf(st) \ {job}) \cup {[job EXCEPT !.heartbeat = now]}
  BY HeartbeatJob
<1> HIDE DEF st2
<1>2. ASSUME st2 = st PROVE HoldersKept(st, st2, m, now)
  BY <1>2, SameHolders
<1>3. ASSUME NEW job \in JobsOf(st), job.status = "in_progress",
             JobsOf(st2) = (JobsOf(st) \ {job}) \cup {[job EXCEPT !.heartbeat = now]}
      PROVE  HoldersKept(st, st2, m, now)
  <2> DEFINE beaten == [job EXCEPT !.heartbeat = now]
  <2>1. /\ beaten.id = job.id /\ beaten.status = "in_progress"
        /\ beaten.attempts = job.attempts /\ beaten.workerId = job.workerId
        /\ beaten.heartbeat = now
    BY <1>3, JobsAreJobs DEF IsJob
  <2>2. JobsOf(st2) = (JobsOf(st) \ {job}) \cup {beaten}
    BY <1>3
  <2> HIDE DEF beaten
  <2>3. job.heartbeat \in Int /\ job.heartbeat <= now
    BY <1>3 DEF HeartbeatsPast
  <2>4. StillHeld(job, beaten)
    BY <2>1, <2>3 DEF StillHeld
  <2>5. HeartbeatsPast(st2, now)
    BY <2>1, <2>2 DEF HeartbeatsPast
  <2>6. \A old \in JobsOf(st) \ {job} : old.status = "in_progress" =>
           old \in JobsOf(st2) /\ StillHeld(old, old)
    BY <2>2, JobsAreJobs, HeldStays
  <2> QED BY <2>2, <2>4, <2>5, <2>6 DEF HoldersKept, HeldIn
<1>4. HoldersKept(st, st2, m, now)
  BY <1>1, <1>2, <1>3
<1> QED BY <1>4 DEF st2

LEMMA CompleteKeepsHolders ==
  ASSUME NEW st, IsState(st), NEW m, m.type = "complete", NEW now \in Int,
         HeartbeatsPast(st, now)
  PROVE  HoldersKept(st, completeJob(st, m.jobId, m.workerId), m, now)
<1> DEFINE id == m.jobId
           worker == m.workerId
           st2 == completeJob(st, id, worker)
<1> HIDE DEF id, worker
<1>1. \/ st2 = st
      \/ \E job \in JobsOf(st) :
           /\ job.id = id /\ job.workerId = worker
           /\ JobsOf(st2) = JobsOf(st) \ {job}
  BY CompleteJob
<1> HIDE DEF st2
<1>2. ASSUME st2 = st PROVE HoldersKept(st, st2, m, now)
  BY <1>2, SameHolders
<1>3. ASSUME NEW job \in JobsOf(st), job.id = id, job.workerId = worker,
             JobsOf(st2) = JobsOf(st) \ {job}
      PROVE  HoldersKept(st, st2, m, now)
  <2>1. DoneBy(m, job)
    BY <1>3 DEF DoneBy, id, worker
  <2>2. HeartbeatsPast(st2, now)
    BY <1>3 DEF HeartbeatsPast
  <2>3. \A old \in JobsOf(st) \ {job} : old.status = "in_progress" =>
           old \in JobsOf(st2) /\ StillHeld(old, old)
    BY <1>3, JobsAreJobs, HeldStays
  <2> QED BY <2>1, <2>2, <2>3 DEF HoldersKept, HeldIn
<1>4. HoldersKept(st, st2, m, now)
  BY <1>1, <1>2, <1>3
<1> QED BY <1>4 DEF st2, id, worker

LEMMA EnqueueKeepsHolders ==
  ASSUME NEW st, IsState(st), NEW m, NEW now \in Int, HeartbeatsPast(st, now),
         NEW specs, IsSpecList(specs), NEW seed, IsSeq(seed),
         \A i \in DOMAIN specs : Append(seed, i) \notin JobIds(st)
  PROVE  HoldersKept(st, enqueueJobs(st, specs, seed).state, m, now)
<1>1. JobsOf(enqueueJobs(st, specs, seed).state) = JobsOf(st) \cup newJobs(specs, seed)
  BY EnqueueJobs
<1>2. \A job \in newJobs(specs, seed) : job.status = "unclaimed"
  BY DEF newJobs, newJob
<1> QED
  BY <1>1, <1>2, SameHolders

(* Expiry takes no job whose heartbeat is recent.                          *)
LEMMA ExpiryKeepsHolders ==
  ASSUME NEW st, IsState(st), NEW now \in Int, HeartbeatsPast(st, now)
  PROVE  LET st2 == expireHeartbeats(st, now)
         IN /\ HeartbeatsPast(st2, now)
            /\ \A old \in JobsOf(st) :
                  old.status = "in_progress" /\ ~isStale(old, now) => HeldIn(st2, old)
<1> DEFINE st2 == expireHeartbeats(st, now)
<1>1. /\ \A job \in JobsOf(st) : ~dropped(job, now) => survivor(job, now) \in JobsOf(st2)
      /\ \A job \in JobsOf(st2) : \E old \in JobsOf(st) :
            ~dropped(old, now) /\ job = survivor(old, now)
  BY ExpireHeartbeats
<1> HIDE DEF st2
<1>2. ASSUME NEW job \in JobsOf(st2), job.status = "in_progress"
      PROVE  job.heartbeat \in Int /\ job.heartbeat <= now
  <2>1. PICK old \in JobsOf(st) : job = survivor(old, now)
    BY <1>1
  <2>2. ~isStale(old, now)
    BY <1>2, <2>1, JobsAreJobs, SurvivorIs
  <2> QED BY <1>2, <2>1, <2>2 DEF survivor, HeartbeatsPast
<1>3. ASSUME NEW old \in JobsOf(st), old.status = "in_progress", ~isStale(old, now)
      PROVE  HeldIn(st2, old)
  <2>1. old \in JobsOf(st2)
    BY <1>1, <1>3 DEF dropped, survivor
  <2>2. StillHeld(old, old)
    BY <1>3, JobsAreJobs, HeldStays
  <2> QED BY <2>1, <2>2 DEF HeldIn
<1> QED
  BY <1>2, <1>3 DEF st2, HeartbeatsPast
=============================================================================
