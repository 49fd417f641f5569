-------------------------- MODULE SubmissionProofs --------------------------
(***************************************************************************)
(* What the relocation lists and the waits of Submission guarantee for     *)
(* every number of buffers, chunks and submissions in flight.              *)
(***************************************************************************)
EXTENDS Submission, SequenceTheorems, WellFoundedInduction, TLAPS

-----------------------------------------------------------------------------
(* Induction over the natural numbers, for a set instead of a predicate.   *)

\* A set of natural numbers has a least element.
LEMMA LeastElement ==
  ASSUME NEW S, S \subseteq Nat, S # {}
  PROVE  \E n \in S : \A m \in S : n <= m
<1>1. \A x, y \in Nat : x < y => <<x, y>> \in OpToRel(<, Nat)
  BY DEF OpToRel
<1>2. PICK n \in S : \A m \in S : ~(<<m, n>> \in OpToRel(<, Nat))
  <2>1. IsWellFoundedOn(OpToRel(<, Nat), Nat)
    BY NatLessThanWellFounded
  <2> QED
    BY <2>1, WFMin
<1>3. \A m \in S : ~(m < n)
  BY <1>1, <1>2
<1> QED
  BY <1>3

\* A set that holds 0, and with each number below n its successor, holds all up to n.
LEMMA BoundedInduction ==
  ASSUME NEW S, NEW n \in Nat, 0 \in S, \A k \in 0 .. n - 1 : k \in S => k + 1 \in S
  PROVE  0 .. n \subseteq S
<1> DEFINE T == (0 .. n) \ S
<1>1. SUFFICES ASSUME T # {} PROVE FALSE
  OBVIOUS
<1>2. T \subseteq Nat
  OBVIOUS
<1> HIDE DEF T
<1>3. PICK m \in T : \A k \in T : m <= k
  BY <1>1, <1>2, LeastElement
<1>4. m \in 1 .. n /\ m \notin S
  BY <1>3 DEF T
<1>5. m - 1 \in 0 .. n - 1 /\ m - 1 \notin T
  BY <1>2, <1>3, <1>4
<1> QED
  BY <1>4, <1>5 DEF T

\* A submission names both buffers of its job.
Job ==
  {j \in [names : SUBSET Buffer, ring : {"compute", "dma"}, to : Buffer, from : Buffer,
          chunks : SUBSET Chunk] : j.to \in j.names /\ j.from \in j.names}

Ioctl == ({"submit"} \X Job) \cup ({"wait"} \X Buffer)

Name == {"none", "syncDMACopy", "asyncDMACopy", "launch", "asyncDMAFence", "waitBuffer"}

Types ==
  /\ pending \in Seq(Job)
  /\ watched \in Chunk
  /\ mem \in [Buffer -> Contents]
  /\ meant \in [Buffer -> Contents]
  /\ call \in [name : Name, bufs : Seq(Buffer), todo : Seq(Ioctl), failed : SUBSET {"submit", "wait"}]

-----------------------------------------------------------------------------
(* The inductive invariant.                                                *)

\* h is the contents after each of the jobs, executed in their order.
IsReplay(h, jobs) ==
  /\ h \in [0 .. Len(jobs) -> [Buffer -> Contents]]
  /\ \A k \in 1 .. Len(jobs) : h[k] = Effect(h[k - 1], jobs[k])

\* What is in flight, executed in the order in which it was submitted, leads
\* from what the buffers hold to what they are meant to hold.
PendingLeadsToMeant ==
  \E h \in [0 .. Len(pending) -> [Buffer -> Contents]] :
    IsReplay(h, pending) /\ h[0] = mem /\ h[Len(pending)] = meant

\* The running function has issued the first of the ioctls in steps.
Follows(steps) ==
  /\ Len(call.todo) <= Len(steps)
  /\ \A i \in 1 .. Len(call.todo) : call.todo[i] = steps[Len(steps) - Len(call.todo) + i]

\* What a copy has reached when left ioctls are to come, the last two being the
\* waits for the destination and for the source.
SyncCopyProgress(dst, src, left) ==
  /\ call.bufs = <<dst, src>>
  /\ Follows(syncDMACopy(dst, src))
  /\ "wait" \notin call.failed /\ left <= 1 => ~Busy(dst)
  /\ "wait" \notin call.failed /\ left = 0 => ~Busy(src)
  /\ "submit" \notin call.failed /\ watched + left <= Chunks + 2 => meant[dst] = meant[src]

\* Once the flush is submitted, it is the last of what is in flight as long as
\* anything is.
WaitBufferProgress(b, left) ==
  /\ Follows(waitBuffer(b))
  /\ call.failed = {} /\ left = 1 => pending = <<>> \/ pending[Len(pending)] = Flush(b)
  /\ call.failed = {} /\ left = 0 => pending = <<>>

SyncCopyKnown ==
  call.name = "syncDMACopy" =>
    \E dst \in Buffer : \E src \in Buffer \ {dst} : SyncCopyProgress(dst, src, Len(call.todo))

WaitBufferKnown ==
  call.name = "waitBuffer" => \E b \in Buffer : WaitBufferProgress(b, Len(call.todo))

IInv == Types /\ PendingLeadsToMeant /\ SyncCopyKnown /\ WaitBufferKnown

-----------------------------------------------------------------------------
(* Sequences: what pending becomes when one submission finishes.           *)

Without(s, k) == SubSeq(s, 1, k - 1) \o SubSeq(s, k + 1, Len(s))

\* The others move up.
LEMMA WithoutProperties ==
  ASSUME NEW S, NEW s \in Seq(S), NEW k \in 1 .. Len(s)
  PROVE  /\ Without(s, k) \in Seq(S)
         /\ Len(Without(s, k)) = Len(s) - 1
         /\ \A i \in 1 .. Len(s) - 1 : Without(s, k)[i] = IF i < k THEN s[i] ELSE s[i + 1]
<1> DEFINE a == SubSeq(s, 1, k - 1)
           b == SubSeq(s, k + 1, Len(s))
<1>1. Len(s) \in Nat /\ k \in Nat /\ k >= 1 /\ k <= Len(s) /\ \A i \in 1 .. Len(s) : s[i] \in S
  BY LenProperties, ElementOfSeq
<1>2. a \in Seq(S) /\ Len(a) = k - 1 /\ \A i \in 1 .. k - 1 : a[i] = s[i]
  <2>1. \A i \in 1 .. k - 1 : s[i] \in S
    BY <1>1
  <2> QED
    BY <1>1, <2>1, SubSeqProperties
<1>3. b \in Seq(S) /\ Len(b) = Len(s) - k /\ \A i \in 1 .. Len(s) - k : b[i] = s[i + k]
  <2>1. \A i \in k + 1 .. Len(s) : s[i] \in S
    BY <1>1
  <2> QED
    BY <1>1, <2>1, SubSeqProperties
<1> DEFINE t == a \o b
<1>4. /\ t \in Seq(S)
      /\ Len(t) = Len(s) - 1
      /\ \A i \in 1 .. Len(s) - 1 : t[i] = IF i <= k - 1 THEN a[i] ELSE b[i - (k - 1)]
  <2> HIDE DEF a, b
  <2> QED
    BY <1>1, <1>2, <1>3, ConcatProperties
<1> HIDE DEF a, b, t
<1>5. \A i \in 1 .. Len(s) - 1 : i < k => t[i] = s[i]
  BY <1>1, <1>2, <1>4
<1>6. ASSUME NEW i \in 1 .. Len(s) - 1, ~(i < k)
      PROVE  t[i] = s[i + 1]
  <2>1. i - (k - 1) \in 1 .. Len(s) - k /\ i - (k - 1) + k = i + 1 /\ ~(i <= k - 1)
    BY <1>1, <1>6
  <2>2. t[i] = b[i - (k - 1)]
    BY <1>4, <2>1
  <2> QED
    BY <1>3, <2>1, <2>2
<1> QED
  BY <1>4, <1>5, <1>6 DEF Without, t, a, b

-----------------------------------------------------------------------------
(* Replays.                                                                *)

\* Executing a job gives contents again and changes only the buffer it moves to.
LEMMA EffectProperties ==
  ASSUME NEW m \in [Buffer -> Contents], NEW job \in Job
  PROVE  /\ Effect(m, job) \in [Buffer -> Contents]
         /\ \A b \in Buffer \ job.names : Effect(m, job)[b] = m[b]
         /\ \A b \in Buffer : Effect(m, job)[b] # m[b] => b = job.to /\ watched \in job.chunks
         /\ watched \in job.chunks => Effect(m, job)[job.to] = m[job.from]
BY DEF Effect, Job

\* Jobs that name no common buffer can be executed in either order.
LEMMA DisjointJobsCommute ==
  ASSUME NEW m \in [Buffer -> Contents], NEW i \in Job, NEW j \in Job, i.names \cap j.names = {}
  PROVE  Effect(Effect(m, i), j) = Effect(Effect(m, j), i)
<1>1. /\ i.to # j.to /\ i.from # j.to /\ i.to # j.from
      /\ i.to \in Buffer /\ i.from \in Buffer /\ j.to \in Buffer /\ j.from \in Buffer
  BY DEF Job
<1> QED
  BY <1>1 DEF Effect

\* A buffer that is not named by a part of the jobs is not changed by it.
LEMMA UnnamedIsUnchanged ==
  ASSUME NEW jobs \in Seq(Job), NEW h, IsReplay(h, jobs),
         NEW i \in 0 .. Len(jobs), NEW j \in i .. Len(jobs), NEW b \in Buffer,
         \A k \in i + 1 .. j : b \notin jobs[k].names
  PROVE  h[i][b] = h[j][b]
<1> DEFINE S == {n \in 0 .. j - i : h[i + n][b] = h[i][b]}
<1>1. Len(jobs) \in Nat /\ i \in Nat /\ j \in Nat /\ j - i \in Nat
  BY LenProperties
<1>2. 0 \in S
  BY <1>1
<1>3. ASSUME NEW n \in 0 .. j - i - 1, n \in S
      PROVE  n + 1 \in S
  <2> DEFINE k == i + n + 1
  <2>1. k \in 1 .. Len(jobs) /\ k \in i + 1 .. j /\ k - 1 = i + n /\ k - 1 \in 0 .. Len(jobs)
    BY <1>1
  <2>2. h[k] = Effect(h[k - 1], jobs[k]) /\ h[k - 1] \in [Buffer -> Contents]
    BY <2>1 DEF IsReplay
  <2>3. jobs[k] \in Job
    BY <2>1, ElementOfSeq
  <2>4. Effect(h[k - 1], jobs[k])[b] = h[k - 1][b]
    BY <2>1, <2>2, <2>3, EffectProperties
  <2>5. h[i + n][b] = h[i][b] /\ i + (n + 1) = k /\ n + 1 \in 0 .. j - i
    BY <1>1, <1>3
  <2> QED
    BY <2>1, <2>2, <2>4, <2>5
<1> HIDE DEF S
<1>4. 0 .. j - i \subseteq S
  BY <1>1, <1>2, <1>3, BoundedInduction
<1>5. j - i \in S /\ i + (j - i) = j
  BY <1>1, <1>4
<1> QED
  BY <1>5 DEF S

\* Submitting a job extends the replay.
LEMMA SubmittingExtends ==
  ASSUME NEW jobs \in Seq(Job), NEW h, IsReplay(h, jobs), NEW job \in Job
  PROVE  \E g \in [0 .. Len(jobs) + 1 -> [Buffer -> Contents]] :
           /\ IsReplay(g, Append(jobs, job))
           /\ g[0] = h[0]
           /\ g[Len(jobs) + 1] = Effect(h[Len(jobs)], job)
<1> DEFINE g == [n \in 0 .. Len(jobs) + 1 |-> IF n <= Len(jobs) THEN h[n] ELSE Effect(h[Len(jobs)], job)]
<1>1. Len(jobs) \in Nat
  BY LenProperties
<1>2. /\ Append(jobs, job) \in Seq(Job) /\ Len(Append(jobs, job)) = Len(jobs) + 1
      /\ \A k \in 1 .. Len(jobs) : Append(jobs, job)[k] = jobs[k]
      /\ Append(jobs, job)[Len(jobs) + 1] = job
  BY AppendProperties
<1>3. /\ \A n \in 0 .. Len(jobs) : h[n] \in [Buffer -> Contents]
      /\ \A k \in 1 .. Len(jobs) : h[k] = Effect(h[k - 1], jobs[k])
  BY DEF IsReplay
<1>4. Effect(h[Len(jobs)], job) \in [Buffer -> Contents]
  <2>1. h[Len(jobs)] \in [Buffer -> Contents]
    BY <1>1, <1>3
  <2> QED
    BY <2>1, EffectProperties
<1>5. g \in [0 .. Len(jobs) + 1 -> [Buffer -> Contents]]
  BY <1>1, <1>3, <1>4
<1>6. g[0] = h[0] /\ g[Len(jobs) + 1] = Effect(h[Len(jobs)], job)
  BY <1>1
<1>7. ASSUME NEW k \in 1 .. Len(jobs) + 1
      PROVE  g[k] = Effect(g[k - 1], Append(jobs, job)[k])
  <2>1. k - 1 \in 0 .. Len(jobs) /\ g[k - 1] = h[k - 1]
    BY <1>1
  <2>2. CASE k <= Len(jobs)
    BY <1>1, <1>2, <1>3, <2>1, <2>2
  <2>3. CASE k = Len(jobs) + 1
    BY <1>1, <1>2, <1>6, <2>1, <2>3
  <2> QED
    BY <1>1, <2>2, <2>3
<1> HIDE DEF g
<1>8. IsReplay(g, Append(jobs, job))
  BY <1>2, <1>5, <1>7 DEF IsReplay
<1> QED
  BY <1>5, <1>6, <1>8

\* A job that shares no buffer with those before it may be executed first.
LEMMA FinishingShortens ==
  ASSUME NEW jobs \in Seq(Job), NEW h, IsReplay(h, jobs), NEW k \in 1 .. Len(jobs),
         \A j \in 1 .. k - 1 : jobs[j].names \cap jobs[k].names = {}
  PROVE  \E g \in [0 .. Len(jobs) - 1 -> [Buffer -> Contents]] :
           /\ IsReplay(g, Without(jobs, k))
           /\ g[0] = Effect(h[0], jobs[k])
           /\ g[Len(jobs) - 1] = h[Len(jobs)]
<1> DEFINE g == [n \in 0 .. Len(jobs) - 1 |-> IF n < k THEN Effect(h[n], jobs[k]) ELSE h[n + 1]]
<1>1. Len(jobs) \in Nat /\ k \in Nat /\ 1 <= k /\ k <= Len(jobs) /\ jobs[k] \in Job
  BY LenProperties, ElementOfSeq
<1>2. /\ Without(jobs, k) \in Seq(Job) /\ Len(Without(jobs, k)) = Len(jobs) - 1
      /\ \A n \in 1 .. Len(jobs) - 1 : Without(jobs, k)[n] = IF n < k THEN jobs[n] ELSE jobs[n + 1]
  BY WithoutProperties
<1>3. /\ \A n \in 0 .. Len(jobs) : h[n] \in [Buffer -> Contents]
      /\ \A n \in 1 .. Len(jobs) : h[n] = Effect(h[n - 1], jobs[n])
  BY DEF IsReplay
<1>4. g \in [0 .. Len(jobs) - 1 -> [Buffer -> Contents]]
  <2>1. ASSUME NEW n \in 0 .. Len(jobs) - 1
        PROVE  g[n] \in [Buffer -> Contents]
    <3>1. n \in 0 .. Len(jobs) /\ n + 1 \in 0 .. Len(jobs)
      BY <1>1
    <3> QED
      BY <1>1, <1>3, <3>1, EffectProperties
  <2> QED
    BY <2>1
<1>5. /\ g[0] = Effect(h[0], jobs[k])
      /\ \A n \in 0 .. k - 1 : g[n] = Effect(h[n], jobs[k])
      /\ \A n \in k .. Len(jobs) - 1 : g[n] = h[n + 1]
  BY <1>1
<1>6. g[k - 1] = h[k]
  BY <1>1, <1>3, <1>5
<1> HIDE DEF g
<1>7. g[Len(jobs) - 1] = h[Len(jobs)]
  <2>1. CASE k = Len(jobs)
    BY <1>6, <2>1
  <2>2. CASE k < Len(jobs)
    BY <1>1, <1>5, <2>2
  <2> QED
    BY <1>1, <2>1, <2>2
<1>8. ASSUME NEW n \in 1 .. Len(jobs) - 1
      PROVE  g[n] = Effect(g[n - 1], Without(jobs, k)[n])
  <2>1. CASE n < k
    <3>1. n \in 0 .. k - 1 /\ n - 1 \in 0 .. k - 1 /\ n \in 1 .. k - 1 /\ n \in 1 .. Len(jobs) /\ n - 1 \in 0 .. Len(jobs)
      BY <1>1, <2>1
    <3>2. g[n] = Effect(Effect(h[n - 1], jobs[n]), jobs[k]) /\ g[n - 1] = Effect(h[n - 1], jobs[k])
      BY <1>3, <1>5, <3>1
    <3>3. jobs[n] \in Job /\ jobs[n].names \cap jobs[k].names = {}
      BY <3>1, ElementOfSeq
    <3>4. Effect(Effect(h[n - 1], jobs[n]), jobs[k]) = Effect(Effect(h[n - 1], jobs[k]), jobs[n])
      BY <1>1, <1>3, <3>1, <3>3, DisjointJobsCommute, ZenonT(40)
    <3>5. Without(jobs, k)[n] = jobs[n]
      BY <1>2, <2>1
    <3> QED
      BY <3>2, <3>4, <3>5
  <2>2. CASE n >= k
    <3>1. n \in k .. Len(jobs) - 1 /\ n + 1 \in 1 .. Len(jobs) /\ (n + 1) - 1 = n
      BY <1>1, <2>2
    <3>2. g[n] = Effect(h[n], jobs[n + 1])
      BY <1>3, <1>5, <3>1
    <3>3. g[n - 1] = h[n]
      <4>1. CASE n = k
        BY <1>6, <4>1
      <4>2. CASE n > k
        <5>1. n - 1 \in k .. Len(jobs) - 1 /\ (n - 1) + 1 = n
          BY <1>1, <4>2
        <5> QED
          BY <1>5, <5>1
      <4> QED
        BY <1>1, <2>2, <4>1, <4>2
    <3>4. Without(jobs, k)[n] = jobs[n + 1]
      BY <1>1, <1>2, <2>2
    <3> QED
      BY <3>2, <3>3, <3>4
  <2> QED
    BY <1>1, <2>1, <2>2
<1>9. IsReplay(g, Without(jobs, k))
  BY <1>2, <1>4, <1>8 DEF IsReplay
<1> QED
  BY <1>4, <1>5, <1>7, <1>9

-----------------------------------------------------------------------------
(* The functions of the library.                                           *)

\* Each function is a sequence of ioctls whose jobs name their buffers.
LEMMA CopySteps ==
  ASSUME NEW ring \in {"compute", "dma"}, NEW dst \in Buffer, NEW src \in Buffer \ {dst}
  PROVE  [c \in Chunk |-> Submit(Copy(ring, dst, src, c))] \in Seq(Ioctl)
<1>1. \A c \in Chunk : Copy(ring, dst, src, c) \in Job
  BY DEF Copy, Job, compute_push_reloc
<1>2. [c \in Chunk |-> Submit(Copy(ring, dst, src, c))] \in [1 .. Chunks -> Ioctl]
  BY <1>1 DEF Submit, Ioctl, Chunk
<1>3. Chunks \in Nat
  BY ChunksAssumption
<1> QED
  BY <1>2, <1>3, SeqDef

\* What a synchronous DMA copy asks of the kernel: its chunks, then the two waits.
LEMMA SyncCopySteps ==
  ASSUME NEW dst \in Buffer, NEW src \in Buffer \ {dst}
  PROVE  LET steps == syncDMACopy(dst, src)
         IN  /\ steps \in Seq(Ioctl)
             /\ Len(steps) = Chunks + 2
             /\ \A c \in Chunk : steps[c] = Submit(Copy("compute", dst, src, c))
             /\ steps[Chunks + 1] = Wait(dst)
             /\ steps[Chunks + 2] = Wait(src)
<1> DEFINE s == [c \in Chunk |-> Submit(Copy("compute", dst, src, c))]
           t == <<Wait(dst), Wait(src)>>
<1>1. Chunks \in Nat \ {0} /\ Chunk = 1 .. Chunks
  BY ChunksAssumption DEF Chunk
<1>2. s \in Seq(Ioctl) /\ DOMAIN s = 1 .. Chunks
  BY <1>1, CopySteps
<1>3. Len(s) = Chunks
  <2> HIDE DEF s
  <2>1. Len(s) \in Nat /\ DOMAIN s = 1 .. Len(s)
    BY <1>2, LenProperties
  <2> QED
    BY <1>1, <1>2, <2>1
<1>4. t \in Seq(Ioctl) /\ Len(t) = 2 /\ t[1] = Wait(dst) /\ t[2] = Wait(src)
  BY DEF Ioctl, Wait
<1>5. \A c \in Chunk : s[c] = Submit(Copy("compute", dst, src, c))
  OBVIOUS
<1>6. syncDMACopy(dst, src) = s \o t
  BY DEF syncDMACopy
<1> HIDE DEF s, t
<1>7. /\ s \o t \in Seq(Ioctl)
      /\ Len(s \o t) = Chunks + 2
      /\ \A i \in 1 .. Chunks + 2 : (s \o t)[i] = IF i <= Chunks THEN s[i] ELSE t[i - Chunks]
  <2>1. /\ s \o t \in Seq(Ioctl)
        /\ Len(s \o t) = Len(s) + Len(t)
        /\ \A i \in 1 .. Len(s) + Len(t) : (s \o t)[i] = IF i <= Len(s) THEN s[i] ELSE t[i - Len(s)]
    BY <1>2, <1>4, ConcatProperties
  <2> QED
    BY <1>3, <1>4, <2>1
<1>8. /\ \A c \in Chunk : (s \o t)[c] = s[c]
      /\ (s \o t)[Chunks + 1] = t[1]
      /\ (s \o t)[Chunks + 2] = t[2]
  <2>1. \A c \in 1 .. Chunks : c \in 1 .. Chunks + 2 /\ c <= Chunks
    BY <1>1
  <2>2. /\ Chunks + 1 \in 1 .. Chunks + 2 /\ ~(Chunks + 1 <= Chunks) /\ (Chunks + 1) - Chunks = 1
        /\ Chunks + 2 \in 1 .. Chunks + 2 /\ ~(Chunks + 2 <= Chunks) /\ (Chunks + 2) - Chunks = 2
    BY <1>1
  <2> QED
    BY <1>1, <1>7, <2>1, <2>2
<1> QED
  BY <1>4, <1>5, <1>6, <1>7, <1>8

\* What waiting for a buffer asks of the kernel: three calls.
LEMMA WaitBufferSteps ==
  ASSUME NEW b \in Buffer
  PROVE  LET steps == waitBuffer(b)
         IN  /\ steps \in Seq(Ioctl)
             /\ Len(steps) = 3
             /\ steps[1] = Wait(b) /\ steps[2] = Submit(Flush(b)) /\ steps[3] = Wait(b)
<1>1. Flush(b) \in Job
  BY DEF Flush, Job, compute_create_reloc_table
<1> QED
  BY <1>1 DEF waitBuffer, Ioctl, Wait, Submit

-----------------------------------------------------------------------------
(* Steps.                                                                  *)

\* The ioctl that is issued next, and what is left after it.
LEMMA NextIoctl ==
  ASSUME Types, call.todo # <<>>
  PROVE  /\ Len(call.todo) \in Nat \ {0}
         /\ Head(call.todo) = call.todo[1]
         /\ Head(call.todo) \in Ioctl
         /\ Tail(call.todo) \in Seq(Ioctl)
         /\ Len(Tail(call.todo)) = Len(call.todo) - 1
         /\ \A i \in 1 .. Len(call.todo) - 1 : Tail(call.todo)[i] = call.todo[i + 1]
<1>1. call.todo \in Seq(Ioctl)
  BY DEF Types
<1> QED
  BY <1>1, HeadTailProperties, EmptySeq

\* Issuing an ioctl records its failure and leaves the others to come.
LEMMA DoneProperties ==
  ASSUME Types, call.todo # <<>>, NEW failure \in SUBSET {"submit", "wait"}, call' = Done(failure)
  PROVE  /\ call' \in [name : Name, bufs : Seq(Buffer), todo : Seq(Ioctl), failed : SUBSET {"submit", "wait"}]
         /\ call'.name = call.name
         /\ call'.bufs = call.bufs
         /\ call'.todo = Tail(call.todo)
         /\ call'.failed = call.failed \cup failure
BY NextIoctl DEF Done, Types

\* A function keeps following its steps.
LEMMA FollowsOn ==
  ASSUME Types, call.todo # <<>>, call'.todo = Tail(call.todo),
         NEW steps \in Seq(Ioctl), Follows(steps)
  PROVE  /\ Follows(steps)'
         /\ Len(call.todo) \in 1 .. Len(steps)
         /\ Head(call.todo) = steps[Len(steps) - Len(call.todo) + 1]
<1>1. Len(steps) \in Nat
  BY LenProperties
<1>2. /\ Len(call.todo) \in Nat \ {0}
      /\ Head(call.todo) = call.todo[1]
      /\ Len(call'.todo) = Len(call.todo) - 1
      /\ \A i \in 1 .. Len(call.todo) - 1 : call'.todo[i] = call.todo[i + 1]
  BY NextIoctl
<1>3. /\ Len(call.todo) <= Len(steps)
      /\ \A i \in 1 .. Len(call.todo) : call.todo[i] = steps[Len(steps) - Len(call.todo) + i]
  BY DEF Follows
<1> DEFINE n == Len(call.todo)
           m == Len(steps)
<1>4. n \in Nat \ {0} /\ m \in Nat /\ n <= m /\ Len(call'.todo) = n - 1
  BY <1>1, <1>2, <1>3
<1> HIDE DEF n, m
<1>5. ASSUME NEW i \in 1 .. n - 1
      PROVE  call'.todo[i] = steps[m - (n - 1) + i]
  <2>1. i + 1 \in 1 .. n /\ m - n + (i + 1) = m - (n - 1) + i
    BY <1>4
  <2>2. call'.todo[i] = call.todo[i + 1]
    BY <1>2 DEF n
  <2>3. call.todo[i + 1] = steps[m - n + (i + 1)]
    BY <1>3, <2>1 DEF n, m
  <2> QED
    BY <2>1, <2>2, <2>3
<1>6. Follows(steps)'
  <2>1. Len(call'.todo) <= m
    BY <1>4
  <2> QED
    BY <1>4, <1>5, <2>1 DEF Follows, m
<1>7. n \in 1 .. m /\ 1 \in 1 .. n
  BY <1>4
<1>8. call.todo[1] = steps[m - n + 1]
  BY <1>3, <1>7 DEF n, m
<1> QED
  BY <1>2, <1>6, <1>7, <1>8 DEF n, m

\* With nothing queued and no call under way the invariant holds.
LEMMA InitEstablishes == Init => IInv
<1> SUFFICES ASSUME Init PROVE IInv
  OBVIOUS
<1>1. Types
  <2>1. <<>> \in Seq(Job) /\ <<>> \in Seq(Buffer) /\ <<>> \in Seq(Ioctl)
    BY EmptySeq
  <2>2. Returned \in [name : Name, bufs : Seq(Buffer), todo : Seq(Ioctl), failed : SUBSET {"submit", "wait"}]
    BY <2>1 DEF Returned, Name
  <2> QED
    BY <2>1, <2>2 DEF Init, Types
<1>2. PendingLeadsToMeant
  <2> DEFINE h == [n \in 0 .. 0 |-> mem]
  <2>1. Len(pending) = 0 /\ meant = mem /\ mem \in [Buffer -> Contents]
    BY DEF Init
  <2>2. h \in [0 .. Len(pending) -> [Buffer -> Contents]] /\ h[0] = mem
    BY <2>1
  <2> HIDE DEF h
  <2>3. IsReplay(h, pending)
    BY <2>1, <2>2 DEF IsReplay
  <2> QED
    BY <2>1, <2>2, <2>3 DEF PendingLeadsToMeant
<1> QED
  BY <1>1, <1>2 DEF Init, Returned, IInv, SyncCopyKnown, WaitBufferKnown

\* A call begins the function name with what it leaves alone.
Begins(name, bufs, steps) ==
  /\ name \in Name /\ bufs \in Seq(Buffer) /\ steps \in Seq(Ioctl)
  /\ call.todo = <<>>
  /\ call' = [name |-> name, bufs |-> bufs, todo |-> steps, failed |-> {}]
  /\ UNCHANGED <<pending, watched, mem, meant>>
  /\ name = "syncDMACopy" =>
       \E dst \in Buffer : \E src \in Buffer \ {dst} : bufs = <<dst, src>> /\ steps = syncDMACopy(dst, src)
  /\ name = "waitBuffer" => \E b \in Buffer : steps = waitBuffer(b)

\* Every call the application makes is one whose steps Begins describes.
LEMMA CallsAreKnown ==
  ASSUME Application
  PROVE  \E name, bufs, steps : Begins(name, bufs, steps)
<1>1. ASSUME NEW dst \in Buffer, NEW src \in Buffer \ {dst}, Call("syncDMACopy", <<dst, src>>, syncDMACopy(dst, src))
      PROVE  Begins("syncDMACopy", <<dst, src>>, syncDMACopy(dst, src))
  BY <1>1, SyncCopySteps DEF Call, Begins, Name
<1>2. ASSUME NEW dst \in Buffer, NEW src \in Buffer \ {dst}, Call("asyncDMACopy", <<dst, src>>, asyncDMACopy(dst, src))
      PROVE  Begins("asyncDMACopy", <<dst, src>>, asyncDMACopy(dst, src))
  <2>1. asyncDMACopy(dst, src) \in Seq(Ioctl)
    BY CopySteps DEF asyncDMACopy
  <2> QED
    BY <1>2, <2>1 DEF Call, Begins, Name
<1>3. ASSUME NEW dst \in Buffer, NEW src \in Buffer \ {dst}, Call("launch", <<dst, src>>, launch(src, dst, {dst, src}))
      PROVE  Begins("launch", <<dst, src>>, launch(src, dst, {dst, src}))
  <2>1. Dispatch(src, dst, {dst, src}) \in Job
    BY DEF Dispatch, Job
  <2>2. launch(src, dst, {dst, src}) \in Seq(Ioctl)
    BY <2>1 DEF launch, Submit, Ioctl
  <2> QED
    BY <1>3, <2>2 DEF Call, Begins, Name
<1>4. ASSUME NEW b \in Buffer, Call("asyncDMAFence", <<b>>, asyncDMAFence(b))
      PROVE  Begins("asyncDMAFence", <<b>>, asyncDMAFence(b))
  <2>1. asyncDMAFence(b) \in Seq(Ioctl)
    BY DEF asyncDMAFence, Wait, Ioctl
  <2> QED
    BY <1>4, <2>1 DEF Call, Begins, Name
<1>5. ASSUME NEW b \in Buffer, Call("waitBuffer", <<b>>, waitBuffer(b))
      PROVE  Begins("waitBuffer", <<b>>, waitBuffer(b))
  BY <1>5, WaitBufferSteps DEF Call, Begins, Name
<1> QED
  BY <1>1, <1>2, <1>3, <1>4, <1>5 DEF Application

\* A call changes nothing but the function that runs, and promises nothing yet.
LEMMA CallKeepsInvariant ==
  ASSUME IInv, Application
  PROVE  IInv'
<1>1. PICK name, bufs, steps : Begins(name, bufs, steps)
  BY CallsAreKnown
<1>2. call'.name = name /\ call'.bufs = bufs /\ call'.todo = steps /\ call'.failed = {}
      /\ UNCHANGED <<pending, watched, mem, meant>> /\ steps \in Seq(Ioctl)
  BY <1>1 DEF Begins
<1>3. Types'
  BY <1>1 DEF IInv, Types, Begins
<1>4. PendingLeadsToMeant'
  BY <1>2 DEF IInv, PendingLeadsToMeant, IsReplay, Effect
<1>5. Len(steps) \in Nat /\ watched' \in 1 .. Chunks /\ Chunks \in Nat
  BY <1>2, <1>3, LenProperties, ChunksAssumption DEF Types, Chunk
<1>6. Follows(steps)'
  BY <1>2, <1>5 DEF Follows
<1>7. SyncCopyKnown'
  <2> SUFFICES ASSUME name = "syncDMACopy" PROVE SyncCopyKnown'
    BY <1>2 DEF SyncCopyKnown
  <2>1. PICK dst \in Buffer : \E src \in Buffer \ {dst} : bufs = <<dst, src>> /\ steps = syncDMACopy(dst, src)
    BY <1>1 DEF Begins
  <2>2. PICK src \in Buffer \ {dst} : bufs = <<dst, src>> /\ steps = syncDMACopy(dst, src)
    BY <2>1
  <2>3. Len(steps) = Chunks + 2
    BY <2>2, SyncCopySteps
  <2>4. ~(Chunks + 2 <= 1) /\ Chunks + 2 # 0 /\ ~(watched' + (Chunks + 2) <= Chunks + 2)
    <3>1. \A x \in 1 .. Chunks : ~(Chunks + 2 <= 1) /\ Chunks + 2 # 0 /\ ~(x + (Chunks + 2) <= Chunks + 2)
      BY ChunksAssumption
    <3> QED
      BY <1>5, <3>1
  <2>5. SyncCopyProgress(dst, src, Len(call.todo))'
    BY <1>2, <1>6, <2>2, <2>3, <2>4 DEF SyncCopyProgress
  <2> QED
    BY <2>5 DEF SyncCopyKnown
<1>8. WaitBufferKnown'
  <2> SUFFICES ASSUME name = "waitBuffer" PROVE WaitBufferKnown'
    BY <1>2 DEF WaitBufferKnown
  <2>1. PICK b \in Buffer : steps = waitBuffer(b)
    BY <1>1 DEF Begins
  <2>2. Len(steps) = 3
    BY <2>1, WaitBufferSteps
  <2>3. WaitBufferProgress(b, Len(call.todo))'
    BY <1>2, <1>6, <2>1, <2>2 DEF WaitBufferProgress
  <2> QED
    BY <2>3 DEF WaitBufferKnown
<1> QED
  BY <1>3, <1>4, <1>7, <1>8 DEF IInv

\* Where the next ioctl lies in the steps of syncDMACopy says which one it is.
LEMMA SyncCopyIoctl ==
  ASSUME NEW dst \in Buffer, NEW src \in Buffer \ {dst}, NEW left \in 1 .. Chunks + 2
  PROVE  LET next == syncDMACopy(dst, src)[(Chunks + 2) - left + 1]
         IN  /\ next[1] = "submit" => /\ left > 2
                                      /\ (Chunks + 2) - left + 1 \in Chunk
                                      /\ next[2] = Copy("compute", dst, src, (Chunks + 2) - left + 1)
             /\ next[1] = "wait" => left <= 2
             /\ left = 2 => next = Wait(dst)
             /\ left = 1 => next = Wait(src)
<1> DEFINE c == (Chunks + 2) - left + 1
           steps == syncDMACopy(dst, src)
<1>1. Chunks \in Nat \ {0} /\ Chunk = 1 .. Chunks /\ left \in Int
  BY ChunksAssumption DEF Chunk
<1>2. /\ \A i \in Chunk : steps[i] = Submit(Copy("compute", dst, src, i))
      /\ steps[Chunks + 1] = Wait(dst)
      /\ steps[Chunks + 2] = Wait(src)
  BY SyncCopySteps
<1>3. (left > 2 => c \in Chunk) /\ (left = 2 => c = Chunks + 1) /\ (left = 1 => c = Chunks + 2)
  BY <1>1
<1> HIDE DEF c, steps
<1>4. left > 2 => steps[c] = Submit(Copy("compute", dst, src, c))
  BY <1>2, <1>3
<1>5. (left = 2 => steps[c] = Wait(dst)) /\ (left = 1 => steps[c] = Wait(src))
  BY <1>2, <1>3
<1>6. left = 1 \/ left = 2 \/ left > 2
  BY <1>1
<1>7. /\ steps[c][1] = "submit" => left > 2
      /\ steps[c][1] = "wait" => left = 2 \/ left = 1
      /\ left > 2 => steps[c][2] = Copy("compute", dst, src, c)
  BY <1>4, <1>5, <1>6 DEF Submit, Wait
<1> QED
  BY <1>1, <1>3, <1>5, <1>7 DEF c, steps

\* A submission the kernel accepts moves one job of the call to the end of the queue.
LEMMA AcceptKeepsInvariant ==
  ASSUME IInv, Accept
  PROVE  IInv'
<1> DEFINE job == Head(call.todo)[2]
           left == Len(call.todo)
<1>1. /\ Types /\ call.todo # <<>> /\ Head(call.todo)[1] = "submit"
      /\ pending' = Append(pending, job) /\ meant' = Effect(meant, job)
      /\ call' = Done({}) /\ mem' = mem /\ watched' = watched
  BY DEF IInv, Accept, NextIs, Operand
<1>2. job \in Job
  BY <1>1, NextIoctl DEF Ioctl
<1>3. /\ call' \in [name : Name, bufs : Seq(Buffer), todo : Seq(Ioctl), failed : SUBSET {"submit", "wait"}]
      /\ call'.name = call.name /\ call'.bufs = call.bufs /\ call'.failed = call.failed
      /\ call'.todo = Tail(call.todo)
  <2>1. {} \in SUBSET {"submit", "wait"} /\ call.failed \cup {} = call.failed
    OBVIOUS
  <2> QED
    BY <1>1, <2>1, DoneProperties
<1>4. left \in Nat \ {0} /\ Len(call'.todo) = left - 1
  BY <1>1, <1>3, NextIoctl
<1> HIDE DEF job, left
<1>5. /\ pending \in Seq(Job) /\ watched \in 1 .. Chunks /\ Chunks \in Nat \ {0}
      /\ mem \in [Buffer -> Contents] /\ meant \in [Buffer -> Contents]
  BY <1>1, ChunksAssumption DEF Types, Chunk
<1>6. Types'
  BY <1>1, <1>2, <1>3, <1>5, AppendProperties, EffectProperties DEF Types
<1>7. PendingLeadsToMeant'
  <2>1. PICK h \in [0 .. Len(pending) -> [Buffer -> Contents]] :
          IsReplay(h, pending) /\ h[0] = mem /\ h[Len(pending)] = meant
    BY DEF IInv, PendingLeadsToMeant
  <2>2. PICK g \in [0 .. Len(pending) + 1 -> [Buffer -> Contents]] :
          IsReplay(g, Append(pending, job)) /\ g[0] = h[0] /\ g[Len(pending) + 1] = Effect(h[Len(pending)], job)
    BY <1>2, <1>5, <2>1, SubmittingExtends
  <2>3. Len(pending') = Len(pending) + 1
    BY <1>1, <1>2, <1>5, AppendProperties
  <2>4. IsReplay(g, pending)'
    BY <1>1, <2>2 DEF IsReplay, Effect
  <2> QED
    BY <1>1, <2>1, <2>2, <2>3, <2>4 DEF PendingLeadsToMeant
<1>8. SyncCopyKnown'
  <2> SUFFICES ASSUME call.name = "syncDMACopy" PROVE SyncCopyKnown'
    BY <1>3 DEF SyncCopyKnown
  <2>1. PICK dst \in Buffer : \E src \in Buffer \ {dst} : SyncCopyProgress(dst, src, left)
    BY DEF IInv, SyncCopyKnown, left
  <2>2. PICK src \in Buffer \ {dst} : SyncCopyProgress(dst, src, left)
    BY <2>1
  <2> DEFINE c == (Chunks + 2) - left + 1
  <2>3. syncDMACopy(dst, src) \in Seq(Ioctl) /\ Len(syncDMACopy(dst, src)) = Chunks + 2
    BY SyncCopySteps
  <2>4. /\ Follows(syncDMACopy(dst, src))'
        /\ left \in 1 .. Chunks + 2
        /\ Head(call.todo) = syncDMACopy(dst, src)[c]
    BY <1>1, <1>3, <2>2, <2>3, FollowsOn DEF SyncCopyProgress, left
  <2>5. left > 2 /\ c \in Chunk /\ job = Copy("compute", dst, src, c)
    BY <1>1, <2>4, SyncCopyIoctl DEF job
  <2>6. ASSUME "submit" \notin call.failed, watched + (left - 1) <= Chunks + 2
        PROVE  meant'[dst] = meant'[src]
    <3>1. job.to = dst /\ job.from = src /\ job.chunks = {c}
      BY <2>5 DEF Copy
    <3>2. CASE watched = c
      <4>1. meant'[dst] = meant[src] /\ meant'[src] = meant[src]
        BY <1>1, <1>5, <3>1, <3>2 DEF Effect
      <4> QED
        BY <4>1
    <3>3. CASE watched # c
      <4>1. watched + left <= Chunks + 2
        BY <1>4, <1>5, <2>4, <2>6, <3>3
      <4>2. meant[dst] = meant[src]
        BY <4>1, <2>2, <2>6 DEF SyncCopyProgress
      <4>3. meant' = meant
        BY <1>1, <3>1, <3>3 DEF Effect
      <4> QED
        BY <4>2, <4>3
    <3> QED
      BY <3>2, <3>3
  <2>7. ~(left - 1 <= 1) /\ left - 1 # 0
    BY <1>4, <2>5
  <2>8. SyncCopyProgress(dst, src, Len(call.todo))'
    BY <1>1, <1>3, <1>4, <2>2, <2>4, <2>6, <2>7 DEF SyncCopyProgress
  <2> QED
    BY <2>8 DEF SyncCopyKnown
<1>9. WaitBufferKnown'
  <2> SUFFICES ASSUME call.name = "waitBuffer" PROVE WaitBufferKnown'
    BY <1>3 DEF WaitBufferKnown
  <2>1. PICK b \in Buffer : WaitBufferProgress(b, left)
    BY DEF IInv, WaitBufferKnown, left
  <2>2. /\ waitBuffer(b) \in Seq(Ioctl) /\ Len(waitBuffer(b)) = 3
        /\ waitBuffer(b)[1] = Wait(b) /\ waitBuffer(b)[2] = Submit(Flush(b)) /\ waitBuffer(b)[3] = Wait(b)
    BY WaitBufferSteps
  <2>3. /\ Follows(waitBuffer(b))'
        /\ left \in 1 .. 3
        /\ Head(call.todo) = waitBuffer(b)[3 - left + 1]
    BY <1>1, <1>3, <2>1, <2>2, FollowsOn DEF WaitBufferProgress, left
  <2>4. left = 2 /\ job = Flush(b)
    <3>1. left = 1 \/ left = 2 \/ left = 3
      BY <2>3
    <3>2. Wait(b)[1] # "submit" /\ Submit(Flush(b))[2] = Flush(b)
      BY DEF Wait, Submit
    <3> QED
      BY <1>1, <2>2, <2>3, <3>1, <3>2 DEF job
  <2>5. pending'[Len(pending')] = Flush(b)
    BY <1>1, <1>2, <1>5, <2>4, AppendProperties
  <2>6. WaitBufferProgress(b, Len(call.todo))'
    BY <1>4, <2>3, <2>4, <2>5 DEF WaitBufferProgress, Flush, compute_create_reloc_table
  <2> QED
    BY <2>6 DEF WaitBufferKnown
<1> QED
  BY <1>6, <1>7, <1>8, <1>9 DEF IInv

\* The ioctl that is issued is rejected, or waits for an operand that is idle,
\* or is a wait that fails.
Issues(failure) ==
  /\ call.todo # <<>>
  /\ call' = Done(failure)
  /\ UNCHANGED <<pending, watched, mem, meant>>
  /\ \/ Head(call.todo)[1] = "submit" /\ failure = {"submit"}
     \/ Head(call.todo)[1] = "wait" /\ failure = {"wait"}
     \/ Head(call.todo)[1] = "wait" /\ failure = {} /\ ~Busy(Head(call.todo)[2])

\* An ioctl that queues nothing takes one step off the call and notes its failure.
LEMMA IssuingKeepsInvariant ==
  ASSUME IInv, NEW failure, Issues(failure)
  PROVE  IInv'
<1> DEFINE left == Len(call.todo)
<1>1. /\ Types /\ call.todo # <<>> /\ call' = Done(failure)
      /\ pending' = pending /\ watched' = watched /\ mem' = mem /\ meant' = meant
      /\ failure \in SUBSET {"submit", "wait"}
  BY DEF IInv, Issues
<1>2. /\ Head(call.todo)[1] = "submit" => failure = {"submit"}
      /\ "wait" \notin failure /\ Head(call.todo)[1] = "wait" => ~Busy(Head(call.todo)[2])
      /\ failure = {} => Head(call.todo)[1] = "wait" /\ ~Busy(Head(call.todo)[2])
      /\ "submit" \notin failure => Head(call.todo)[1] = "wait"
  BY DEF Issues
<1>3. /\ call' \in [name : Name, bufs : Seq(Buffer), todo : Seq(Ioctl), failed : SUBSET {"submit", "wait"}]
      /\ call'.name = call.name /\ call'.bufs = call.bufs /\ call'.failed = call.failed \cup failure
      /\ call'.todo = Tail(call.todo)
  BY <1>1, DoneProperties
<1>4. left \in Nat \ {0} /\ Len(call'.todo) = left - 1
  BY <1>1, <1>3, NextIoctl
<1> HIDE DEF left
<1>5. pending \in Seq(Job) /\ watched \in 1 .. Chunks /\ Chunks \in Nat \ {0}
  BY <1>1, ChunksAssumption DEF Types, Chunk
<1>6. \A b : Busy(b)' <=> Busy(b)
  BY <1>1 DEF Busy
<1>7. Types' /\ PendingLeadsToMeant'
  BY <1>1, <1>3 DEF IInv, Types, PendingLeadsToMeant, IsReplay, Effect
<1>8. SyncCopyKnown'
  <2> SUFFICES ASSUME call.name = "syncDMACopy" PROVE SyncCopyKnown'
    BY <1>3 DEF SyncCopyKnown
  <2>1. PICK dst \in Buffer : \E src \in Buffer \ {dst} : SyncCopyProgress(dst, src, left)
    BY DEF IInv, SyncCopyKnown, left
  <2>2. PICK src \in Buffer \ {dst} : SyncCopyProgress(dst, src, left)
    BY <2>1
  <2>3. syncDMACopy(dst, src) \in Seq(Ioctl) /\ Len(syncDMACopy(dst, src)) = Chunks + 2
    BY SyncCopySteps
  <2>4. /\ Follows(syncDMACopy(dst, src))'
        /\ left \in 1 .. Chunks + 2
        /\ Head(call.todo) = syncDMACopy(dst, src)[(Chunks + 2) - left + 1]
    BY <1>1, <1>3, <2>2, <2>3, FollowsOn DEF SyncCopyProgress, left
  <2>5. /\ Head(call.todo)[1] = "wait" => left <= 2
        /\ left = 2 => Head(call.todo) = Wait(dst)
        /\ left = 1 => Head(call.todo) = Wait(src)
    BY <2>4, SyncCopyIoctl
  <2>6. \A b : Wait(b)[1] = "wait" /\ Wait(b)[2] = b
    BY DEF Wait
  <2>7. left <= 1 \/ left = 2 \/ left > 2
    BY <1>4
  <2>8. "wait" \notin call'.failed /\ left - 1 <= 1 => ~Busy(dst)'
    <3>1. left - 1 <= 1 => left <= 1 \/ left = 2
      BY <1>4
    <3> QED
      BY <1>2, <1>3, <1>6, <2>2, <2>5, <2>6, <3>1 DEF SyncCopyProgress
  <2>9. "wait" \notin call'.failed /\ left - 1 = 0 => ~Busy(src)'
    <3>1. left - 1 = 0 => left = 1
      BY <1>4
    <3> QED
      BY <1>2, <1>3, <1>6, <2>5, <2>6, <3>1
  <2>10. "submit" \notin call'.failed => meant'[dst] = meant'[src]
    <3> SUFFICES ASSUME "submit" \notin call'.failed PROVE meant[dst] = meant[src]
      BY <1>1
    <3>1. left <= 2 /\ "submit" \notin call.failed
      BY <1>2, <1>3, <2>5
    <3>2. watched + left <= Chunks + 2
      BY <1>4, <1>5, <3>1
    <3> QED
      BY <2>2, <3>1, <3>2 DEF SyncCopyProgress
  <2>11. SyncCopyProgress(dst, src, Len(call.todo))'
    BY <1>3, <1>4, <2>2, <2>4, <2>8, <2>9, <2>10 DEF SyncCopyProgress
  <2> QED
    BY <2>11 DEF SyncCopyKnown
<1>9. WaitBufferKnown'
  <2> SUFFICES ASSUME call.name = "waitBuffer" PROVE WaitBufferKnown'
    BY <1>3 DEF WaitBufferKnown
  <2>1. PICK b \in Buffer : WaitBufferProgress(b, left)
    BY DEF IInv, WaitBufferKnown, left
  <2>2. /\ waitBuffer(b) \in Seq(Ioctl) /\ Len(waitBuffer(b)) = 3
        /\ waitBuffer(b)[1] = Wait(b) /\ waitBuffer(b)[2] = Submit(Flush(b)) /\ waitBuffer(b)[3] = Wait(b)
    BY WaitBufferSteps
  <2>3. /\ Follows(waitBuffer(b))'
        /\ left \in 1 .. 3
        /\ Head(call.todo) = waitBuffer(b)[3 - left + 1]
    BY <1>1, <1>3, <2>1, <2>2, FollowsOn DEF WaitBufferProgress, left
  <2>4. /\ left = 2 => Head(call.todo)[1] # "wait"
        /\ left = 1 => Head(call.todo)[2] = b
    <3>1. (left = 2 => 3 - left + 1 = 2) /\ (left = 1 => 3 - left + 1 = 3)
      BY <2>3
    <3>2. Submit(Flush(b))[1] # "wait" /\ Wait(b)[2] = b
      BY DEF Wait, Submit
    <3> QED
      BY <2>2, <2>3, <3>1, <3>2
  <2>5. ~(call'.failed = {} /\ left - 1 = 1)
    <3>1. left - 1 = 1 => left = 2
      BY <1>4
    <3> QED
      BY <1>2, <1>3, <2>4, <3>1
  <2>6. call'.failed = {} /\ left - 1 = 0 => pending' = <<>>
    <3> SUFFICES ASSUME call'.failed = {}, left - 1 = 0 PROVE pending = <<>>
      BY <1>1
    <3>1. left = 1 /\ call.failed = {} /\ failure = {}
      BY <1>3, <1>4
    <3>2. ~Busy(b)
      BY <1>2, <2>4, <3>1
    <3>3. SUFFICES ASSUME pending[Len(pending)] = Flush(b), pending # <<>> PROVE FALSE
      BY <2>1, <3>1 DEF WaitBufferProgress
    <3>4. Len(pending) \in DOMAIN pending
      BY <1>5, <3>3, LenProperties, EmptySeq
    <3> QED
      BY <3>2, <3>3, <3>4 DEF Busy, Flush, compute_create_reloc_table
  <2>7. WaitBufferProgress(b, Len(call.todo))'
    BY <1>4, <2>3, <2>5, <2>6 DEF WaitBufferProgress, Flush, compute_create_reloc_table
  <2> QED
    BY <2>7 DEF WaitBufferKnown
<1> QED
  BY <1>7, <1>8, <1>9 DEF IInv

\* The steps of the library other than an accepted submission keep the invariant.
LEMMA LibraryKeepsInvariant ==
  ASSUME IInv, Reject \/ WaitIdle \/ WaitFails
  PROVE  IInv'
<1>1. CASE Reject
  <2>1. Issues({"submit"})
    BY <1>1 DEF Reject, NextIs, Issues
  <2> QED
    BY <2>1, IssuingKeepsInvariant
<1>2. CASE WaitIdle
  <2>1. Issues({})
    BY <1>2 DEF WaitIdle, NextIs, Operand, Issues
  <2> QED
    BY <2>1, IssuingKeepsInvariant
<1>3. CASE WaitFails
  <2>1. Issues({"wait"})
    BY <1>3 DEF WaitFails, NextIs, Issues
  <2> QED
    BY <2>1, IssuingKeepsInvariant
<1> QED
  BY <1>1, <1>2, <1>3

\* A submission that finishes makes no buffer busy, and the flush stays the last
\* one or, since it names every buffer, has outlived all the others.
LEMMA FinishKeepsInvariant ==
  ASSUME IInv, Finish
  PROVE  IInv'
<1>1. PICK k \in DOMAIN pending :
        /\ MayFinish(k)
        /\ mem' = Effect(mem, pending[k])
        /\ pending' = Without(pending, k)
  BY DEF Finish, Without
<1>2. watched' = watched /\ meant' = meant /\ call' = call /\ Types
  BY DEF Finish, IInv
<1>3. /\ pending \in Seq(Job) /\ mem \in [Buffer -> Contents] /\ meant \in [Buffer -> Contents]
      /\ k \in 1 .. Len(pending) /\ Len(pending) \in Nat /\ pending[k] \in Job
  BY <1>1, <1>2, LenProperties, ElementOfSeq DEF Types
<1>4. /\ pending' \in Seq(Job) /\ Len(pending') = Len(pending) - 1
      /\ \A i \in 1 .. Len(pending) - 1 : pending'[i] = IF i < k THEN pending[i] ELSE pending[i + 1]
  BY <1>1, <1>3, WithoutProperties
<1>5. Types'
  BY <1>1, <1>2, <1>3, <1>4, EffectProperties DEF Types
<1>6. \A j \in 1 .. k - 1 : pending[j].names \cap pending[k].names = {}
  BY <1>1 DEF MayFinish
<1>7. PendingLeadsToMeant'
  <2>1. PICK h \in [0 .. Len(pending) -> [Buffer -> Contents]] :
          IsReplay(h, pending) /\ h[0] = mem /\ h[Len(pending)] = meant
    BY DEF IInv, PendingLeadsToMeant
  <2>2. PICK g \in [0 .. Len(pending) - 1 -> [Buffer -> Contents]] :
          /\ IsReplay(g, Without(pending, k))
          /\ g[0] = Effect(h[0], pending[k])
          /\ g[Len(pending) - 1] = h[Len(pending)]
    BY <1>3, <1>6, <2>1, FinishingShortens
  <2>3. IsReplay(g, pending)'
    BY <1>1, <1>2, <2>2 DEF IsReplay, Effect
  <2> QED
    BY <1>1, <1>2, <1>4, <2>1, <2>2, <2>3 DEF PendingLeadsToMeant
<1>8. \A b \in Buffer : ~Busy(b) => ~Busy(b)'
  <2> SUFFICES ASSUME NEW b \in Buffer, Busy(b)' PROVE Busy(b)
    OBVIOUS
  <2>1. PICK i \in DOMAIN pending' : b \in pending'[i].names
    BY DEF Busy
  <2>2. i \in 1 .. Len(pending) - 1
    BY <1>4, <2>1, LenProperties
  <2>3. i \in 1 .. Len(pending) /\ i + 1 \in 1 .. Len(pending)
    BY <1>3, <2>2
  <2>4. DOMAIN pending = 1 .. Len(pending)
    BY <1>3, LenProperties
  <2> QED
    BY <1>4, <2>1, <2>2, <2>3, <2>4 DEF Busy
<1>9. SyncCopyKnown'
  <2> SUFFICES ASSUME call.name = "syncDMACopy" PROVE SyncCopyKnown'
    BY <1>2 DEF SyncCopyKnown
  <2>1. PICK dst \in Buffer : \E src \in Buffer \ {dst} : SyncCopyProgress(dst, src, Len(call.todo))
    BY DEF IInv, SyncCopyKnown
  <2>2. PICK src \in Buffer \ {dst} : SyncCopyProgress(dst, src, Len(call.todo))
    BY <2>1
  <2>3. SyncCopyProgress(dst, src, Len(call.todo))'
    BY <1>2, <1>8, <2>2 DEF SyncCopyProgress, Follows
  <2> QED
    BY <2>3 DEF SyncCopyKnown
<1>10. WaitBufferKnown'
  <2> SUFFICES ASSUME call.name = "waitBuffer" PROVE WaitBufferKnown'
    BY <1>2 DEF WaitBufferKnown
  <2>1. PICK b \in Buffer : WaitBufferProgress(b, Len(call.todo))
    BY DEF IInv, WaitBufferKnown
  <2>2. pending # <<>>
    BY <1>1
  <2>3. pending[Len(pending)] = Flush(b) => pending' = <<>> \/ pending'[Len(pending')] = Flush(b)
    <3> SUFFICES ASSUME pending[Len(pending)] = Flush(b), pending' # <<>>
                 PROVE  pending'[Len(pending')] = Flush(b)
      OBVIOUS
    <3>1. Len(pending) - 1 \in Nat \ {0}
      BY <1>4, EmptySeq, LenProperties
    <3>2. k # Len(pending)
      <4> SUFFICES ASSUME k = Len(pending) PROVE FALSE
        OBVIOUS
      <4>1. 1 \in 1 .. k - 1 /\ 1 \in 1 .. Len(pending)
        BY <1>3, <3>1
      <4>2. pending[1] \in Job
        BY <1>3, <4>1, ElementOfSeq
      <4>3. pending[k].names = Buffer
        BY DEF Flush, compute_create_reloc_table
      <4> QED
        BY <1>6, <4>1, <4>2, <4>3 DEF Job
    <3>3. Len(pending) - 1 \in 1 .. Len(pending) - 1 /\ ~(Len(pending) - 1 < k) /\ Len(pending) - 1 + 1 = Len(pending)
      BY <1>3, <3>1, <3>2
    <3> QED
      BY <1>4, <3>3
  <2>4. WaitBufferProgress(b, Len(call.todo))'
    BY <1>2, <2>1, <2>2, <2>3 DEF WaitBufferProgress, Follows, Flush, compute_create_reloc_table
  <2> QED
    BY <2>4 DEF WaitBufferKnown
<1> QED
  BY <1>5, <1>7, <1>9, <1>10 DEF IInv

-----------------------------------------------------------------------------
(* Theorems.                                                               *)

\* What is in flight always leads to what the calls meant, and the two functions
\* that wait keep to their steps.
THEOREM Invariance == Spec => []IInv
<1>1. ASSUME IInv, [Next]_vars PROVE IInv'
  <2>1. CASE UNCHANGED vars
    <3>1. pending' = pending /\ watched' = watched /\ mem' = mem /\ meant' = meant /\ call' = call
      BY <2>1 DEF vars
    <3>2. Types' /\ PendingLeadsToMeant'
      BY <1>1, <3>1 DEF IInv, Types, PendingLeadsToMeant, IsReplay, Effect
    <3>3. SyncCopyKnown'
      BY <1>1, <3>1, ZenonT(40) DEF IInv, SyncCopyKnown, SyncCopyProgress, Follows, Busy
    <3>4. WaitBufferKnown'
      BY <1>1, <3>1 DEF IInv, WaitBufferKnown, WaitBufferProgress, Follows
    <3> QED
      BY <3>2, <3>3, <3>4 DEF IInv
  <2> QED
    BY <1>1, <2>1, CallKeepsInvariant, AcceptKeepsInvariant, LibraryKeepsInvariant, FinishKeepsInvariant
       DEF Next, Library
<1> QED
  BY <1>1, InitEstablishes, PTL DEF Spec

\* The state is always well formed: every submission in flight names the
\* buffers of its job, and a call names only buffers of the context.
THEOREM TypeCorrect == Spec => []Types
<1>1. IInv => Types
  BY DEF IInv
<1> QED
  BY <1>1, Invariance, PTL

\* A buffer the GPU is not using holds what the submissions would have left in
\* it one after the other, whatever the two rings did: no copy or launch
\* overtakes another one that it depends on.
THEOREM IdleSequential == Spec => []IdleIsSequential
<1>1. ASSUME IInv, NEW b \in Buffer, ~Busy(b) PROVE mem[b] = meant[b]
  <2>1. pending \in Seq(Job) /\ Len(pending) \in Nat /\ DOMAIN pending = 1 .. Len(pending)
    BY <1>1, LenProperties DEF IInv, Types
  <2>2. PICK h \in [0 .. Len(pending) -> [Buffer -> Contents]] :
          IsReplay(h, pending) /\ h[0] = mem /\ h[Len(pending)] = meant
    BY <1>1 DEF IInv, PendingLeadsToMeant
  <2>3. \A k \in 0 + 1 .. Len(pending) : b \notin pending[k].names
    BY <1>1, <2>1 DEF Busy
  <2>4. 0 \in 0 .. Len(pending) /\ Len(pending) \in 0 .. Len(pending)
    BY <2>1
  <2>5. h[0][b] = h[Len(pending)][b]
    BY <2>1, <2>2, <2>3, <2>4, UnnamedIsUnchanged
  <2> QED
    BY <2>2, <2>5
<1>2. IInv => IdleIsSequential
  BY <1>1 DEF IdleIsSequential
<1> QED
  BY <1>2, Invariance, PTL

\* After syncDMACopy without a failed wait the GPU uses neither buffer, so that
\* the application may free or overwrite both, rejected chunks or not.
THEOREM SyncCopyIdle == Spec => []SyncCopyLeavesIdle
<1>1. ASSUME IInv, call.name = "syncDMACopy", call.todo = <<>>, "wait" \notin call.failed
      PROVE  \A i \in DOMAIN call.bufs : ~Busy(call.bufs[i])
  <2>1. PICK dst \in Buffer : \E src \in Buffer \ {dst} : SyncCopyProgress(dst, src, Len(call.todo))
    BY <1>1 DEF IInv, SyncCopyKnown
  <2>2. PICK src \in Buffer \ {dst} : SyncCopyProgress(dst, src, Len(call.todo))
    BY <2>1
  <2>3. Len(call.todo) = 0
    BY <1>1
  <2>4. call.bufs = <<dst, src>> /\ ~Busy(dst) /\ ~Busy(src)
    BY <1>1, <2>2, <2>3 DEF SyncCopyProgress
  <2> QED
    BY <2>4
<1>2. IInv => SyncCopyLeavesIdle
  BY <1>1 DEF SyncCopyLeavesIdle
<1> QED
  BY <1>2, Invariance, PTL

\* After syncDMACopy without a failure the destination holds the source, for
\* every chunk.
THEOREM SyncCopyComplete == Spec => []SyncCopyIsComplete
<1>1. ASSUME IInv, IdleIsSequential, Succeeded("syncDMACopy")
      PROVE  mem[call.bufs[1]] = mem[call.bufs[2]]
  <2>1. call.name = "syncDMACopy" /\ call.todo = <<>> /\ call.failed = {}
    BY <1>1 DEF Succeeded
  <2>2. PICK dst \in Buffer : \E src \in Buffer \ {dst} : SyncCopyProgress(dst, src, Len(call.todo))
    BY <1>1, <2>1 DEF IInv, SyncCopyKnown
  <2>3. PICK src \in Buffer \ {dst} : SyncCopyProgress(dst, src, Len(call.todo))
    BY <2>2
  <2>4. Len(call.todo) = 0 /\ watched + 0 <= Chunks + 2
    <3>1. watched \in 1 .. Chunks /\ Chunks \in Nat
      BY <1>1, ChunksAssumption DEF IInv, Types, Chunk
    <3>2. Len(call.todo) = 0
      BY <2>1
    <3> QED
      BY <3>1, <3>2
  <2>5. call.bufs = <<dst, src>> /\ ~Busy(dst) /\ ~Busy(src) /\ meant[dst] = meant[src]
    BY <2>1, <2>3, <2>4 DEF SyncCopyProgress
  <2> QED
    BY <1>1, <2>5 DEF IdleIsSequential
<1>2. IInv /\ IdleIsSequential => SyncCopyIsComplete
  BY <1>1 DEF SyncCopyIsComplete
<1> QED
  BY <1>2, Invariance, IdleSequential, PTL

\* waitBuffer is a barrier: when it returns without a failure nothing is in
\* flight on either ring.
THEOREM WaitBufferBarrier == Spec => []WaitBufferIsBarrier
<1>1. ASSUME IInv, Succeeded("waitBuffer") PROVE pending = <<>>
  <2>1. call.name = "waitBuffer" /\ call.failed = {} /\ Len(call.todo) = 0
    BY <1>1 DEF Succeeded
  <2>2. PICK b \in Buffer : WaitBufferProgress(b, Len(call.todo))
    BY <1>1, <2>1 DEF IInv, WaitBufferKnown
  <2> QED
    BY <2>1, <2>2 DEF WaitBufferProgress
<1>2. IInv => WaitBufferIsBarrier
  BY <1>1 DEF WaitBufferIsBarrier
<1> QED
  BY <1>2, Invariance, PTL
=============================================================================
