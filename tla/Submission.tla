----------------------------- MODULE Submission -----------------------------
(***************************************************************************)
(* Work for the GPU: the DMA, cache flush and dispatch submissions of      *)
(* computesi.c, the waits, and the functions of ComputeInterface that      *)
(* combine them.                                                           *)
(*                                                                         *)
(* A function of the library is the sequence of the ioctls it issues; the  *)
(* variable call holds those that are left.  Between two of them the GPU   *)
(* goes on.  All fragments of a buffer are named together by               *)
(* compute_push_reloc and waited for together by compute_bo_wait, so that  *)
(* a buffer stands for its fragments here.  A submission moves chunks to   *)
(* the same place of another buffer, so contents are kept for one chunk,   *)
(* which is chosen at the start.                                           *)
(***************************************************************************)
EXTENDS Integers, Sequences

CONSTANTS
  Buffer,      \* the buffers of the context
  Contents,    \* what a chunk may hold
  Chunks,      \* a copy of a whole buffer is cut into Chunks submissions
  MaxPending   \* bound on the submissions that are in flight

ASSUME ChunksAssumption     == Chunks \in Nat \ {0}
ASSUME MaxPendingAssumption == MaxPending \in Nat

VARIABLES
  pending,  \* accepted submissions that are not finished, oldest first
  watched,  \* the chunk whose contents are kept
  mem,      \* its contents in each buffer
  meant,    \* its contents if each submission had been executed at once
  call      \* the library function: name, buffers, ioctls left, which failed

vars == <<pending, watched, mem, meant, call>>

Chunk == 1 .. Chunks

-----------------------------------------------------------------------------
(* Submissions.  names is the relocation list; the job moves chunks of the *)
(* buffer from to the buffer to.                                           *)

\* One relocation for each fragment of b.
compute_push_reloc(names, b) == names \cup {b}

\* A walk through the pool, whose nodes are the buffers of the context.
compute_create_reloc_table == Buffer

\* Fault: the destination is not pushed to the relocation list.
CopyNamingSourceOnly(ring, to, from, c) ==
  [names |-> {from}, ring |-> ring, to |-> to, from |-> from, chunks |-> {c}]

\* compute_send_sync_dma_req and compute_send_async_dma_req.
Copy(ring, to, from, c) ==
  [names |-> compute_push_reloc(compute_push_reloc({}, from), to), ring |-> ring,
   to |-> to, from |-> from, chunks |-> {c}]

\* A dispatch that writes all of out, as the program in code says.
Dispatch(code, out, usedMemories) ==
  [names |-> usedMemories, ring |-> "compute", to |-> out, from |-> code, chunks |-> Chunk]

\* Fault: only the buffer that is waited for is named.
FlushNaming(b) ==
  [names |-> {b}, ring |-> "compute", to |-> b, from |-> b, chunks |-> {}]

\* compute_flush_caches moves nothing and names every buffer of the pool.
Flush(b) ==
  [names |-> compute_create_reloc_table, ring |-> "compute", to |-> b, from |-> b, chunks |-> {}]

\* An ioctl and its operand.
Submit(job) == <<"submit", job>>
Wait(b) == <<"wait", b>>

-----------------------------------------------------------------------------
(* The library's functions.                                                *)

\* Fault: only the destination is waited for.
SyncWaitingForTarget(dst, src) ==
  [c \in Chunk |-> Submit(Copy("compute", dst, src, c))] \o <<Wait(dst)>>

\* Fault: the loop stops one chunk early.
SyncStoppingEarly(dst, src) ==
  [c \in 1 .. Chunks - 1 |-> Submit(Copy("compute", dst, src, c))] \o <<Wait(dst), Wait(src)>>

\* The last chunk carries the flag that makes the request wait, first for the
\* destination, and the waits follow whatever the submission returned.
syncDMACopy(dst, src) ==
  [c \in Chunk |-> Submit(Copy("compute", dst, src, c))] \o <<Wait(dst), Wait(src)>>

asyncDMACopy(dst, src) == [c \in Chunk |-> Submit(Copy("dma", dst, src, c))]

asyncDMAFence(b) == <<Wait(b)>>

launch(code, out, usedMemories) == <<Submit(Dispatch(code, out, usedMemories))>>

waitBuffer(b) == <<Wait(b), Submit(Flush(b)), Wait(b)>>

Call(name, bufs, steps) ==
  /\ call.todo = <<>>
  /\ Len(pending) + Len(SelectSeq(steps, LAMBDA s : s[1] = "submit")) <= MaxPending
  /\ call' = [name |-> name, bufs |-> bufs, todo |-> steps, failed |-> {}]
  /\ UNCHANGED <<pending, watched, mem, meant>>

NextIs(ioctl) == call.todo # <<>> /\ Head(call.todo)[1] = ioctl
Operand == Head(call.todo)[2]

Done(failure) == [call EXCEPT !.todo = Tail(@), !.failed = @ \cup failure]

Effect(m, job) ==
  IF watched \in job.chunks THEN [m EXCEPT ![job.to] = m[job.from]] ELSE m

\* The kernel queues the submission.
Accept ==
  /\ NextIs("submit")
  /\ pending' = Append(pending, Operand)
  /\ meant' = Effect(meant, Operand)
  /\ call' = Done({})
  /\ UNCHANGED <<watched, mem>>

\* The ioctl returns an error, which the library ignores but in launch.
Reject ==
  /\ NextIs("submit")
  /\ call' = Done({"submit"})
  /\ UNCHANGED <<pending, watched, mem, meant>>

Busy(b) == \E k \in DOMAIN pending : b \in pending[k].names

\* Fault: the loop goes on while the buffer is idle.
WaitUntilBusy ==
  /\ NextIs("wait")
  /\ Busy(Operand)
  /\ call' = Done({})
  /\ UNCHANGED <<pending, watched, mem, meant>>

\* GEM_WAIT_IDLE is retried until the buffer is not busy.
WaitIdle ==
  /\ NextIs("wait")
  /\ ~Busy(Operand)
  /\ call' = Done({})
  /\ UNCHANGED <<pending, watched, mem, meant>>

\* It returns another error; nobody looks at it.
WaitFails ==
  /\ NextIs("wait")
  /\ call' = Done({"wait"})
  /\ UNCHANGED <<pending, watched, mem, meant>>

-----------------------------------------------------------------------------
(* The kernel and the GPU: a ring executes in order, and a submission waits *)
(* for the earlier ones that name one of its buffers.                      *)

MayFinish(k) ==
  \A j \in 1 .. k - 1 :
    pending[j].ring # pending[k].ring /\ pending[j].names \cap pending[k].names = {}

Finish ==
  /\ \E k \in DOMAIN pending :
       /\ MayFinish(k)
       /\ mem' = Effect(mem, pending[k])
       /\ pending' = SubSeq(pending, 1, k - 1) \o SubSeq(pending, k + 1, Len(pending))
  /\ UNCHANGED <<watched, meant, call>>

-----------------------------------------------------------------------------

Returned == [name |-> "none", bufs |-> <<>>, todo |-> <<>>, failed |-> {}]

Init ==
  /\ pending = <<>>
  /\ watched \in Chunk
  /\ mem \in [Buffer -> Contents]
  /\ meant = mem
  /\ call = Returned

\* The application's calls; it names what its programs touch.
Application ==
  \/ \E dst \in Buffer : \E src \in Buffer \ {dst} :
       \/ Call("syncDMACopy", <<dst, src>>, syncDMACopy(dst, src))
       \/ Call("asyncDMACopy", <<dst, src>>, asyncDMACopy(dst, src))
       \/ Call("launch", <<dst, src>>, launch(src, dst, {dst, src}))
  \/ \E b \in Buffer :
       \/ Call("asyncDMAFence", <<b>>, asyncDMAFence(b))
       \/ Call("waitBuffer", <<b>>, waitBuffer(b))

Library == Accept \/ Reject \/ WaitIdle \/ WaitFails

Next == Application \/ Library \/ Finish

\* A function that runs goes on as soon as it can, and the GPU finishes what it
\* can finish.
Spec == Init /\ [][Next]_vars /\ WF_vars(Accept \/ WaitIdle) /\ WF_vars(Finish)

-----------------------------------------------------------------------------
(* Properties.                                                             *)

Succeeded(name) == call.name = name /\ call.todo = <<>> /\ call.failed = {}

\* A buffer that is not busy holds what the submissions, executed one after the
\* other in the order of the calls, would have left there, although two rings
\* execute them: the relocation lists carry every dependence.
IdleIsSequential == \A b \in Buffer : ~Busy(b) => mem[b] = meant[b]

\* When syncDMACopy returns without a failed wait, the GPU uses neither buffer
\* any more, even if chunks were rejected: both may be freed or overwritten.
SyncCopyLeavesIdle ==
  call.name = "syncDMACopy" /\ call.todo = <<>> /\ "wait" \notin call.failed =>
    \A i \in DOMAIN call.bufs : ~Busy(call.bufs[i])

\* When it returns and nothing failed, every chunk has been copied.
SyncCopyIsComplete ==
  Succeeded("syncDMACopy") => mem[call.bufs[1]] = mem[call.bufs[2]]

\* waitBuffer is a barrier for the whole context: its flush names every buffer,
\* so that waiting for it waits for all earlier work on both rings.
WaitBufferIsBarrier == Succeeded("waitBuffer") => pending = <<>>

\* No function waits for ever, whatever is queued on the two rings.
CallsReturn == call.todo # <<>> ~> call.todo = <<>>
=============================================================================
