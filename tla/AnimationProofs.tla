-------------------------- MODULE AnimationProofs --------------------------
(***************************************************************************)
(* What the waits of animationZoom guarantee for every number of frames,   *)
(* however the GPU, the kernel and the copy to the screen take turns.      *)
(***************************************************************************)
EXTENDS Animation, TLAPS

Buffers == {"program_code", "data1", "data2"}

\* The job of the launch for frame n.
FrameJob(n) == GPU!Dispatch("program_code", DataCur(n), {"program_code", DataCur(n)})

\* What that job does to the contents of the buffers.
Drawn(n, m) == [m EXCEPT ![DataCur(n)] = m["program_code"]]

-----------------------------------------------------------------------------
(* The inductive invariant.                                                *)

\* No wait has failed so far, so that the order of the turns is the program's.
Orderly == "wait" \notin faults /\ (at = "waiting" => "wait" \notin call.failed)

Idle == pending = <<>> /\ mem = meant

AtWork == Idle \/ (pending = <<FrameJob(i)>> /\ meant = Drawn(i, mem))

Flushing == mem = meant /\ pending \in {<<>>, <<GPU!Flush("program_code")>>}

Types ==
  /\ watched = 1
  /\ mem \in [Buffers -> Int]
  /\ meant \in [Buffers -> Int]

LaunchIssued == call.todo = <<GPU!Submit(FrameJob(i))>> /\ call.failed = {} /\ Idle

\* What is in flight, by the place reached and the ioctls that are left.
InFlight ==
  /\ at \in {"transfer", "launch", "freed"} => call.todo = <<>> /\ Idle
  /\ at = "launching" => LaunchIssued \/ (call.todo = <<>> /\ call.failed \subseteq {"submit"} /\ AtWork)
  /\ at \in {"show", "wait", "terminated"} => call.todo = <<>> /\ AtWork
  /\ at = "waiting" =>
       \/ call.todo = GPU!waitBuffer("program_code") /\ AtWork
       \/ call.todo = Tail(GPU!waitBuffer("program_code")) /\ Idle
       \/ call.todo = <<GPU!Wait("program_code")>> /\ Flushing
       \/ call.todo = <<>> /\ Idle

\* What the buffers hold when no transfer has failed either: the program of the
\* frame, the frame once it is launched, and beside it the frame before.
Pictures ==
  /\ at \in {"launch", "launching", "show", "wait", "waiting"} => mem["program_code"] = i
  /\ at \in {"show", "wait", "waiting"} => meant[DataCur(i)] = i
  /\ at = "launching" /\ call.todo = <<>> /\ call.failed = {} => meant[DataCur(i)] = i
  /\ i > 0 /\ at \in {"transfer", "launch", "launching", "show"} => mem[DataOther(i)] = i - 1

Turn ==
  /\ i \in Nat
  /\ at \in {"transfer", "launch", "launching", "show", "wait", "waiting", "freed", "terminated"}
  /\ at = "show" => i > 0
  /\ call = [name |-> call.name, bufs |-> call.bufs, todo |-> call.todo, failed |-> call.failed]

TurnInv == Turn /\ (Orderly => Types /\ InFlight /\ (faults = {} => Pictures))

-----------------------------------------------------------------------------
(* Lemmas.                                                                 *)

\* The two data buffers change places from frame to frame.
LEMMA TwoBuffers ==
  ASSUME NEW n \in Nat
  PROVE  /\ DataCur(n) \in Buffers /\ DataOther(n) \in Buffers
         /\ DataCur(n) # "program_code" /\ DataOther(n) # "program_code"
         /\ DataOther(n) # DataCur(n)
         /\ DataOther(n + 1) = DataCur(n)
<1>1. n % 2 \in {0, 1} /\ (n + 1) % 2 = 1 - (n % 2)
  OBVIOUS
<1> QED
  BY <1>1 DEF DataCur, DataOther, Buffers

\* A dispatch draws the frame, a flush changes nothing.
LEMMA Effects ==
  ASSUME watched = 1, NEW n, NEW m
  PROVE  /\ GPU!Effect(m, FrameJob(n)) = Drawn(n, m)
         /\ GPU!Effect(m, GPU!Flush("program_code")) = m
BY DEF GPU!Effect, GPU!Dispatch, GPU!Flush, GPU!Chunk, FrameJob, Drawn

\* A drawn frame is the program's; the other contents stay.
LEMMA DrawnContents ==
  ASSUME NEW n \in Nat, NEW m \in [Buffers -> Int]
  PROVE  /\ Drawn(n, m) \in [Buffers -> Int]
         /\ Drawn(n, m)["program_code"] = m["program_code"]
         /\ Drawn(n, m)[DataCur(n)] = m["program_code"]
         /\ Drawn(n, m)[DataOther(n)] = m[DataOther(n)]
BY TwoBuffers DEF Drawn, Buffers

\* What the library and the GPU find at the head of the two queues.
LEMMA Queues ==
  /\ \A x : /\ Append(<<>>, x) = <<x>> /\ Tail(<<x>>) = <<>> /\ Head(<<x>>) = x
            /\ DOMAIN <<x>> = {1} /\ <<x>>[1] = x /\ <<x>> # <<>>
            /\ SubSeq(<<x>>, 1, 0) \o SubSeq(<<x>>, 2, 1) = <<>> /\ Len(<<x>>) = 1
  /\ \A x, y, z : /\ Tail(<<x, y, z>>) = <<y, z>> /\ Tail(<<y, z>>) = <<z>>
                  /\ Head(<<x, y, z>>) = x /\ Head(<<y, z>>) = y
                  /\ <<x, y, z>> # <<>> /\ <<y, z>> # <<>>
OBVIOUS

\* The same for a sequence of two.
LEMMA Pairs ==
  ASSUME NEW s, NEW x, NEW y, s = <<x, y>>
  PROVE  Head(s) = x /\ Tail(s) = <<y>>
OBVIOUS

\* Before the first turn no buffer holds a frame and no job is queued.
LEMMA InitEstablishes == Init => TurnInv
<1> SUFFICES ASSUME Init PROVE TurnInv
  OBVIOUS
<1>1. /\ i = 0 /\ at = "transfer" /\ faults = {} /\ pending = <<>> /\ watched = 1 /\ meant = mem
      /\ mem \in [Buffers -> {NoFrame}]
      /\ call = [name |-> "none", bufs |-> <<>>, todo |-> <<>>, failed |-> {}]
  BY DEF Init, GPU!Init, GPU!Chunk, GPU!Returned, Buffers
<1>2. mem \in [Buffers -> Int]
  BY <1>1 DEF NoFrame
<1>3. Types /\ Turn
  BY <1>1, <1>2 DEF Types, Turn
<1> QED
  BY <1>1, <1>3 DEF TurnInv, InFlight, Idle, Pictures

-----------------------------------------------------------------------------
(* The steps of the program.                                               *)

\* Between the calls only the place, the frame and the failures change.
LEMMA TransferKeepsInvariant == TurnInv /\ TransferToGPU => TurnInv'
<1> SUFFICES ASSUME TurnInv, TransferToGPU PROVE TurnInv'
  OBVIOUS
<1>1. /\ at = "transfer" /\ at' = "launch" /\ i' = i /\ i \in Nat /\ UNCHANGED <<pending, watched, call>>
      /\ \/ mem' = [mem EXCEPT !["program_code"] = i] /\ meant' = [meant EXCEPT !["program_code"] = i] /\ faults' = faults
         \/ mem' = mem /\ meant' = meant /\ faults' = faults \cup {"transfer"}
  BY DEF TransferToGPU, TurnInv, Turn
<1>2. Turn'
  BY <1>1 DEF TurnInv, Turn
<1>3. ASSUME Orderly' PROVE Types' /\ InFlight' /\ (faults' = {} => Pictures')
  <2>1. Types /\ InFlight /\ Idle /\ call.todo = <<>> /\ (faults = {} => Pictures)
    BY <1>1, <1>3 DEF Orderly, TurnInv, InFlight
  <2>2. mem' \in [Buffers -> Int] /\ mem' = meant'
    BY <1>1, <2>1 DEF Types, Idle
  <2>3. Types' /\ InFlight'
    BY <1>1, <2>1, <2>2 DEF Types, InFlight, Idle
  <2>4. faults' = {} => Pictures'
    <3> SUFFICES ASSUME faults' = {} PROVE Pictures'
      OBVIOUS
    <3>1. faults = {} /\ mem' = [mem EXCEPT !["program_code"] = i] /\ Pictures
      BY <1>1, <2>1
    <3>2. mem'["program_code"] = i /\ mem'[DataOther(i)] = mem[DataOther(i)]
      BY <1>1, <2>1, <3>1, TwoBuffers DEF Types, Buffers
    <3> QED
      BY <1>1, <3>1, <3>2 DEF Pictures, DataOther
  <2> QED
    BY <2>3, <2>4
<1> QED
  BY <1>2, <1>3 DEF TurnInv

\* Launch and WaitForCode begin a call; its first ioctl is still to come.
LEMMA CallKeepsInvariant == TurnInv /\ (Launch \/ WaitForCode) => TurnInv'
<1> SUFFICES ASSUME TurnInv, Launch \/ WaitForCode PROVE TurnInv'
  OBVIOUS
<1>1. i' = i /\ faults' = faults /\ UNCHANGED <<pending, watched, mem, meant>> /\ i \in Nat
  BY DEF Launch, WaitForCode, GPU!Call, TurnInv, Turn
<1>2. /\ call' = [name |-> call'.name, bufs |-> call'.bufs, todo |-> call'.todo, failed |-> call'.failed]
      /\ call'.failed = {}
      /\ \/ at = "launch" /\ at' = "launching" /\ call'.todo = <<GPU!Submit(FrameJob(i))>>
         \/ at = "wait" /\ at' = "waiting" /\ call'.todo = GPU!waitBuffer("program_code")
  <2>1. CASE Launch
    BY <2>1 DEF Launch, GPU!Call, GPU!launch, FrameJob
  <2>2. CASE WaitForCode
    BY <2>2 DEF WaitForCode, GPU!Call
  <2> QED
    BY <2>1, <2>2
<1>3. Turn'
  BY <1>1, <1>2 DEF Turn
<1>4. ASSUME Orderly' PROVE Types' /\ InFlight' /\ (faults' = {} => Pictures')
  <2>1. Types /\ InFlight /\ (faults = {} => Pictures)
    BY <1>1, <1>2, <1>4 DEF Orderly, TurnInv
  <2>2. Types'
    BY <1>1, <1>2, <2>1 DEF Types
  <2>3. Idle' = Idle /\ AtWork' = AtWork
    BY <1>1 DEF Idle, AtWork, FrameJob, DataCur, Drawn, GPU!Dispatch, GPU!Chunk
  <2>4. CASE at = "launch"
    <3>1. call'.todo = <<GPU!Submit(FrameJob(i))>> /\ at' = "launching"
      BY <1>2, <2>4
    <3>2. LaunchIssued'
      BY <1>1, <1>2, <2>1, <2>3, <2>4, <3>1 DEF LaunchIssued, InFlight, FrameJob, DataCur, GPU!Dispatch, GPU!Submit, GPU!Chunk
    <3>3. InFlight'
      BY <3>1, <3>2 DEF InFlight
    <3>4. faults' = {} => Pictures'
      BY <1>1, <2>1, <2>4, <3>1, Queues DEF Pictures, DataOther
    <3> QED
      BY <2>2, <3>3, <3>4
  <2>5. CASE at = "wait"
    <3>1. call'.todo = GPU!waitBuffer("program_code") /\ at' = "waiting"
      BY <1>2, <2>5
    <3>2. InFlight'
      BY <1>1, <2>1, <2>3, <2>5, <3>1 DEF InFlight, GPU!waitBuffer, GPU!Wait, GPU!Submit, GPU!Flush, GPU!compute_create_reloc_table
    <3>3. faults' = {} => Pictures'
      BY <1>1, <2>1, <2>5, <3>1 DEF Pictures, DataCur
    <3> QED
      BY <2>2, <3>2, <3>3
  <2> QED
    BY <1>2, <2>4, <2>5
<1> QED
  BY <1>3, <1>4 DEF TurnInv

\* The program goes on when a call has returned; it stops unless the launch was
\* accepted, and the next frame has the other buffer.
LEMMA ReturnKeepsInvariant == TurnInv /\ (LaunchReturns \/ ImageShown \/ NextFrame \/ FreeBuffers) => TurnInv'
<1> SUFFICES ASSUME TurnInv, LaunchReturns \/ ImageShown \/ NextFrame \/ FreeBuffers PROVE TurnInv'
  OBVIOUS
<1>1. UNCHANGED <<pending, watched, mem, meant, call>> /\ i \in Nat
  BY DEF LaunchReturns, ImageShown, NextFrame, FreeBuffers, gpuVars, TurnInv, Turn
<1>2. Turn'
  BY <1>1 DEF LaunchReturns, ImageShown, NextFrame, FreeBuffers, TurnInv, Turn
<1>3. ASSUME Orderly' PROVE Types' /\ InFlight' /\ (faults' = {} => Pictures')
  <2>1. Orderly
    BY <1>1, <1>3 DEF LaunchReturns, ImageShown, NextFrame, FreeBuffers, Orderly
  <2>2. Types /\ InFlight /\ (faults = {} => Pictures) /\ Idle' = Idle /\ Types'
    BY <1>1, <2>1 DEF TurnInv, Types, Idle
  <2>3. CASE LaunchReturns
    <3>1. i' = i /\ at = "launching" /\ call.todo = <<>> /\ faults' = faults /\ at' \in {"terminated", "show", "wait"}
          /\ (at' # "terminated" => "submit" \notin call.failed) /\ (at' = "show" => i > 0)
      BY <1>1, <2>3 DEF LaunchReturns
    <3>2. AtWork' = AtWork
      BY <1>1, <3>1 DEF AtWork, Idle, FrameJob, DataCur, Drawn, GPU!Dispatch, GPU!Chunk
    <3>3. AtWork
      BY <2>2, <3>1, Queues DEF InFlight, LaunchIssued
    <3>4. InFlight'
      BY <1>1, <3>1, <3>2, <3>3 DEF InFlight
    <3>5. faults' = {} => Pictures'
      <4>1. at' # "terminated" => call.failed = {}
        BY <2>2, <3>1, Queues DEF InFlight, LaunchIssued
      <4> QED
        BY <1>1, <2>2, <3>1, <4>1 DEF Pictures, DataCur, DataOther
    <3> QED
      BY <2>2, <3>4, <3>5
  <2>4. CASE ImageShown
    <3>1. i' = i /\ at = "show" /\ at' = "wait" /\ faults' = faults
      BY <2>4 DEF ImageShown
    <3>2. AtWork' = AtWork
      BY <1>1, <3>1 DEF AtWork, Idle, FrameJob, DataCur, Drawn, GPU!Dispatch, GPU!Chunk
    <3>3. InFlight'
      BY <1>1, <2>2, <3>1, <3>2 DEF InFlight
    <3>4. faults' = {} => Pictures'
      BY <1>1, <2>2, <3>1 DEF Pictures, DataCur
    <3> QED
      BY <2>2, <3>3, <3>4
  <2>5. CASE NextFrame
    <3>1. at = "waiting" /\ call.todo = <<>> /\ i' = i + 1 /\ at' = "transfer" /\ faults \subseteq faults'
      BY <2>5 DEF NextFrame
    <3>2. Idle
      BY <2>2, <3>1, Queues DEF InFlight, GPU!waitBuffer
    <3>3. InFlight'
      BY <1>1, <2>2, <3>1, <3>2 DEF InFlight
    <3>4. faults' = {} => Pictures'
      <4> SUFFICES ASSUME faults' = {} PROVE Pictures'
        OBVIOUS
      <4>1. mem[DataCur(i)] = i
        BY <2>2, <3>1, <3>2 DEF Pictures, Idle
      <4>2. DataOther(i)' = DataOther(i + 1) /\ DataOther(i + 1) = DataCur(i)
        BY <1>1, <3>1, TwoBuffers DEF DataOther
      <4>3. mem'[DataOther(i)'] = i' - 1
        BY <1>1, <3>1, <4>1, <4>2
      <4> QED
        BY <3>1, <4>3 DEF Pictures
    <3> QED
      BY <2>2, <3>3, <3>4
  <2>6. CASE FreeBuffers
    <3>1. at = "transfer" /\ at' = "freed"
      BY <2>6 DEF FreeBuffers
    <3> QED
      BY <1>1, <2>2, <3>1 DEF InFlight, Idle, Pictures
  <2> QED
    BY <2>3, <2>4, <2>5, <2>6
<1> QED
  BY <1>2, <1>3 DEF TurnInv

-----------------------------------------------------------------------------
(* The ioctls of the running call, and the GPU.                            *)

\* Every ioctl takes its call one step on.  What a rejected submission and an
\* idle buffer leave is as good as before; a failed wait ends the order.
LEMMA LibraryKeepsInvariant == TurnInv /\ Library => TurnInv'
<1> SUFFICES ASSUME TurnInv, Library PROVE TurnInv'
  OBVIOUS
<1>1. i' = i /\ at' = at /\ faults' = faults /\ i \in Nat /\ watched' = watched /\ mem' = mem /\ call.todo # <<>>
  BY DEF Library, GPU!Library, GPU!Accept, GPU!Reject, GPU!WaitIdle, GPU!WaitFails, GPU!NextIs, TurnInv, Turn
<1> DEFINE Ioctl(name, failure) ==
             /\ Head(call.todo)[1] = name
             /\ call' = [call EXCEPT !.todo = Tail(@), !.failed = @ \cup failure]
           Accepted == /\ Ioctl("submit", {})
                       /\ pending' = Append(pending, Head(call.todo)[2])
                       /\ meant' = GPU!Effect(meant, Head(call.todo)[2])
           Rejected == Ioctl("submit", {"submit"}) /\ UNCHANGED <<pending, meant>>
           Waited == Ioctl("wait", {}) /\ ~GPU!Busy(Head(call.todo)[2]) /\ UNCHANGED <<pending, meant>>
           Failed == Ioctl("wait", {"wait"}) /\ UNCHANGED <<pending, meant>>
<1>2. Accepted \/ Rejected \/ Waited \/ Failed
  <2>1. CASE GPU!Accept
    BY <2>1 DEF GPU!Accept, GPU!NextIs, GPU!Done, GPU!Operand
  <2>2. CASE GPU!Reject
    BY <2>2 DEF GPU!Reject, GPU!NextIs, GPU!Done
  <2>3. CASE GPU!WaitIdle
    BY <2>3 DEF GPU!WaitIdle, GPU!NextIs, GPU!Done, GPU!Operand
  <2>4. CASE GPU!WaitFails
    BY <2>4 DEF GPU!WaitFails, GPU!NextIs, GPU!Done
  <2> QED
    BY <2>1, <2>2, <2>3, <2>4 DEF Library, GPU!Library
<1>3. ASSUME NEW name, NEW failure, Ioctl(name, failure)
      PROVE  /\ call'.todo = Tail(call.todo) /\ call'.failed = call.failed \cup failure
             /\ call' = [name |-> call'.name, bufs |-> call'.bufs, todo |-> call'.todo, failed |-> call'.failed]
  BY <1>3 DEF TurnInv, Turn
<1> HIDE DEF Ioctl
<1>4. /\ call'.todo = Tail(call.todo) /\ call.failed \subseteq call'.failed
      /\ call' = [name |-> call'.name, bufs |-> call'.bufs, todo |-> call'.todo, failed |-> call'.failed]
  BY <1>2, <1>3
<1>5. Turn'
  BY <1>1, <1>4 DEF TurnInv, Turn
<1>6. ASSUME Orderly' PROVE Types' /\ InFlight' /\ (faults' = {} => Pictures')
  <2>1. Types /\ InFlight /\ (faults = {} => Pictures)
    BY <1>1, <1>4, <1>6 DEF Orderly, TurnInv
  <2>2. Idle => AtWork
    BY DEF AtWork
  <2>3. FrameJob(i)' = FrameJob(i) /\ DataCur(i)' = DataCur(i) /\ DataOther(i)' = DataOther(i) /\ Drawn(i, mem)' = Drawn(i, mem)
    BY <1>1 DEF FrameJob, DataCur, DataOther, Drawn, GPU!Dispatch, GPU!Chunk
  <2>4. ASSUME UNCHANGED <<pending, meant>> PROVE Types' /\ Idle' = Idle /\ AtWork' = AtWork /\ Flushing' = Flushing
    BY <1>1, <2>1, <2>3, <2>4 DEF Types, Idle, AtWork, Flushing, GPU!Flush, GPU!compute_create_reloc_table
  <2>5. CASE at = "launching"
    <3>1. LaunchIssued /\ Head(call.todo) = <<"submit", FrameJob(i)>> /\ Tail(call.todo) = <<>>
      BY <1>1, <2>1, <2>5, Queues DEF InFlight, LaunchIssued, GPU!Submit
    <3>2. CASE Accepted
      <4>1. pending' = <<FrameJob(i)>> /\ meant' = Drawn(i, mem) /\ call'.todo = <<>> /\ call'.failed = {}
        BY <1>3, <2>1, <3>1, <3>2, Queues, Effects DEF LaunchIssued, Idle, Types
      <4>2. Types' /\ meant'[DataCur(i)] = mem["program_code"]
        BY <1>1, <2>1, <4>1, DrawnContents DEF Types
      <4>3. InFlight'
        BY <1>1, <2>3, <2>5, <4>1 DEF InFlight, AtWork
      <4>4. faults' = {} => Pictures'
        BY <1>1, <2>1, <2>3, <2>5, <4>2 DEF Pictures
      <4> QED
        BY <4>2, <4>3, <4>4
    <3>3. CASE Rejected
      <4>1. call'.todo = <<>> /\ call'.failed = {"submit"} /\ UNCHANGED <<pending, meant>>
        BY <1>3, <3>1, <3>3 DEF LaunchIssued
      <4>2. InFlight'
        BY <1>1, <2>2, <2>4, <2>5, <3>1, <4>1 DEF InFlight, LaunchIssued
      <4>3. faults' = {} => Pictures'
        BY <1>1, <2>1, <2>3, <2>5, <4>1 DEF Pictures
      <4> QED
        BY <2>4, <4>1, <4>2, <4>3
    <3>4. ~Waited /\ ~Failed
      BY <3>1 DEF Ioctl
    <3> QED
      BY <1>2, <3>2, <3>3, <3>4
  <2>6. CASE at = "waiting"
    <3>1. ~Failed
      BY <1>1, <1>3, <1>6, <2>6 DEF Orderly
    <3>2. (faults' = {} => Pictures') <=> (faults = {} => mem["program_code"] = i /\ meant'[DataCur(i)] = i)
      BY <1>1, <2>3, <2>6 DEF Pictures
    <3>3. (faults = {} => Pictures) <=> (faults = {} => mem["program_code"] = i /\ meant[DataCur(i)] = i)
      BY <2>6 DEF Pictures
    <3>4. ASSUME UNCHANGED <<pending, meant>> PROVE Types' /\ (faults' = {} => Pictures')
      BY <2>1, <2>4, <3>2, <3>3, <3>4
    <3>5. GPU!waitBuffer("program_code") =
            <<GPU!Wait("program_code"), GPU!Submit(GPU!Flush("program_code")), GPU!Wait("program_code")>>
      BY DEF GPU!waitBuffer
    <3>6. CASE call.todo = GPU!waitBuffer("program_code") /\ AtWork
      <4>1. Head(call.todo) = <<"wait", "program_code">> /\ Tail(call.todo) = Tail(GPU!waitBuffer("program_code"))
        BY <3>5, <3>6, Queues DEF GPU!Wait
      <4>2. Waited
        BY <1>2, <3>1, <4>1 DEF Ioctl
      <4>3. Idle
        <5>1. pending = <<FrameJob(i)>> => GPU!Busy("program_code")
          BY Queues DEF GPU!Busy, FrameJob, GPU!Dispatch
        <5> QED
          BY <3>6, <4>1, <4>2, <5>1 DEF AtWork
      <4>4. InFlight'
        BY <1>1, <1>3, <2>4, <2>6, <4>1, <4>2, <4>3 DEF InFlight, GPU!waitBuffer, GPU!Wait, GPU!Submit, GPU!Flush, GPU!compute_create_reloc_table
      <4> QED
        BY <3>4, <4>2, <4>4
    <3>7. CASE call.todo = Tail(GPU!waitBuffer("program_code")) /\ Idle
      <4>1. Head(call.todo) = <<"submit", GPU!Flush("program_code")>> /\ Tail(call.todo) = <<GPU!Wait("program_code")>>
        <5>1. Tail(GPU!waitBuffer("program_code")) = <<GPU!Submit(GPU!Flush("program_code")), GPU!Wait("program_code")>>
          BY DEF GPU!waitBuffer
        <5>2. GPU!Submit(GPU!Flush("program_code")) = <<"submit", GPU!Flush("program_code")>>
          BY DEF GPU!Submit
        <5> QED
          <6> DEFINE flush == GPU!Submit(GPU!Flush("program_code"))
                     wait == GPU!Wait("program_code")
          <6>1. call.todo = <<flush, wait>>
            BY <3>7, <5>1
          <6> HIDE DEF flush, wait
          <6>2. Head(call.todo) = flush /\ Tail(call.todo) = <<wait>>
            BY <6>1, Pairs
          <6> QED
            BY <5>2, <6>2 DEF flush, wait
      <4>2. call'.todo = <<GPU!Wait("program_code")>>
        BY <1>4, <4>1
      <4>3. CASE Accepted
        <5>1. pending' = <<GPU!Flush("program_code")>> /\ meant' = meant
          <6>1. Head(call.todo)[2] = GPU!Flush("program_code")
            BY <4>1
          <6>2. GPU!Effect(meant, GPU!Flush("program_code")) = meant
            BY <2>1, Effects DEF Types
          <6> QED
            BY <3>7, <4>3, <6>1, <6>2, Queues DEF Idle
        <5>2. Flushing'
          BY <1>1, <3>7, <5>1 DEF Flushing, Idle, GPU!Flush, GPU!compute_create_reloc_table
        <5>3. InFlight'
          BY <1>1, <2>6, <4>2, <5>2 DEF InFlight, GPU!Wait
        <5>4. Types' /\ (faults' = {} => Pictures')
          BY <1>1, <2>1, <3>2, <3>3, <5>1 DEF Types
        <5> QED
          BY <5>3, <5>4
      <4>4. CASE Rejected
        <5>1. Flushing'
          BY <1>1, <3>7, <4>4 DEF Flushing, Idle
        <5>2. InFlight'
          BY <1>1, <2>6, <4>2, <5>1 DEF InFlight, GPU!Wait
        <5> QED
          BY <3>4, <4>4, <5>2
      <4>5. ~Waited
        BY <4>1 DEF Ioctl
      <4> QED
        BY <1>2, <3>1, <4>3, <4>4, <4>5
    <3>8. CASE call.todo = <<GPU!Wait("program_code")>> /\ Flushing
      <4>1. Head(call.todo) = <<"wait", "program_code">> /\ Tail(call.todo) = <<>>
        BY <3>8, Queues DEF GPU!Wait
      <4>2. Waited
        BY <1>2, <3>1, <4>1 DEF Ioctl
      <4>3. Idle
        <5>1. pending = <<GPU!Flush("program_code")>> => GPU!Busy("program_code")
          BY Queues DEF GPU!Busy, GPU!Flush, GPU!compute_create_reloc_table
        <5> QED
          BY <3>8, <4>1, <4>2, <5>1 DEF Flushing, Idle
      <4>4. InFlight'
        BY <1>1, <1>4, <2>4, <2>6, <4>1, <4>2, <4>3 DEF InFlight
      <4> QED
        BY <3>4, <4>2, <4>4
    <3> QED
      BY <1>1, <2>1, <2>6, <3>6, <3>7, <3>8 DEF InFlight
  <2> QED
    BY <1>1, <2>1, <2>5, <2>6 DEF InFlight, TurnInv, Turn
<1> QED
  BY <1>5, <1>6 DEF TurnInv

\* The GPU can finish one thing at a time only: the launch, or the flush.
LEMMA FinishKeepsInvariant == TurnInv /\ GpuFinishes => TurnInv'
<1> SUFFICES ASSUME TurnInv, GpuFinishes PROVE TurnInv'
  OBVIOUS
<1>1. UNCHANGED <<i, at, faults, watched, meant, call>> /\ i \in Nat
  BY DEF GpuFinishes, GPU!Finish, TurnInv, Turn
<1>2. PICK k \in DOMAIN pending :
        /\ mem' = GPU!Effect(mem, pending[k])
        /\ pending' = SubSeq(pending, 1, k - 1) \o SubSeq(pending, k + 1, Len(pending))
  BY DEF GpuFinishes, GPU!Finish
<1>3. Turn'
  BY <1>1 DEF TurnInv, Turn
<1>4. ASSUME Orderly' PROVE Types' /\ InFlight' /\ (faults' = {} => Pictures')
  <2>1. Types /\ InFlight /\ (faults = {} => Pictures)
    BY <1>1, <1>4 DEF Orderly, TurnInv
  <2>2. ASSUME NEW job, pending = <<job>> PROVE mem' = GPU!Effect(mem, job) /\ pending' = <<>>
    BY <1>2, <2>2, Queues
  <2>3. pending # <<>>
    BY <1>2
  <2>4. CASE pending = <<FrameJob(i)>> /\ meant = Drawn(i, mem) /\ AtWork
    <3>1. mem' = meant /\ pending' = <<>>
      BY <2>1, <2>2, <2>4, Effects DEF Types
    <3>2. mem'["program_code"] = mem["program_code"] /\ mem'[DataOther(i)] = mem[DataOther(i)]
      BY <1>1, <2>1, <2>4, <3>1, DrawnContents DEF Types
    <3>3. Types' /\ Idle' /\ AtWork'
      BY <1>1, <2>1, <3>1 DEF Types, Idle, AtWork
    <3>4. ~Idle /\ ~Flushing
      <4>1. GPU!Flush("program_code").chunks = {} /\ FrameJob(i).chunks = {1}
        BY DEF GPU!Flush, FrameJob, GPU!Dispatch, GPU!Chunk
      <4> QED
        BY <2>3, <2>4, <4>1, Queues DEF Idle, Flushing
    <3>5. InFlight'
      BY <1>1, <2>1, <3>3, <3>4 DEF InFlight, LaunchIssued, GPU!waitBuffer, GPU!Wait, GPU!Submit, GPU!Flush, GPU!compute_create_reloc_table
    <3>6. faults' = {} => Pictures'
      BY <1>1, <2>1, <3>2 DEF Pictures, DataCur, DataOther
    <3> QED
      BY <3>3, <3>5, <3>6
  <2>5. CASE pending = <<GPU!Flush("program_code")>> /\ Flushing
    <3>1. mem' = mem /\ pending' = <<>>
      BY <2>1, <2>2, <2>5, Effects DEF Types
    <3>2. Types' /\ Idle' /\ Flushing' /\ AtWork'
      BY <1>1, <2>1, <2>5, <3>1 DEF Types, Idle, Flushing, AtWork
    <3>3. InFlight'
      BY <1>1, <2>1, <2>3, <3>2 DEF InFlight, LaunchIssued, Idle, GPU!waitBuffer, GPU!Wait, GPU!Submit, GPU!Flush, GPU!compute_create_reloc_table
    <3>4. faults' = {} => Pictures'
      BY <1>1, <2>1, <3>1 DEF Pictures, DataCur, DataOther
    <3> QED
      BY <3>2, <3>3, <3>4
  <2> QED
    BY <2>1, <2>3, <2>4, <2>5 DEF TurnInv, Turn, InFlight, LaunchIssued, AtWork, Idle, Flushing
<1> QED
  BY <1>3, <1>4 DEF TurnInv

-----------------------------------------------------------------------------
(* The theorems.                                                           *)

\* The inductive invariant of the loop: where it is, what is in flight and what
\* the buffers hold belong together.
THEOREM TurnInvariance == Spec => []TurnInv
<1>1. TurnInv /\ [Next]_vars => TurnInv'
  <2> SUFFICES ASSUME TurnInv, [Next]_vars PROVE TurnInv'
    OBVIOUS
  <2>1. CASE TransferToGPU
    BY <2>1, TransferKeepsInvariant
  <2>2. CASE Launch \/ WaitForCode
    BY <2>2, CallKeepsInvariant
  <2>3. CASE LaunchReturns \/ ImageShown \/ NextFrame \/ FreeBuffers
    BY <2>3, ReturnKeepsInvariant
  <2>4. CASE Library
    BY <2>4, LibraryKeepsInvariant
  <2>5. CASE GpuFinishes
    BY <2>5, FinishKeepsInvariant
  <2>6. CASE UNCHANGED vars
    <3>1. UNCHANGED <<pending, watched, mem, meant, call, i, at, faults>>
      BY <2>6 DEF vars
    <3>2. Orderly' = Orderly /\ Turn' = Turn /\ Types' = Types /\ Pictures' = Pictures
      BY <3>1 DEF Orderly, Turn, Types, Pictures, DataCur, DataOther
    <3>3. AtWork' = AtWork /\ Idle' = Idle
      BY <3>1 DEF AtWork, Idle, FrameJob, DataCur, Drawn, GPU!Dispatch, GPU!Chunk
    <3>4. Flushing' = Flushing
      BY <3>1 DEF Flushing, GPU!Flush, GPU!compute_create_reloc_table
    <3>5. LaunchIssued' = LaunchIssued
      BY <3>1, <3>3 DEF LaunchIssued, FrameJob, DataCur, GPU!Dispatch, GPU!Submit, GPU!Chunk
    <3>6. InFlight' = InFlight
      BY <3>1, <3>3, <3>4, <3>5 DEF InFlight, GPU!waitBuffer, GPU!Wait, GPU!Submit, GPU!Flush, GPU!compute_create_reloc_table
    <3> QED
      BY <3>1, <3>2, <3>6 DEF TurnInv
  <2> QED
    BY <2>1, <2>2, <2>3, <2>4, <2>5, <2>6 DEF Next, Program, Ended
<1> QED
  BY InitEstablishes, <1>1, PTL DEF Spec

\* What is in flight names the program and the buffer that is drawn, never the
\* one that is shown.
LEMMA OtherIsNotBusy ==
  ASSUME i \in Nat, Types, AtWork
  PROVE  ~GPU!Busy(DataOther(i)) /\ mem[DataOther(i)] = meant[DataOther(i)]
<1>1. CASE Idle
  BY <1>1 DEF Idle, GPU!Busy
<1>2. CASE pending = <<FrameJob(i)>> /\ meant = Drawn(i, mem)
  <2>1. meant[DataOther(i)] = mem[DataOther(i)]
    BY <1>2, DrawnContents DEF Types
  <2>2. ~GPU!Busy(DataOther(i))
    BY <1>2, Queues, TwoBuffers DEF GPU!Busy, FrameJob, GPU!Dispatch
  <2> QED
    BY <2>1, <2>2
<1> QED
  BY <1>1, <1>2 DEF AtWork

\* The copy to the screen reads a buffer at rest, and in it the frame before the
\* one that is being computed.
THEOREM PreviousFrameIsShown == Spec => []ShowsPreviousFrame
<1>1. TurnInv => ShowsPreviousFrame
  <2> SUFFICES ASSUME TurnInv, at = "show"
               PROVE  /\ "wait" \notin faults => ~GPU!Busy(DataOther(i)) /\ mem[DataOther(i)] = meant[DataOther(i)]
                      /\ faults = {} => mem[DataOther(i)] = i - 1
    BY DEF ShowsPreviousFrame
  <2>1. i \in Nat /\ i > 0 /\ (Orderly <=> "wait" \notin faults)
    BY DEF TurnInv, Turn, Orderly
  <2>2. "wait" \notin faults => AtWork /\ Types
    BY <2>1 DEF TurnInv, InFlight
  <2>3. faults = {} => mem[DataOther(i)] = i - 1
    BY <2>1 DEF TurnInv, Pictures
  <2> QED
    BY <2>1, <2>2, <2>3, OtherIsNotBusy
<1> QED
  BY TurnInvariance, <1>1, PTL

\* The program buffer is written between two frames only when no launch uses it.
THEOREM CodeIsAtRest == Spec => []CodeIsNotOverwrittenInUse
<1>1. TurnInv => CodeIsNotOverwrittenInUse
  BY DEF TurnInv, Orderly, InFlight, Idle, CodeIsNotOverwrittenInUse, GPU!Busy
<1> QED
  BY TurnInvariance, <1>1, PTL

\* Nothing is in flight any more when the buffers are freed.
THEOREM FreedAtRest == Spec => []FreesWhenIdle
<1>1. TurnInv => FreesWhenIdle
  BY DEF TurnInv, Orderly, InFlight, Idle, FreesWhenIdle
<1> QED
  BY TurnInvariance, <1>1, PTL
=============================================================================
