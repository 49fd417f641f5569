------------------------------ MODULE Animation ------------------------------
(***************************************************************************)
(* animationZoom of mandelbrot.cpp: the GPU computes frame i into one of   *)
(* two buffers while the CPU copies frame i - 1 from the other to the      *)
(* screen.  The program in the code buffer is made anew for every frame;   *)
(* here it is the number of its frame, and so is the picture it computes.  *)
(*                                                                         *)
(* The functions of ComputeInterface, the rings and the kernel are those   *)
(* of Submission.  Contexts, addresses and the pauses between frames are   *)
(* left out.                                                               *)
(***************************************************************************)
EXTENDS Integers, Sequences

CONSTANTS
  IterNum,    \* the frames of one call of animationZoom
  MaxPending  \* bound on the submissions that are in flight

ASSUME IterNumAssumption == IterNum \in Nat

VARIABLES
  pending, watched, mem, meant, call,  \* the GPU and its library: see Submission
  i,       \* the frame of this turn of the loop
  at,      \* the place reached in the turn
  faults   \* the kinds of calls that have failed so far

gpuVars == <<pending, watched, mem, meant, call>>
vars == <<pending, watched, mem, meant, call, i, at, faults>>

NoFrame == -1

GPU == INSTANCE Submission
         WITH Buffer <- {"program_code", "data1", "data2"},
              Contents <- {NoFrame}, Chunks <- 1

\* Fault: the parity is the same for both buffers.
OtherIsCurrent(n) == IF n % 2 = 1 THEN "data1" ELSE "data2"

DataCur(n) == IF n % 2 = 1 THEN "data1" ELSE "data2"
DataOther(n) == IF n % 2 = 1 THEN "data2" ELSE "data1"

-----------------------------------------------------------------------------
(* One turn of the loop.                                                   *)

\* transferToGPU writes the program for frame i, or fails unnoticed.
TransferToGPU ==
  /\ at = "transfer" /\ i < IterNum
  /\ at' = "launch"
  /\ \/ /\ mem' = [mem EXCEPT !["program_code"] = i]
        /\ meant' = [meant EXCEPT !["program_code"] = i]
        /\ UNCHANGED faults
     \/ /\ faults' = faults \cup {"transfer"}
        /\ UNCHANGED <<mem, meant>>
  /\ UNCHANGED <<pending, watched, call, i>>

Launch ==
  /\ at = "launch"
  /\ LET cur == DataCur(i) IN
       GPU!Call("launch", <<cur, "program_code">>,
                GPU!launch("program_code", cur, {"program_code", cur}))
  /\ at' = "launching"
  /\ UNCHANGED <<i, faults>>

\* A rejected launch throws, and nobody catches.
LaunchReturns ==
  /\ at = "launching" /\ call.todo = <<>>
  /\ at' = IF "submit" \in call.failed THEN "terminated"
           ELSE IF i > 0 THEN "show" ELSE "wait"
  /\ UNCHANGED <<gpuVars, i, faults>>

\* imageToFrameBuffer has copied DataOther(i), which it reads while at = "show",
\* or has found no frame buffer.
ImageShown ==
  /\ at = "show"
  /\ at' = "wait"
  /\ UNCHANGED <<gpuVars, i, faults>>

\* Fault: the buffer on the screen is waited for.
WaitForOther ==
  /\ at = "wait"
  /\ GPU!Call("waitBuffer", <<DataOther(i)>>, GPU!waitBuffer(DataOther(i)))
  /\ at' = "waiting"
  /\ UNCHANGED <<i, faults>>

\* Fault: only the caches are flushed.
FlushWithoutWaiting ==
  /\ at = "wait"
  /\ GPU!Call("waitBuffer", <<"program_code">>, <<GPU!Submit(GPU!Flush("program_code"))>>)
  /\ at' = "waiting"
  /\ UNCHANGED <<i, faults>>

WaitForCode ==
  /\ at = "wait"
  /\ GPU!Call("waitBuffer", <<"program_code">>, GPU!waitBuffer("program_code"))
  /\ at' = "waiting"
  /\ UNCHANGED <<i, faults>>

\* Fault: the loop counter stays.
NextFrameForgotten ==
  /\ at = "waiting" /\ call.todo = <<>>
  /\ at' = "transfer"
  /\ faults' = faults \cup (call.failed \cap {"wait"})
  /\ UNCHANGED <<gpuVars, i>>

\* waitBuffer returns; its failures go unnoticed.
NextFrame ==
  /\ at = "waiting" /\ call.todo = <<>>
  /\ i' = i + 1
  /\ at' = "transfer"
  /\ faults' = faults \cup (call.failed \cap {"wait"})
  /\ UNCHANGED gpuVars

\* After the loop the three buffers are freed and the context closed.
FreeBuffers ==
  /\ at = "transfer" /\ i = IterNum
  /\ at' = "freed"
  /\ UNCHANGED <<gpuVars, i, faults>>

-----------------------------------------------------------------------------

Init == GPU!Init /\ i = 0 /\ at = "transfer" /\ faults = {}

Program ==
  TransferToGPU \/ Launch \/ LaunchReturns \/ ImageShown \/ WaitForCode \/ NextFrame \/ FreeBuffers

\* The running function of the library, and the GPU beside everything else.
Library == GPU!Library /\ UNCHANGED <<i, at, faults>>
GpuFinishes == GPU!Finish /\ UNCHANGED <<i, at, faults>>

Ended == at \in {"freed", "terminated"} /\ pending = <<>> /\ UNCHANGED vars

Next == Program \/ Library \/ GpuFinishes \/ Ended

\* The program runs, and the GPU finishes what it can finish.
Spec ==
  /\ Init /\ [][Next]_vars
  /\ WF_vars(Program)
  /\ WF_vars((GPU!Accept \/ GPU!WaitIdle) /\ UNCHANGED <<i, at, faults>>)
  /\ WF_vars(GpuFinishes)

-----------------------------------------------------------------------------
(* Properties.                                                             *)

\* What imageToFrameBuffer reads stands still while it reads, although the GPU
\* is at work, and it is the whole frame before the one being computed; the only
\* wait that orders them is the one for the program in the turn before.
ShowsPreviousFrame ==
  at = "show" =>
    /\ "wait" \notin faults => ~GPU!Busy(DataOther(i)) /\ mem[DataOther(i)] = meant[DataOther(i)]
    /\ faults = {} => mem[DataOther(i)] = i - 1

\* No program is overwritten while a launch that runs it is unfinished.
CodeIsNotOverwrittenInUse ==
  at = "transfer" /\ "wait" \notin faults => ~GPU!Busy("program_code")

\* Nothing is in flight when the buffers are freed, on whichever ring: also if a
\* cache flush was rejected.
FreesWhenIdle == at = "freed" /\ "wait" \notin faults => pending = <<>>

\* The loop is not stuck in a wait: the call ends or is terminated by a rejected
\* launch.
AnimationEnds == <>(at \in {"freed", "terminated"})
=============================================================================
