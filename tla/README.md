# radeonsi_compute: specifications and proofs

radeonsi_compute is a user space library for running compute programs on AMD
Southern Islands GPUs.  It talks to the radeon kernel driver through DRM ioctls,
keeps its own map of the GPU's virtual address space, builds command streams and
transfers data.  This directory holds TLA+ specifications of it, the TLC
configurations that check them on small instances, and TLAPS proofs.

## Inventory

| Part | State it keeps | Operations | Interacts with | What is hard |
|---|---|---|---|---|
| Address pool (`computesi.c` 223-342) | `ctx->vm_pool`, a list of `pool_node` in address order; the first node covers the driver's area | `compute_pool_alloc` (first fit for objects of one fragment, otherwise the tail), `compute_pool_free` | called by the buffer functions; read by `compute_create_reloc_table` and `compute_free_context` | long sequences of calls, boundaries of gaps and fragments, links repaired far from where they are read |
| Buffer objects (679-792, 344-411, 235-250) | arrays of `struct gpu_buffer`, one element per 64 MB fragment; GEM handles and page tables in the kernel | `compute_alloc_gpu_buffer`, `compute_free_gpu_buffer`, `compute_vm_map`, `compute_free_context` | pool, kernel | one step of several failing, stale mappings, handle numbers reused |
| Host transfers (1021-1195) | none of its own | `compute_copy_to_gpu`, `compute_copy_from_gpu` | kernel mmap of each fragment | unsigned arithmetic at offsets and fragment ends, errors half way |
| Command submission (437-677, 794-1019) | relocation arrays; the kernel's compute and DMA rings | `compute_send_sync_dma_req`, `compute_send_async_dma_req`, `compute_flush_caches`, `compute_emit_compute_state(_manual_relocs)`, `compute_bo_wait` | rings run concurrently with the CPU | ordering between rings and CPU only through relocations, `-EBUSY` retries |
| Compute interface (`compute_interface.cpp`) | a context | chunked `syncDMACopy`/`asyncDMACopy`, `launch`, `waitBuffer` | all of the above | ignored results, flags on the first and last chunk |
| Context creation and authentication (`computesi.c` 90-233, `ati_chip.cpp` 176-210, `drm_master.cpp`) | the DRM master's map of devices; the kernel's table of magics | `compute_create_context`, `authWithLocalMaster`, `drmServer` | UDP datagrams, kernel | lost or late answers, several clients, early exits |
| Animation (`mandelbrot.cpp` 294-364) | two frame buffers | launch one, show the other | submission | CPU and GPU on two buffers at once |
| Manual clocking (`0001-*.patch`) | clocks and voltages, three locks | `radeon_set_pm_clocks`, `radeon_set_clocks_voltages_raw` | kernel | early returns with locks held, order of voltage and clock changes |
| Instruction encoders (`code_helper.h`) | none | one function per instruction, `struct buffer_resource` | clients' programs, which read nothing back | overlapping bit fields, signed offsets, counts |
| Shader programs (`mandelbrot.cpp`, `main.cpp`, `fma_test.cpp`, `read_test.cpp`, `write_test.cpp`, `divide_precision.cpp`) | registers of a wave, memory instructions under way | straight-line code, one loop each, a log of when and where each wave ran | encoders, dispatch | branch offsets, waits, lanes switched off, registers not allocated |
| Device enumeration (`ati_chip.cpp` 19-174) | none | `getAllAtiDevices` | udev, libpciaccess | sequential |
| Register and instruction tables (`sid.h`), ABI stub | none | | | data |

What makes each part correct: the pool gives out disjoint, linear and stable
ranges; a buffer object that is returned is mapped where it says and a failed
call leaves the pool as it was; a transfer moves exactly the bytes asked for or
reports an error; a submission names every fragment the GPU will touch and a wait
returns only when they are idle; a context that is returned is authenticated and
one that is refused holds nothing; what is encoded is what the hardware reads; a
wave executes the instructions that were written, and ends; clocks never run
above what the voltage allows and no path keeps a lock.  `PROJECT.json` lists the hazards at their
lines.

## Modules

| Module | Models | State |
|---|---|---|
| `VaSpace` | what the pool promises: each object owns one interval above the reserved area, disjoint from the others, unchanged until all of it is released | the set of intervals |
| `VmPool` | `compute_pool_alloc`, `compute_pool_free` | the nodes as a set; the list order is the order of `va` |
| `VmPoolList` | the same functions on `struct pool_node` objects | the C heap: address to node with `prev` and `next` |
| `GpuBuffer` | `compute_alloc_gpu_buffer`, `compute_free_gpu_buffer`, `compute_free_context` | the pool (`EXTENDS VmPool`), the objects, the kernel's handles and mappings, the point reached in the running function |
| `HostCopy` | `compute_copy_to_gpu`, `compute_copy_from_gpu` | sizes, the loop's variables, which source byte each target byte came from |
| `Submission` | the DMA, flush and dispatch submissions, `compute_bo_wait`, and the functions of `ComputeInterface` built of them | the submissions in flight on two rings, the ioctls the running function has left, the contents of one chunk in each buffer |
| `Animation` | `animationZoom` | `INSTANCE Submission`, the loop counter, the place reached in the turn |
| `SqFormats` | the instruction formats, operand codes and opcodes of `sid.h`, and how a word is decoded | none: operators |
| `CodeHelper` | every encoder of `code_helper.h` and `struct buffer_resource` | none: operators |
| `CommandStream` | the words of a dispatch, a cache flush and a copy on either ring, and the chunks of `syncDMACopy` and `asyncDMACopy` | none: operators |
| `Assembler` | a program that calls encoders, fills a resource or submits | the words written and what was called for |
| `Kernels` | the shader programs of the clients, as sequences of encoder calls, and the registers their dispatch allocates | none: operators |
| `Wavefront` | one wave that runs the words of `Kernels` | the words in memory, program counter, scalar registers, which vector registers hold a value in which lane, memory instructions under way |
| `DrmAuth` | `compute_create_context`, `authWithLocalMaster`, `drmServer`, `compute_free_context` | how far each call is, files, magics, displays, sockets, datagrams, the daemon |
| `VmPoolProofs`, `VmPoolListProofs`, `GpuBufferProofs`, `HostCopyProofs`, `SubmissionProofs`, `AnimationProofs`, `AssemblerProofs`, `DrmAuthProofs` | theorems about the module each is named after | |
| `MCVmPool`, `MCVmPoolList`, `MCGpuBuffer`, `MCHostCopy`, `MCSubmission`, `MCAnimation`, `MCAssembler`, `MCWavefront`, `MCDrmAuth` | instances for TLC | |

`VmPoolList` implements `VmPool`, `VmPool` implements `VaSpace`, `GpuBuffer` is
composed of `VmPool` and the kernel, `Animation` of `Submission` and the client's
loop, `Assembler` of `CodeHelper` and `CommandStream`, and `Wavefront` of the
programs of `Kernels`, the encoders and the decoder of `SqFormats`.  `GpuBuffer`
extends `VmPool` instead of instantiating it, so that its proofs can cite the
lemmas of `VmPoolProofs`; the names of the pool's own behaviour therefore begin
with `Pool` (`PoolInit`, `PoolNext`, `PoolSpec`, `PoolTypeOK`).

How state and code correspond:

* Sizes and addresses are in pages.  Every `va_size` is a multiple of 4096
  (`computesi.c:739`), the first node ends at `reserved_mem + 4096`, and
  `FRAGMENT_SIZE` is a multiple of the page size, so nothing is lost; the last,
  partial page of an object is part of its `va_size`.
* A request is its number of pages `w`.  `FragmentNum` and `FragmentSize` are the
  loop of `compute_alloc_fragmented_buffer`; rounding a last fragment up to pages
  commutes with the split, because whole fragments are whole pages.
* A node's `bo` pointer is `parent_bo + i`; it is kept as the index `frag`.
* `headParent` is `parent_bo` of the first node, which `compute_create_context`
  never sets.  `Residues` says what `malloc` may have left there.  A second
  context of a process can find the `parent_bo` of a freed node in it.
* `status = "crashed"` stands for the end of the program by an access through
  NULL.
* `call` in `GpuBuffer` is the point reached between two ioctls or pool calls.
  The library takes no lock and its clients use a context from one thread, so
  calls do not overlap; what can happen between two steps is that an ioctl fails.
* The kernel (external) hands out the lowest free handle, refuses a mapping that
  leaves the VM or meets another one, may fail any create or map, and drops a
  handle's mapping when the handle is closed.

* In `HostCopy` a transfer begins at offset 0 of the object, as every transfer in
  the repository does.  `target` records for each byte the source byte it was
  copied from, so that a byte moved to the wrong place is told from a right one.
* In `Submission` a function of `ComputeInterface` is the sequence of the ioctls
  it issues; `call.todo` is what is left of it, and the GPU may finish work
  between any two.  A buffer stands for its fragments, which
  `compute_push_reloc` names together and `compute_bo_wait` waits for together.
  Copies move each chunk to the same place of another buffer, so the contents of
  one chunk are kept, chosen at the start; that is the general case because no
  chunk affects another.  A dispatch reads its code and writes its output.
  Caches, `raw_wait_flag` and the choice of engine are not modelled: the model
  says what the relocation lists and the waits order, not what a cache may hide.
* The kernel and the GPU (external): the submissions of a ring are executed in
  order, a submission waits for earlier ones that name one of its buffers,
  GEM_WAIT_IDLE returns when no submission in flight names the buffer, any ioctl
  may fail.
* In `Animation` a program is the number of the frame it computes.  The picture
  is read during the whole time that `at = "show"`.
* A machine word is the set of its bits that are one, so that a field that runs
  into its neighbour does what `|` does in the code.  The encoders are translated
  from `code_helper.h`, the formats from `sid.h`; nothing of one is used for the
  other, which is what makes reading back a check.  Where formats overlap, the one
  with the longest encoding is meant (external: the decoder of the hardware).
  `sid.h` names the first register of a file and not the others; the width of the
  field says how many there are.
* A program of `Kernels` is a sequence of encoder calls; float literals are all
  one value, and loops are unrolled `Unroll` times and run `Iterations` times,
  as the clients do it with their parameters `ii2` and `iternum`.
* `Wavefront` fetches what lies at `pc`, whatever the assembler meant.  Scalars
  have values where control depends on them; of a vector register it is known in
  which lanes it was written.  Memory instructions return in any order; a compare
  leaves any of the active lanes active.  The compute unit is external: what is
  assumed is that branches count words from the one behind them, `s_waitcnt` with
  zero counts waits for everything, and inactive lanes neither write nor store.
* In `DrmAuth` a call has one number, and its file, display and socket have the
  same.  Both ends are on one host, `INADDR_LOOPBACK`: a datagram is put into the
  queue of the socket that has the port or it is lost, and the queue goes with
  its socket.  The kernel gives magics that are unique among the open files of a
  device, and makes the first process that opens a device its master; only a
  master authenticates.  The daemon may die before any step, and may be started
  again, any number of times; `drmAuthMagic`, `drmGetMagic` and each query may fail.
  `DRM_RADEON_INFO` is refused to files that are not authenticated
  (`computesi.c:125`).  A port is free as soon as its socket is closed, whatever
  is still on its way to it.  A datagram records the call it goes back to (`of`): the
  properties need it, no action looks at it.  An `open` that fails changes nothing and
  is left out.

## Runs

| Run | Question | Bounds |
|---|---|---|
| `vmpool` | is first fit right for every order of calls, and does it implement `VaSpace`? | 3 objects, fragments of 2 pages, requests of 1 to 5 pages: one, two and three fragments, with full and partial last fragments, gaps before, between and behind; `VaBound` 12 leaves room for all three at once and for the upward creep |
| `vmpool_list` | do the links implement it? | 3 objects, 4 nodes, requests of up to 3 pages, so an array of two fragments lies between, before and behind others |
| `gpubuffer_fragments` | do failures leave objects, pool and kernel consistent; what may be in the way of a mapping; does the drain end? | 2 objects of up to 3 fragments, 5 handles, a VM of 6 pages: handles run out through leaks and the VM end is reached |
| `hostcopy` | are all bytes moved, each to its place, also when a mapping fails? | fragments of 3 bytes, objects of 1 to 10 and transfers of 0 to 10 bytes: every way the ends can lie to the fragment boundaries, up to four fragments |
| `submission` | do relocation lists and waits order what depends on each other, whichever ioctl fails? | 3 buffers (a chain of two copies), copies of 2 chunks (one that waits and one that does not), `MaxPending` 3, enough for a chunked copy and a launch or flush beside it |
| `submission_liveness` | does every function return? | 2 buffers |
| `animation` | is the double buffering right? | `IterNum` 4: each buffer is computed and shown again; `MaxPending` 4: launch and flush of two turns, for when waits fail |
| `assembler` | is what is written what was called for? | one call of each encoder with operands at their ends, flags one at a time, negative offsets; `launch` with 0, 1 and 16 words of user data, register counts and local memory at and around the units, and the four states the clients fill in; copies at and around 512 KB, at addresses with bits above 32, aligned and not.  Instructions are read one after another, so that two calls in a row show nothing that one does not, except a size, which `ReadsBack` compares with the end of the code |
| `wavefront` | do the programs do what they were written for? | all of them but `fma_test`; bodies unrolled twice, three passes: a first, a middle and a last one; two lanes, one of which may leave the loop before the other; only the number of equal passes grows with the parameters |
| `drm_auth` | is authentication right whatever the daemon and the network do; does every call return? | 2 calls, which overlap or follow each other, 2 devices, 2 magics and 2 ports.  `MCDrmAuthThree.cfg` has 3 calls, for the safety properties, with 74 million states: it takes longer than the rest together and is not among the runs |
| `hostcopy_assert`, `wavefront_fma` | expected violations, see Findings | as `hostcopy` and `wavefront` |

Seven further configurations show what is wrong in code that nothing in the
repository reaches with such arguments, or that contradicts no text of it.  TLC
finds the named property violated: `MCAssemblerCompare.cfg` and
`MCAssemblerJump.cfg` (`ReadsBack`), `MCWavefrontDivide16.cfg` (`IndexIsComputed`),
`MCWavefrontReads.cfg` (`RunsAsReported`), `MCVmPoolResidue.cfg` (`ParentIsMain`),
`MCAssemblerTail.cfg` (`CopyMovesAll`: the last bytes of an asynchronous copy),
`MCDrmAuthStale.cfg` (`AnswersAreOwn`: a late answer for a socket that is closed reaches
the next one that gets its port).

`VaBound` is a bound on addresses inside `compute_pool_alloc`: the pool's own
addresses are not bounded by the code, and because a gap must be larger than the
request they creep upward without end.  In `GpuBuffer` the bound never takes
effect: `VmPages + MaxPages <= VaBound` and the kernel refuses what ends above
`VmPages`.

What the runs show:

* `Disjoint`, `FragmentsContiguous`, `FirstIsMain` and `ImplementsVaSpace` hold
  for first fit with its strict comparison and the rule that objects of several
  fragments always go to the tail.
* `DoublyLinked` and `NothingLost` hold after every call, including
  the removal of adjacent nodes in one walk, and `ImplementsVmPool` shows that
  walking the links is the same as working on the ordered set.
* `MappedWhereSaid`, `PoolMatchesObjects` and `HandlesNotShared` hold whichever
  ioctl fails.
* `OnlyTailsLeak` says how far the accounting of handles goes: freeing an object
  or failing to map it closes the main fragment's handle only, so handles of the
  other fragments stay open, and mapped, until the device is closed.
  `OnlyTailsDoubleMap` says that nothing else ever does harm: a mapping the kernel
  refuses as a double one meets a leaked fragment behind the first of its object,
  so that with objects of one fragment pool and page tables agree on what is free.
* `DrainEnds`: `compute_free_context` terminates.  Fairness is weak fairness of
  `Step`, the steps of a function that is running: a thread inside the library
  keeps executing.  No fairness is assumed of the application, which need not
  call anything, nor of the outcome of an ioctl.

* `IdleIsSequential`: with two rings and calls that return before the work is
  done, what is idle holds what the calls in their order would have left there.
* `SyncCopyLeavesIdle` holds also when chunks are rejected, because the waits do
  not depend on the result of the submission; `SyncCopyIsComplete` says that the
  wait of the last chunk covers the earlier ones.
* `WaitBufferIsBarrier`: waiting for one buffer after the flush waits for
  everything submitted before, because the flush names every buffer of the pool.
* `CallsReturn`: fairness is weak fairness of `Accept \/ WaitIdle`, the progress of
  the running function when the kernel lets it pass, and of `Finish`, the GPU.  A
  GPU that hangs is not modelled: the kernel resets it, and its waits then fail.
  Nothing is assumed about the application, nor about failures.
* `ShowsPreviousFrame`, `CodeIsNotOverwrittenInUse` and `FreesWhenIdle` say why one
  wait for the program per turn is enough for three buffers: the launch of the
  turn before names both the program and the picture that is shown now.  They
  hold as long as no wait fails; a failed wait goes unnoticed in the code, and
  the properties then promise nothing.  `AnimationEnds` adds weak fairness of the
  client's own steps.
* `MovesWhatFits` and `FailureLeavesPrefix` cover both directions of a transfer.
* `ReadsBack`: every encoder writes an instruction of the length, opcode and
  operands called for, for all operands the repository uses.  Three compares are
  right for register 0 only, see Findings.
* `DescriptorReadsBack`: the packed bit-fields are the layout of the hardware.
* `DispatchReadsBack`: the packets of a dispatch are well formed to the last word,
  set what was asked for, flush before the start, and the start is the last.
* `CopyReadsBack`: the chunks cover the range without gap or overlap, with counts
  that fit the field of either engine, and nothing is lost but what `LeftOut` says:
  `compute_send_async_dma_req` counts dwords when both addresses are aligned, so
  the last `size % 4` bytes are not copied and of the last chunk nothing may be
  left.  `CopySizes` has such sizes, and the model makes every call with them.
* `FetchesInstructions`, `ReadsOnlyWritten`, `WaitsForMemory`, `WithinAllocation`,
  `StoresByTheRightLanes` and `IndexIsComputed` hold for the programs as they are
  assembled, for every order in which memory answers and every way lanes leave a
  loop.  In `main.cpp` the branch leads one word behind the label, which there is
  the second of many equal instructions.
* `Terminates` assumes that the compute unit goes on and memory answers.
* `AuthenticatesOneFile`: a request authenticates no more than one file, of the device
  it was for.  A late request can meet a later file that was given the same magic,
  but only after the file it was sent for is closed.
* `AckIsTrue`, in `MCDrmAuthThree.cfg` and proved as `AckTrue`: an ACK means that the
  file of the call it answers has been authenticated, if that file is still open,
  however late the ACK is and whoever has the magic or the port of an earlier call
  by then.  It does not say that a call gets its own answer, which the code does
  not ensure (`AnswersAreOwn`); since `authWithLocalMaster` does not look at the
  answer and the file is probed again, an answer of another call ends the wait and
  does nothing else.
* `ReturnsAsPromised`: a context is authenticated, and refused calls close what
  they opened.  The exceptions are in the formula, because the code makes them: a
  ring that is not working and the descriptor 0 leave everything open, a failed
  `sendto` leaves the socket open.
* `CreateReturns`: fairness is weak fairness of the steps of a call that runs; the
  wait for the answer ends by `SO_RCVTIMEO`.  Nothing is assumed of the daemon.

`CHECK_DEADLOCK FALSE` is used for the pool modules, where a crash ends the
program, for `HostCopy`, which is one call, and for `Assembler`, which ends at its
bound of calls.  `GpuBuffer` and `Animation` have the action `Ended` and `Wavefront`
has `Done` for that, and deadlock is checked: a wave that runs into words it
cannot execute is a deadlock.  In `DrmAuth` the daemon can always die or start.

## Proofs

The theorems hold for every value of the constants that satisfies the named
assumptions of the modules; none is made on the order of calls.

| Module | Theorems (property of a run) | Assumptions |
|---|---|---|
| `VmPoolProofs` | `PoolTypeCorrect` (`PoolTypeOK`), `NoOverlap` (`Disjoint`), `Contiguous` (`FragmentsContiguous`), `DrainFreesWholeArrays` (`FirstIsMain`), `PoolRefinement` (`ImplementsVaSpace`) | those named in `VmPool`: `FragPages` positive, `Reserved`, `MaxPages`, `VaBound` natural, `NullBo` no object, `Residues` objects or `NullBo` |
| `VmPoolListProofs` | `ListDoublyLinked` (`DoublyLinked`), `ListNothingLost` (`NothingLost`), `ListRefinesPool` (`ImplementsVmPool`), `ListKeepsPoolPromises` | those of `VmPool`, stated again in `VmPoolList`, and that `Origin` and `Null` are not among the addresses malloc returns; `Addr` may be infinite |
| `GpuBufferProofs` | `BufferTypeCorrect` (`TypeOK`), `MappingsAgree` (`MappedWhereSaid`), `PoolHasTheObjects` (`PoolMatchesObjects`), `HandlesHaveOneOwner` (`HandlesNotShared`), `LeaksAreTails` (`OnlyTailsLeak`), `DoubleMapsAreTails` (`OnlyTailsDoubleMap`) | those of `VmPool`, `MaxHandle` positive, `VmPages` natural and at most `VaBound - MaxPages` |
| `HostCopyProofs` | `FittingTransfersAreExact` (`MovesWhatFits`), `ErrorsLeaveWholeFragments` (`FailureLeavesPrefix`) | positive fragment size and bound on sizes |
| `SubmissionProofs` | `IdleSequential` (`IdleIsSequential`), `SyncCopyIdle` (`SyncCopyLeavesIdle`), `SyncCopyComplete` (`SyncCopyIsComplete`), `WaitBufferBarrier` (`WaitBufferIsBarrier`) | `Chunks` positive, `MaxPending` natural |
| `AnimationProofs` | `PreviousFrameIsShown` (`ShowsPreviousFrame`), `CodeIsAtRest` (`CodeIsNotOverwrittenInUse`), `FreedAtRest` (`FreesWhenIdle`) | `IterNum` natural |
| `AssemblerProofs` | `InstructionsReadBack` (`ReadsBack`), `ResourcesReadBack` (`DescriptorReadsBack`), `DispatchesReadBack` (`DispatchReadsBack`), `CopiesReadBack` (`CopyReadsBack`) | `OperandsAreNamed`: registers and sources are codes of `sid.h`; `AddressesAreVirtual`: addresses of at most 48 bits for resources and 40 for copies; `ArgumentsFit`: see below; for `InstructionsReadBack` alone, `CompareVgprs \subseteq {0}` and `JumpOffsets \subseteq Immediate`, which `MCAssemblerCompare.cfg` and `MCAssemblerJump.cfg` show to be needed |
| `DrmAuthProofs` | `Returns` (`ReturnsAsPromised`), `MagicIsUnique`, `AckTrue`, `OneFileAuthenticated` (`AuthenticatesOneFile`) | `None` is no magic, `MaxCalls` natural |

**VmPool.**  The inductive invariant `PoolInv` adds two facts to the shapes and
`Disjoint`: `AboveReserved` (needed because the first node must be the lowest), and
`WholeBlocks`: the nodes of each live array are exactly `Fragments(b, base, w)`
for some `base` and `w`.  `Disjoint` alone is not inductive for arrays of several
fragments, and contiguity speaks of pairs of nodes that only `WholeBlocks` ties
to one request.  The argument:

1. Arithmetic (`FragmentNumBounds`, `FragmentBounds`, `FragmentsApart`,
   `PageCovered`): the fragments of a request are non-empty, follow each other,
   cover the request and end with it.
2. `AllocatesFreeRange`: both ways of placing a request, the first large enough
   gap and the tail, find a base whose `w` pages meet no node.
3. `AllocKeepsInvariant` and `FreeKeepsInvariant`, from which `PoolInvariance`.
4. For the refinement, `IntervalOfBlock` computes the interval of an array, and
   `FreeRangeMeetsNoBlock` lifts freedom from nodes to intervals: if the new range
   met an interval, the page where they meet would lie in a node of it.

**VmPoolList.**  `DoublyLinked` is not inductive: whether a node is reached, and
in which order, depends on the addresses.  `Sound` adds that the heap is finite,
that a node begins where its predecessor ends, or later, and that the first node
is as it was made.  The argument:

1. `LinkSound` and `UnlinkSound`: the assignments for one node keep `Sound`, and
   change nothing of the other nodes but their links.
2. `WalkVisitsAll`: the walk visits every node once, in the order of the addresses,
   and ends at NULL.  A node that is not reached would have a predecessor at a lower
   address that is not reached either (`LeastElement`); a walk that does not end
   would visit more nodes than there are (`FS_PigeonHole`).
3. The heap after each turn of the two loops is a recursive function, and the
   provers know nothing of it but that it is chosen to obey its equation:
   `HopEquation`, `LinkedEquation` and `UnlinkedEquation` show that such a function
   exists, by `SetInduction`.  `LinkedSound` and `UnlinkedSound` are inductions over the
   turns.
4. For the refinement, `LinksAreOrder` turns the questions `VmPool` asks about
   addresses (`IsNext`, `IsLast`) into questions about `next`, and the lemmas of each
   call compare the nodes before and after.
5. `ListKeepsPoolPromises` instantiates `VmPoolProofs` with the nodes on the list;
   `SamePool` says that this instance of `VmPool` is the one refined.

**GpuBuffer.**  The properties speak of the moments between two calls, or of one
ioctl; `BufferInv` says what is true at every point of a call.  While the program
runs, `PoolInv` holds (the pool's lemmas carry over), `Complete` counts the
handles an object has so far, `HandlesOpen` says that each is open and was made
for its fragment, `NotYetMapped` that nothing is mapped before it has an address,
`PlacedWhereSaid` that a placed object has all its nodes and each handle is
mapped there or, during `compute_vm_map`, not at all, and `OnlyPlacedAreLive` that
the pool holds the nodes of the placed objects and no others.  `Unplaced` is the
point of it: an object that is being created or closed, or one that is being
freed because its mapping failed, has no nodes, and `va = 0` is how
`compute_free_gpu_buffer` knows.  After a crash or `close` only the shapes and
`HandlesNotShared` remain.  There is one lemma per step; `UnplacingKeepsInvariant`
serves both ways out of the pool, and `NextHandleIsFree` shows by induction that
the kernel's lowest free number exists.  `DoubleMapsAreTails` then follows from
`Disjoint`: an owned handle that is mapped lies on its own node, and the range
about to be mapped on another one.

**Submission.**  `IdleIsSequential` compares two memories.  The invariant
`PendingLeadsToMeant` says that the jobs in flight, executed in the order in which
they were submitted, lead from what the buffers hold to what they are meant to
hold; the intermediate contents are a function `h` (`IsReplay`), so that no
recursion is needed.  `FinishingShortens` is the heart: a job that may finish
commutes with the earlier ones, which name none of its buffers
(`DisjointJobsCommute`), so that `h` can be rebuilt without it, by induction over
its length.  A job leaves alone what it does not name, so an idle buffer holds the
same in `mem` and `meant`.  `SyncCopyProgress` and `WaitBufferProgress` say what a
function has reached by the number of ioctls it has left, whichever of them
failed.

**Animation.**  It holds an instance of `Submission`, whose theorems cannot be
cited for it, but needs only a little of them: `TurnInv` says for each place of
the loop what can be in flight as long as no wait has failed, which is never more
than the launch of the frame or the flush of its turn, and (`Pictures`) what the
three buffers hold as long as no transfer has failed either.  Waiting for the
program is enough because the launch names both it and the picture.

**HostCopy.**  `IInv` ties `start` to the loop counter, `start = Lesser(i *
FragBytes, size)`, and says that the bytes before `start` have been copied; without
the first part the place a fragment's bytes come from and the place they go to
could drift apart, and the end of the loop would not imply the end of the
transfer.  `TurnArithmetic`, `LoopEndsAtSize` and `CopyExtendsPrefix` are the
arithmetic of one turn, of the end and of the copied prefix.

**DrmAuth.**  `Holds` says what a call has open at each of its steps, and gives
`Returns` by itself.  For the other two, `MailIsTrue` says of every datagram on its
way or being served what it means for the call it goes back to: a request has that
call's device and, while its file is open, its magic; an ACK means that the file is
authenticated or closed.  This holds on because a call that has sent its request
keeps its device, and its magic until it closes the file (`SendersKeep`).
`ChosenFile` then needs `MagicUnique`, because the daemon names a file by device and
magic only.  Nothing is assumed of ports.

**Assembler.**  The runs read back what is written for operands at their ends; the
theorems say it for every register and source `sid.h` names, every branch, address,
size and launch, and any number of calls.  A word is a set of bits and a field a number, so
everything rests on two groups of lemmas: the number a set of bits makes and the
bits of a number are inverse (by induction over the bits: `Number` and `Word` are
recursive functions), and a number put at a place is read from there whatever the
other fields hold, as long as it fits and they do not reach into it.

* `InstructionsReadBack`.  `ReadsBack` speaks of the code as it is; `InTurn` adds
  that every instruction ends within the words there are, because only then does
  what is appended leave the earlier ones as they read (`Extended`).  Which format a
  word is of follows from the number of its nine highest bits; there is one lemma for
  each format, one for each encoder that is not of a common form, and one for
  each action.
* `CopiesReadBack`.  The pieces end with the size and each is at most
  `fragmentSize` (`Pieces` and `CurSize`), and `fragmentSize` is a multiple of four, so that
  only the last can have bytes behind its last dword; the sums `MovedBefore` computes are the
  places where the pieces begin, by induction.  An address does not carry over into
  its high part (`AddressesAreVirtual`), so that the two words of a request hold all
  its bits.
* `ResourcesReadBack`.  The members of the struct lie one behind the other; a
  member and a field of the register with the same bits hold the same number.
* `DispatchesReadBack`.  The commands of a dispatch are a sequence of packets
  (`IsCommands`), each with a header that counts it; reading their concatenation
  packet by packet gives them back, by induction from the end (`PacketsAt`).  Each
  register is in the range of one packet only, so that `CHOOSE` in the property has
  one value to choose (`Setters`), and that value is what `Settings` puts there
  (`IsSet`).  The start is among the last two packets (`StartsAtLast`).  Rounding of
  registers and local memory is the arithmetic of `Rounds`.

`ArgumentsFit` is what `launch` asserts of its arguments, and beyond it what nothing
in the code checks: dimensions are not negative as an int, a work group has at most
65535 items in each direction (the mask of `NUM_THREAD_FULL` cuts off the rest), code
begins on a page, and the members of a `compute_state` that a client fills in itself
fit their fields.

**Induction.**  The provers cannot apply an induction rule that takes a predicate.
`SetInduction`, `BoundedInduction` and `LeastElement`, the first lemmas of the modules
that need them, state it for a set, and a proof instantiates them with the set of the
numbers for which its formula holds.

Only model-checked: all liveness properties (`DrainEnds`, `CallsReturn`,
`AnimationEnds`, `CreateReturns`, `Terminates`), which need ENABLED; and the six
invariants of `Wavefront`, which run given programs word by word.  What they say
depends on every word of a program, and a proof of them would be the execution of
each program with symbols for what TLC enumerates, the lanes that go on and the
order in which memory answers; with its two lanes, one of which may leave a loop
before the other, and three passes, TLC covers the cases such a proof would have.

## Findings

* `assert(start_gpu = size)` (`computesi.c:1104`, 1192) assigns instead of
  comparing.  Run `hostcopy_assert`: a transfer larger than an object whose last
  fragment is full returns 0 although its end was not copied.  The assertion stops
  the program only for transfers of 0 bytes.

* `fma_test.cpp:179` closes its loop with the offset `eleje-p`, `eleje` being the
  first word of the body.  The branch leads one word behind it, into the second
  word of `v_fma_f32`.  Run `wavefront_fma`.  `mandelbrot.cpp:216` has the offset
  with the `-1` and the comment `goto eleje`, `read_test.cpp:224` takes `p-1` as
  `eleje`.

Met while modelling, and not stated as findings because no text of the repository
promises otherwise or nothing reaches them:

* `v_cmp_lt_f32`, `v_cmpx_lt_f32` and `v_cmp_gt_f32` (`code_helper.h:614`, 627, 640) shift
  `vsrc1` by 8; the field begins at bit 9 (`sid.h:2331`).  `v_cmpx_gt_f32` is right.
* `s_jump` (`code_helper.h:379`) does not cut a negative offset to 16 bits.
* `generateTempCode` (`divide_precision.cpp:96`) loads 16 bytes into v4 to v7 although v7
  is the index of the store; it copies a binary of any size into 1024 words (153),
  and sizes elements of the result by the type of the operands (33).
* `read_test.cpp` and `write_test.cpp` report `iternum` passes of a loop that makes one
  more (436): the branch goes back as long as `iternum` is not less than the
  counter, which was advanced before.
* `parent_bo` of the first node is never assigned (`computesi.c:223`), although
  `computesi.h:35` calls the field the main fragment.  With the address of a later
  object left in it, `compute_pool_free` dereferences the NULL `prev` of that node.
* `compute_send_async_dma_req` writes `size/4` as the count when both addresses are
  multiples of four (`computesi.c:574`), and nothing there or in `asyncDMACopy` asks
  for a size that is one: the last one to three bytes are not copied.  The only
  call, `mandelbrot.cpp:462`, copies `mx*my*sizeof(uchar4)` bytes.
* `authWithLocalMaster` takes any datagram for its answer (`ati_chip.cpp:207`): a late
  one to a port that was given out again ends the wait of another call, which
  may then find its file not yet authenticated and opens the display instead.
* The relocation arrays of copies and flushes are never freed
  (`computesi.c:617`, for example).
* `animationZoom` launches `mx/256` groups in a row (`mandelbrot.cpp:338`), so that the
  last columns of a width that is no multiple of 256 are not computed.

## Not modelled

* The manual clocking patch: it shows fragments of kernel functions, and what
  surrounds them, which locks are held and which states exist, is not in the
  repository.  Its two hazards are listed without a property.
* Device enumeration: one sequential scan of strings that udev and libpciaccess
  return.  Its result enters `DrmAuth` as `Device`.
* The registers of the graphics pipeline in `sid.h`, the list of PCI ids and the ABI
  stub: data that no modelled code uses.
* The host side of the test clients beyond the states they submit, printing and
  statistics, and the values floating-point instructions compute.
* `compute_send_dma_fence`'s packet and the chunk headers of the submission ioctl.
* Requests of zero bytes: no client makes one, and `compute_pool_alloc` asserts
  against them.  Transfers that begin inside an object: no caller makes them, and
  what GEM_MMAP does with an offset is the kernel's.

## Plan

1. Proofs for `Wavefront`: with `InstructionsReadBack`, the invariants could be stated
   of the calls of a program instead of its words, and proved for programs of a
   given form.
2. Relocation lists from the pool: `compute_create_reloc_table` over the nodes of
   `VmPool`, so that an object that is freed or allocated between two submissions
   changes what a flush names; kernel references of submissions to closed handles.
