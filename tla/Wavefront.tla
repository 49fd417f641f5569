----------------------------- MODULE Wavefront -----------------------------
(***************************************************************************)
(* One wave of a compute unit runs a program of Kernels, word by word: the *)
(* compute unit fetches what lies at pc, whatever the assembler meant.     *)
(* Scalar registers have their values where the control flow needs them,   *)
(* of a vector register it is known for which lanes it was written.        *)
(* Loads and stores are under way until they return, in any order.         *)
(***************************************************************************)
EXTENDS Kernels, TLC

CONSTANTS
  Programs,   \* names of the programs to run
  Lanes       \* the lanes of the wave that are told apart, of the low half

VARIABLES
  kernel,       \* the code in memory, what its words mean, and what the dispatch gave the wave
  pc, scc, ended,
  scalars,      \* register -> value, of the scalar registers that hold one
  vectors,      \* <<register, lane>> of the vector registers that hold a value
  loaded,       \* vector registers whose value came from memory
  outstanding   \* memory instructions under way: registers they write and read

vars == <<kernel, pc, scc, ended, scalars, vectors, loaded, outstanding>>

ExecLo == 126
Unknown == {32}

\* A wave of the program that ran the calls: decoded says what the words at every
\* position mean, boundaries where the assembler began an instruction.
Dispatched(k) ==
  [words |-> k.code, decoded |-> [i \in DOMAIN k.code |-> Decode(k.code, i)],
   boundaries |-> {1 + Words(SubSeq(k.calls, 1, n - 1)) : n \in DOMAIN k.calls},
   user |-> k.user, registers |-> k.registers, index |-> k.index]

InCode == ~ended /\ pc \in DOMAIN kernel.words
I == kernel.decoded[pc]
Active == scalars[ExecLo] \cap Lanes

-----------------------------------------------------------------------------
(* The registers of an instruction.                                        *)

DoubleOps == {<<"SOP1", 4>>, <<"SOP2", 15>>, <<"VOP1", 47>>, <<"VOP1", 52>>, <<"VOP3", 332>>, <<"VOP3", 357>>}
Width(i) == IF <<i.format, i.op>> \in DoubleOps THEN 2 ELSE 1

Registers(file, first, count) == {<<file, first + k>> : k \in 0 .. count - 1}

\* Operand codes: scalar registers below 128, vector registers from 256 on.
Operands(c, count) ==
  IF c >= 256 THEN Registers("v", c - 256, count)
  ELSE IF c < 128 THEN Registers("s", c, count) ELSE {}

Buffer == {"MTBUF", "MUBUF"}

\* How many registers a buffer instruction moves, and which way.
Moved(i) ==
  IF i.format = "MTBUF" THEN (i.op % 4) + 1
  ELSE CASE i.op \in {13, 29} -> 2 [] i.op \in {14, 30} -> 4 [] OTHER -> 1
FromMemory(i) == IF i.format = "MTBUF" THEN i.op < 4 ELSE i.op < 16 \/ (i.op >= 48 /\ i.operand.GLC = 1)
ToMemory(i) == IF i.format = "MTBUF" THEN i.op >= 4 ELSE i.op >= 24
Indexed(i) == i.operand.IDXEN = 1 \/ i.operand.OFFEN = 1
Data(i) == Registers("v", i.operand.VDATA, Moved(i))

Sources(i) ==
  UNION {Operands(i.operand[n], Width(i)) :
           n \in DOMAIN i.operand \cap {"SRC0", "SRC1", "SRC2", "SSRC0", "SSRC1", "SOFFSET"}}
  \cup (IF "VSRC1" \in DOMAIN i.operand THEN Registers("v", i.operand.VSRC1, 1) ELSE {})

Reads(i) ==
  Sources(i) \cup
  (IF i.format \in Buffer
   THEN Registers("s", 4 * i.operand.SRSRC, 4)
        \cup (IF Indexed(i) THEN Registers("v", i.operand.VADDR, 1) ELSE {})
        \cup (IF ToMemory(i) THEN Data(i) ELSE {})
   ELSE {})

Writes(i) ==
  IF i.format \in Buffer THEN (IF FromMemory(i) THEN Data(i) ELSE {})
  ELSE IF i.format = "SMRD" THEN Registers("s", i.operand.SDST, 2)
  ELSE (IF "SDST" \in DOMAIN i.operand THEN Registers("s", i.operand.SDST, Width(i)) ELSE {})
       \cup (IF "VDST" \in DOMAIN i.operand THEN Registers("v", i.operand.VDST, Width(i)) ELSE {})

-----------------------------------------------------------------------------
(* The instructions.                                                       *)

Is(format, ops) == InCode /\ I.format = format /\ I.op \in ops

GoOn == pc' = pc + I.size

\* The value of a scalar operand: register, inline integer or literal.
Value(c) ==
  CASE c \in DOMAIN scalars -> scalars[c]
    [] c \in 128 .. 192 -> Word(c - 128)
    [] c = Literal -> kernel.words[pc + 1]
    [] OTHER -> Unknown

SetScalars(values) == scalars' = values @@ scalars

s_mov ==
  /\ Is("SOP1", {3, 4})
  /\ SetScalars([r \in I.operand.SDST .. I.operand.SDST + Width(I) - 1 |->
                   Value(I.operand.SSRC0 + r - I.operand.SDST)])
  /\ GoOn /\ UNCHANGED <<kernel, scc, ended, vectors, loaded, outstanding>>

s_add ==
  /\ Is("SOP2", {2})
  /\ SetScalars(I.operand.SDST :>
                  Word(Number(Value(I.operand.SSRC0)) + Number(Value(I.operand.SSRC1))))
  /\ GoOn /\ UNCHANGED <<kernel, scc, ended, vectors, loaded, outstanding>>

s_cmp_lt ==
  /\ Is("SOPC", {4})
  /\ scc' = (Number(Value(I.operand.SSRC0)) < Number(Value(I.operand.SSRC1)))
  /\ GoOn /\ UNCHANGED <<kernel, ended, scalars, vectors, loaded, outstanding>>

s_getreg ==
  /\ Is("SOPK", {18})
  /\ SetScalars(I.operand.SDST :> Unknown)
  /\ GoOn /\ UNCHANGED <<kernel, scc, ended, vectors, loaded, outstanding>>

s_nop_ ==
  /\ Is("SOPP", {0})
  /\ GoOn /\ UNCHANGED <<kernel, scc, ended, scalars, vectors, loaded, outstanding>>

\* All counts of the argument are zero: nothing may be under way.
s_waitcnt_ ==
  /\ Is("SOPP", {12})
  /\ outstanding = {}
  /\ GoOn /\ UNCHANGED <<kernel, scc, ended, scalars, vectors, loaded, outstanding>>

\* The offset counts words from the instruction that follows the branch.
Target == pc + 1 + (IF I.operand.SIMM16 < 32768 THEN I.operand.SIMM16 ELSE I.operand.SIMM16 - 65536)

s_cbranch ==
  /\ Is("SOPP", {4, 8})
  /\ pc' = IF (I.op = 4 /\ ~scc) \/ (I.op = 8 /\ Active = {}) THEN Target ELSE pc + 1
  /\ UNCHANGED <<kernel, scc, ended, scalars, vectors, loaded, outstanding>>

s_endpgm_ ==
  /\ Is("SOPP", {1})
  /\ ended' = TRUE
  /\ UNCHANGED <<kernel, pc, scc, scalars, vectors, loaded, outstanding>>

VectorAlu ==
  /\ InCode /\ I.format \in {"VOP1", "VOP2", "VOP3"} /\ I.named
  /\ vectors' = vectors \cup ({r[2] : r \in Writes(I)} \X Active)
  /\ loaded' = loaded \ {r[2] : r \in Writes(I)}
  /\ GoOn /\ UNCHANGED <<kernel, scc, ended, scalars, outstanding>>

\* Each active lane compares its own values; the others become inactive.
v_cmpx ==
  /\ Is("VOPC", {17, 20})
  /\ \E s \in SUBSET Active : SetScalars(ExecLo :> s)
  /\ GoOn /\ UNCHANGED <<kernel, scc, ended, vectors, loaded, outstanding>>

\* A load, store or atomic of the active lanes, or s_memtime, begins.
MemoryIssue ==
  /\ InCode /\ I.format \in Buffer \cup {"SMRD"}
  /\ outstanding' = outstanding \cup
       {[at |-> pc, writes |-> Writes(I), lanes |-> Active,
         reads |-> IF I.format \in Buffer /\ ToMemory(I) THEN Data(I) ELSE {}]}
  /\ GoOn /\ UNCHANGED <<kernel, scc, ended, scalars, vectors, loaded>>

MemoryReturns ==
  \E m \in outstanding :
    LET arrived(file) == {r[2] : r \in {x \in m.writes : x[1] = file}}
    IN  /\ outstanding' = outstanding \ {m}
        /\ SetScalars([r \in arrived("s") |-> Unknown])
        /\ vectors' = vectors \cup (arrived("v") \X m.lanes)
        /\ loaded' = loaded \cup arrived("v")
        /\ UNCHANGED <<kernel, pc, scc, ended>>

\* Registers at the launch: user data, the three ids and the size of the work
\* group behind them, and one thread id, as COMPUTE_PGM_RSRC2 asks for them.
Init ==
  /\ \E program \in Programs : kernel = Dispatched(KernelOf[program])
  /\ pc = 1 /\ scc = FALSE /\ ended = FALSE
  /\ scalars = [r \in 0 .. kernel.user + 3 |-> Unknown] @@ [r \in 126 .. 127 |-> Word(-1)]
  /\ vectors = {0} \X Lanes
  /\ loaded = {} /\ outstanding = {}

Execute ==
  \/ s_mov \/ s_add \/ s_cmp_lt \/ s_getreg \/ s_nop_ \/ s_waitcnt_ \/ s_cbranch \/ s_endpgm_
  \/ VectorAlu \/ v_cmpx \/ MemoryIssue

\* A wave that has ended stays so: every other state without a step is a wave that hangs.
Done == ended /\ outstanding = {} /\ UNCHANGED vars

Next == Execute \/ MemoryReturns \/ Done

\* The compute unit goes on executing, and memory answers.
Fairness == WF_vars(Execute) /\ WF_vars(MemoryReturns)

Spec == Init /\ [][Next]_vars /\ Fairness

-----------------------------------------------------------------------------
(* Properties.                                                             *)

\* Every fetch is at the begin of an instruction the assembler wrote: no branch
\* leads into the second word of one or into a literal, and none out of the code.
FetchesInstructions == pc \in kernel.boundaries /\ I.named

\* A register is read only after it was written, in every lane that reads it,
\* whichever way the loop went and whichever lanes it switched off.
ReadsOnlyWritten ==
  InCode =>
    \A r \in Reads(I) :
      IF r[1] = "s" THEN r[2] \in DOMAIN scalars
      ELSE \A lane \in Active : <<r[2], lane>> \in vectors

\* No instruction touches a register a load is still going to write, nor
\* overwrites one whose value a store may not have read yet.
WaitsForMemory ==
  InCode =>
    \A m \in outstanding :
      /\ (Reads(I) \cup Writes(I)) \cap m.writes = {}
      /\ Writes(I) \cap m.reads = {}

\* The registers the program uses are within what the dispatch allocates for a wave.
\* The trap registers (from 106 on), EXEC and M0 are not part of the allocation.
WithinAllocation ==
  InCode =>
    \A r \in Reads(I) \cup Writes(I) :
      IF r[1] = "s" THEN r[2] < kernel.registers.sgprs \/ r[2] >= 106
      ELSE r[2] < kernel.registers.vgprs

\* An element of the thread's own is stored by every lane, although a loop has
\* switched lanes off; a slot of the log is taken and filled by lane 0 alone,
\* otherwise the counter would advance by 7 for every lane.
StoresByTheRightLanes ==
  InCode /\ I.format \in Buffer /\ ToMemory(I) =>
    Active = IF Indexed(I) /\ I.operand.VADDR \in kernel.index THEN Lanes ELSE {0}

\* divide_precision.cpp:62: v7 is the global id; it addresses both loads and the store.
IndexIsComputed ==
  InCode /\ I.format \in Buffer /\ I.operand.VADDR \in kernel.index =>
    I.operand.VADDR \notin loaded

\* The clients report Iterations passes of the loop; s8 is the number of the pass.
RunsAsReported ==
  InCode /\ I.format = "SOPC" => Number(scalars[8]) <= Iterations

\* Every wave ends and nothing of it is left under way.
Terminates == <>(ended /\ outstanding = {})
=============================================================================
