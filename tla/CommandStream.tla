--------------------------- MODULE CommandStream ---------------------------
(***************************************************************************)
(* The commands of a submission: the PM4 packets computesi.c writes into   *)
(* buf for the compute ring, the packets of the DMA ring, and how the      *)
(* header fields of sid.h say they are read.  A word is the set of its     *)
(* bits that are one; a virtual address is [high, low], where high holds   *)
(* its bits from 31 on and low is below 2^31 and never carries over.       *)
(***************************************************************************)
EXTENDS SqFormats, SequencesExt

\* ((x) & mask) << shift and ((w) >> shift) & mask, of a field at [shift, width].
Put(field, x) == {b + field.shift : b \in Word(x) \cap 0 .. field.width - 1}
Get(field, word) == Number({b - field.shift : b \in word \cap field.shift .. field.shift + field.width - 1})
Field(shift, width) == [shift |-> shift, width |-> width]

VaBits(va) == Word(va.low) \cup va.high
LowWord(va) == VaBits(va) \cap Bit
Shifted(va, n) == {b - n : b \in {c \in VaBits(va) : c >= n}}

-----------------------------------------------------------------------------
(* sid.h: packets and registers.                                           *)

Packet == [opcode |-> Field(8, 8), count |-> Field(16, 14), shaderType |-> Field(1, 1), type |-> Field(30, 2)]
Opcodes == [CP_DMA |-> \h41, SURFACE_SYNC |-> \h43, SET_SH_REG |-> \h76]

\* PKT3C, with the shader type of the compute ring.
PKT3C(op, count) ==
  Put(Packet.type, 3) \cup Put(Packet.count, count) \cup Put(Packet.opcode, op) \cup Put(Packet.shaderType, 1)

ShReg == [begin |-> \hB000, end |-> \hC000]

Register ==
  [COMPUTE_DISPATCH_INITIATOR |-> \hB800,
   COMPUTE_DIM |-> <<\hB804, \hB808, \hB80C>>, COMPUTE_START |-> <<\hB810, \hB814, \hB818>>,
   COMPUTE_NUM_THREAD |-> <<\hB81C, \hB820, \hB824>>, COMPUTE_MAX_WAVE_ID |-> \hB82C,
   COMPUTE_PGM_LO |-> \hB830, COMPUTE_PGM_HI |-> \hB834, COMPUTE_PGM_RSRC1 |-> \hB848,
   COMPUTE_PGM_RSRC2 |-> \hB84C, COMPUTE_RESOURCE_LIMITS |-> \hB854,
   COMPUTE_STATIC_THREAD_MGMT |-> <<\hB858, \hB85C>>, COMPUTE_USER_DATA_0 |-> \hB900]

NUM_THREAD_FULL == Field(0, 16)
MAX_WAVE_ID == Field(0, 12)
PGM_RSRC1 == [VGPRS |-> Field(0, 6), SGPRS |-> Field(6, 4), IEEE_MODE |-> Field(23, 1)]
PGM_RSRC2 ==
  [USER_SGPR |-> Field(1, 5), TRAP_EN |-> Field(6, 1), TGID_X_EN |-> Field(7, 1), TGID_Y_EN |-> Field(8, 1),
   TGID_Z_EN |-> Field(9, 1), TG_SIZE_EN |-> Field(10, 1), LDS_SIZE |-> Field(15, 9)]
TG_PER_CU == Field(12, 4)
SH_CU_EN == <<Field(0, 16), Field(16, 16)>>
COMPUTE_SHADER_EN == Field(0, 1)

\* TCL1, TC, SH_KCACHE and SH_ICACHE.
ActionEnables == {22, 23, 27, 29}

-----------------------------------------------------------------------------
(* The compute ring.                                                        *)

set_compute_reg(reg, val) == <<PKT3C(Opcodes.SET_SH_REG, 1), Word((reg - ShReg.begin) \div 4), val>>

SurfaceSync == <<PKT3C(Opcodes.SURFACE_SYNC, 3), ActionEnables, Word(-1), {}, Word(10)>>

compute_flush_caches == SurfaceSync

\* Fault: the header counts the values and not the offset before them.
UserDataCountingValues(user_data) ==
  IF user_data = <<>> THEN <<>>
  ELSE << <<PKT3C(Opcodes.SET_SH_REG, Len(user_data) - 1),
            Word((Register.COMPUTE_USER_DATA_0 - ShReg.begin) \div 4)>> \o user_data >>

\* One packet, or none.
UserData(user_data) ==
  IF user_data = <<>> THEN <<>>
  ELSE << <<PKT3C(Opcodes.SET_SH_REG, Len(user_data)),
            Word((Register.COMPUTE_USER_DATA_0 - ShReg.begin) \div 4)>> \o user_data >>

\* The registers that are set one by one, and to what; fields every caller leaves zero
\* are left out.
Settings(state) ==
  << <<Register.COMPUTE_DIM[1], Word(state.dim[1])>>,
     <<Register.COMPUTE_DIM[2], Word(state.dim[2])>>,
     <<Register.COMPUTE_DIM[3], Word(state.dim[3])>>,
     <<Register.COMPUTE_START[1], Word(state.start[1])>>,
     <<Register.COMPUTE_START[2], Word(state.start[2])>>,
     <<Register.COMPUTE_START[3], Word(state.start[3])>>,
     <<Register.COMPUTE_NUM_THREAD[1], Put(NUM_THREAD_FULL, state.num_thread[1])>>,
     <<Register.COMPUTE_NUM_THREAD[2], Put(NUM_THREAD_FULL, state.num_thread[2])>>,
     <<Register.COMPUTE_NUM_THREAD[3], Put(NUM_THREAD_FULL, state.num_thread[3])>>,
     <<Register.COMPUTE_MAX_WAVE_ID, Put(MAX_WAVE_ID, \hF00)>>,
     <<Register.COMPUTE_PGM_LO, Shifted(state.binary, 8) \cap Bit>>,
     <<Register.COMPUTE_PGM_HI, Shifted(state.binary, 40) \cap Bit>>,
     <<Register.COMPUTE_PGM_RSRC1,
       Put(PGM_RSRC1.VGPRS, state.vgpr_num) \cup Put(PGM_RSRC1.SGPRS, state.sgpr_num)
       \cup Put(PGM_RSRC1.IEEE_MODE, state.ieee_mode)>>,
     <<Register.COMPUTE_PGM_RSRC2,
       (UNION {Put(PGM_RSRC2[f], 1) : f \in {"TGID_X_EN", "TGID_Y_EN", "TGID_Z_EN", "TG_SIZE_EN"}})
       \cup Put(PGM_RSRC2.USER_SGPR, Len(state.user_data)) \cup Put(PGM_RSRC2.LDS_SIZE, state.lds_size)>>,
     <<Register.COMPUTE_RESOURCE_LIMITS, Put(TG_PER_CU, state.thread_groups_per_cu)>>,
     <<Register.COMPUTE_STATIC_THREAD_MGMT[1], Put(SH_CU_EN[1], \hFF) \cup Put(SH_CU_EN[2], \hFF)>>,
     <<Register.COMPUTE_STATIC_THREAD_MGMT[2], Put(SH_CU_EN[1], \hFF) \cup Put(SH_CU_EN[2], \hFF)>> >>

\* The packets for a compute_state, and the words of buf they make.
Commands(state) ==
  LET settings == Settings(state)
  IN  [k \in DOMAIN settings |-> set_compute_reg(settings[k][1], settings[k][2])]
      \o UserData(state.user_data)
      \o <<SurfaceSync,
           set_compute_reg(Register.COMPUTE_DISPATCH_INITIATOR, Put(COMPUTE_SHADER_EN, 1)),
           set_compute_reg(Register.COMPUTE_DISPATCH_INITIATOR, {})>>

compute_emit_compute_state_manual_relocs(state) == FlattenSeq(Commands(state))

\* localSize.resize(3, 1) and the like.
resize(seq, default) == [k \in 1 .. 3 |-> IF k <= Len(seq) THEN seq[k] ELSE default]

\* The compute_state that ComputeInterface::launch fills in.
LaunchState(a) ==
  [user_data |-> a.userData, dim |-> resize(a.blockDim, 1), start |-> resize(a.threadOffset, 0),
   num_thread |-> resize(a.localSize, 1),
   sgpr_num |-> ((IF a.sgprnum = 0 THEN 104 ELSE a.sgprnum) + 7) \div 8 - 1,
   vgpr_num |-> ((IF a.vgprnum = 0 THEN 256 ELSE a.vgprnum) + 3) \div 4 - 1,
   ieee_mode |-> 1, lds_size |-> (a.localMemSize + 255) \div 256, thread_groups_per_cu |-> 0, binary |-> a.code]

-----------------------------------------------------------------------------
(* Copies, by the CP of the compute ring and by the DMA ring.               *)

Plus(va, offset) == [va EXCEPT !.low = @ + offset]
CP_SYNC == 31
ENGINE == 27
RAW_WAIT == 30
BYTE_COUNT == Field(0, 21)

compute_send_sync_dma_req(dst, src, size, sync_flag, raw_wait_flag, use_pfp_engine) ==
  <<PKT3C(Opcodes.CP_DMA, 4), LowWord(src),
    (IF sync_flag THEN {CP_SYNC} ELSE {}) \cup (IF use_pfp_engine THEN {ENGINE} ELSE {}) \cup
      (Shifted(src, 32) \cap 0 .. 15),
    LowWord(dst), Shifted(dst, 32) \cap 0 .. 15,
    (IF raw_wait_flag THEN {RAW_WAIT} ELSE {}) \cup Word(size)>>

Dma == [cmd |-> Field(28, 4), sub_cmd |-> Field(20, 8), n |-> Field(0, 20)]
DMA_PACKET(cmd, sub_cmd, n) == Put(Dma.cmd, cmd) \cup Put(Dma.sub_cmd, sub_cmd) \cup Put(Dma.n, n)
DMA_PACKET_COPY == 3

DwordAligned(va) == va.low % 4 = 0

compute_send_async_dma_req(dst, src, size) ==
  <<IF DwordAligned(src) /\ DwordAligned(dst) THEN DMA_PACKET(DMA_PACKET_COPY, 0, size \div 4)
    ELSE DMA_PACKET(DMA_PACKET_COPY, \h40, size),
    LowWord(dst), LowWord(src), Shifted(dst, 32) \cap 0 .. 7, Shifted(src, 32) \cap 0 .. 7>>

\* Fault: pieces of the size the CP's byte count allows, and one bit more than the DMA ring's.
fragmentSizeOfMegabyte == 1048576
fragmentSize == 524288

\* i = 0, fragmentSize, ... below size, and the size of the piece at i.
Pieces(size) == (size + fragmentSize - 1) \div fragmentSize
PieceAt(k) == (k - 1) * fragmentSize
CurSize(size, k) == IF size - PieceAt(k) < fragmentSize THEN size - PieceAt(k) ELSE fragmentSize

syncDMACopy(dst, src, size) ==
  [k \in 1 .. Pieces(size) |->
     compute_send_sync_dma_req(Plus(dst, PieceAt(k)), Plus(src, PieceAt(k)), CurSize(size, k),
                               PieceAt(k) + CurSize(size, k) >= size, k = 1, TRUE)]

asyncDMACopy(dst, src, size) ==
  [k \in 1 .. Pieces(size) |->
     compute_send_async_dma_req(Plus(dst, PieceAt(k)), Plus(src, PieceAt(k)), CurSize(size, k))]
=============================================================================
