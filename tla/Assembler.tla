----------------------------- MODULE Assembler -----------------------------
(***************************************************************************)
(* A program that writes what the GPU will read: shader code, the buffer   *)
(* resource a shader is given, and the commands of a submission.  It calls *)
(* encoders one after another on one pointer p and appends the literal     *)
(* constant itself where it gave 255 as a source.  The properties say that *)
(* the words, read as sid.h describes them, are what was called for.       *)
(***************************************************************************)
EXTENDS Integers, Sequences, FiniteSets, CodeHelper, CommandStream

CONSTANTS
  MaxCalls,        \* bound on the calls
  ScalarRegisters, Vgprs, ScalarSources, VectorSources,  \* operands to choose from
  CompareVgprs,    \* vsrc1 of v_cmp_lt_f32, v_cmpx_lt_f32 and v_cmp_gt_f32
  BranchOffsets, JumpOffsets,
  Addresses,       \* virtual addresses of buffers, as sets of bits
  Launches,        \* arguments of ComputeInterface::launch
  States,          \* what the clients put into a compute_state themselves
  CopyAddresses, CopySizes  \* of syncDMACopy and asyncDMACopy

VARIABLES
  code,      \* the words before p
  calls,     \* the instructions called for, and where p stood
  resource,  \* struct buffer_resource, as data[0] to data[3], and what was stored in it
  submitted  \* the command buffers of one call of the library, and what they are to do

vars == <<code, calls, resource, submitted>>

\* The operands are codes that sid.h names.
ASSUME OperandsAreNamed ==
  /\ MaxCalls \in Nat
  /\ ScalarRegisters \subseteq ScalarDest /\ ScalarSources \subseteq ScalarSource
  /\ Vgprs \subseteq Vgpr /\ CompareVgprs \subseteq Vgpr /\ VectorSources \subseteq VectorSource
  /\ BranchOffsets \subseteq Int /\ JumpOffsets \subseteq Int

\* A buffer resource takes addresses of 48 bits.  A copy gets one of 40 bits, whose
\* low part is told so that it does not carry over within the copy.
ASSUME AddressesAreVirtual ==
  /\ Addresses \subseteq SUBSET (0 .. 47)
  /\ CopySizes \subseteq Nat
  /\ \A va \in CopyAddresses :
       /\ va = [high |-> va.high, low |-> va.low] /\ va.low \in Nat /\ va.high \subseteq 31 .. 39
       /\ \A size \in CopySizes : va.low + size <= 2147483647

NonNegative == {n \in Nat : n <= 2147483647}
WorkItems == 0 .. 2 ^ 16 - 1
LocalMemory == 0 .. 2 ^ 15

\* Code begins on a page.
IsCode(va) ==
  va = [high |-> va.high, low |-> va.low] /\ va.low \in NonNegative /\ va.low % 4096 = 0 /\ va.high \subseteq 31 .. 39

\* What launch asserts of its arguments; a group has no more work items than
\* NUM_THREAD_FULL can say.
IsLaunch(a) ==
  /\ a.userData \in Seq(SUBSET Bit) /\ Len(a.userData) <= 16
  /\ a.blockDim \in Seq(NonNegative) /\ a.threadOffset \in Seq(NonNegative) /\ a.localSize \in Seq(WorkItems)
  /\ a.vgprnum \in 0 .. 256 /\ a.sgprnum \in 0 .. 128 /\ a.localMemSize \in LocalMemory
  /\ IsCode(a.code)

\* What launch makes of that, and the other programs set: the fields have room for it.
IsState(s) ==
  /\ s.user_data \in Seq(SUBSET Bit) /\ Len(s.user_data) <= 16
  /\ \A d \in 1 .. 3 : s.dim[d] \in NonNegative /\ s.start[d] \in NonNegative /\ s.num_thread[d] \in WorkItems
  /\ s.vgpr_num \in 0 .. 63 /\ s.sgpr_num \in 0 .. 15 /\ s.ieee_mode \in 0 .. 1 /\ s.lds_size \in 0 .. 511
  /\ IsCode(s.binary)

ASSUME ArgumentsFit ==
  /\ \A a \in Launches : IsLaunch(a)
  /\ \A s \in States : IsState(s)

-----------------------------------------------------------------------------
(* Code, resources and submissions are independent: a behaviour writes one  *)
(* of the three.                                                            *)

NothingElse == calls = <<>> /\ resource.data = <<{}, {}, {}, {}>> /\ submitted.buffers = <<>>
OnlyCode == resource.data = <<{}, {}, {}, {}>> /\ submitted.buffers = <<>>

Emit(words, format, name, operand) ==
  /\ Len(calls) < MaxCalls /\ OnlyCode
  /\ code' = code \o words \o (IF Constant(operand) THEN <<Word(-1)>> ELSE <<>>)
  /\ calls' = Append(calls, [at |-> Len(code) + 1, format |-> format, op |-> Opcode[format][name],
                             operand |-> operand, literal |-> Constant(operand)])
  /\ UNCHANGED <<resource, submitted>>

\* The encoders that append the literal themselves.
EmitWithLiteral(words, format, name, operand) ==
  /\ Len(calls) < MaxCalls /\ OnlyCode
  /\ code' = code \o words
  /\ calls' = Append(calls, [at |-> Len(code) + 1, format |-> format, op |-> Opcode[format][name],
                             operand |-> operand, literal |-> TRUE])
  /\ UNCHANGED <<resource, submitted>>

Control ==
  \/ Emit(s_nop, "SOPP", "S_NOP", [SIMM16 |-> 0])
  \/ Emit(s_endpgm, "SOPP", "S_ENDPGM", [SIMM16 |-> 0])
  \/ Emit(s_waitcnt, "SOPP", "S_WAITCNT", [SIMM16 |-> 0])
  \/ Emit(s_sleep(7), "SOPP", "S_SLEEP", [SIMM16 |-> 7])
  \/ Emit(s_trap(255), "SOPP", "S_TRAP", [SIMM16 |-> 255])
  \/ \E o \in BranchOffsets :
       \/ Emit(s_branch(o), "SOPP", "S_BRANCH", [SIMM16 |-> o % 65536])
       \/ Emit(s_cbranch_scc0(o), "SOPP", "S_CBRANCH_SCC0", [SIMM16 |-> o % 65536])
       \/ Emit(s_cbranch_execz(o), "SOPP", "S_CBRANCH_EXECZ", [SIMM16 |-> o % 65536])
  \/ \E o \in JumpOffsets : Emit(s_jump(o), "SOPP", "S_BRANCH", [SIMM16 |-> o % 65536])

Scalar ==
  \E d \in ScalarRegisters, s \in ScalarSources :
    \/ Emit(s_mov_b32(d, s), "SOP1", "S_MOV_B32", [SDST |-> d, SSRC0 |-> s])
    \/ Emit(s_mov_b64(d, s), "SOP1", "S_MOV_B64", [SDST |-> d, SSRC0 |-> s])
    \/ Emit(s_swappc_b64(d, s), "SOP1", "S_SWAPPC_B64", [SDST |-> d, SSRC0 |-> s])
    \/ Emit(s_getpc_b64(d), "SOP1", "S_GETPC_B64", [SDST |-> d])
    \/ Emit(s_rfe_b64, "SOP1", "S_RFE_B64", [SDST |-> 0, SSRC0 |-> 0])
    \/ EmitWithLiteral(s_mov_imm32(d, s), "SOP1", "S_MOV_B32", [SDST |-> d, SSRC0 |-> Literal])
    \/ Emit(s_getreg_b32(d, 31, 0, 4), "SOPK", "S_GETREG_B32", [SDST |-> d, SIMM16 |-> 31 * 2048 + 4])
    \/ Emit(s_cmp_lt_i32(d, s), "SOPC", "S_CMP_LT_I32", [SSRC1 |-> d, SSRC0 |-> s])
    \/ Emit(s_cmp_gt_i32(d, s), "SOPC", "S_CMP_GT_I32", [SSRC1 |-> d, SSRC0 |-> s])
    \/ Emit(s_add_i32(d, d, s), "SOP2", "S_ADD_I32", [SDST |-> d, SSRC1 |-> d, SSRC0 |-> s])
    \/ Emit(s_and_b32(d, s, d), "SOP2", "S_AND_B32", [SDST |-> d, SSRC1 |-> s, SSRC0 |-> d])
    \/ Emit(s_and_b64(d, d, s), "SOP2", "S_AND_B64", [SDST |-> d, SSRC1 |-> d, SSRC0 |-> s])
    \/ Emit(s_load_dword(d \div 2, d, s, 1), "SMRD", "S_LOAD_DWORD",
            [SDST |-> d, SBASE |-> d \div 2, OFFSET |-> s, IMM |-> 1])
    \/ Emit(s_memtime(d), "SMRD", "S_MEMTIME", [SDST |-> d])

VectorOne ==
  \E d \in Vgprs, s \in VectorSources :
    \/ Emit(v_mov_b32(d, s), "VOP1", "V_MOV_B32", [VDST |-> d, SRC0 |-> s])
    \/ Emit(v_cvt_f32_i32(d, s), "VOP1", "V_CVT_F32_I32", [VDST |-> d, SRC0 |-> s])
    \/ Emit(v_cvt_i32_f32(d, s), "VOP1", "V_CVT_I32_F32", [VDST |-> d, SRC0 |-> s])
    \/ Emit(v_log_f32(d, s), "VOP1", "V_LOG_F32", [VDST |-> d, SRC0 |-> s])
    \/ Emit(v_rcp_f32(d, s), "VOP1", "V_RCP_F32", [VDST |-> d, SRC0 |-> s])
    \/ Emit(v_rcp_f64(d, s), "VOP1", "V_RCP_F64", [VDST |-> d, SRC0 |-> s])
    \/ Emit(v_sqrt_f32(d, s), "VOP1", "V_SQRT_F32", [VDST |-> d, SRC0 |-> s])
    \/ Emit(v_sqrt_f64(d, s), "VOP1", "V_SQRT_F64", [VDST |-> d, SRC0 |-> s])
    \/ Emit(v_sin_f32(d, s), "VOP1", "V_SIN_F32", [VDST |-> d, SRC0 |-> s])
    \/ Emit(v_bfrev_b32(d, s), "VOP1", "V_BFREV_B32", [VDST |-> d, SRC0 |-> s])
    \/ EmitWithLiteral(v_mov_imm32(d, s), "VOP1", "V_MOV_B32", [VDST |-> d, SRC0 |-> Literal])

VectorTwo ==
  \E d \in Vgprs, e \in Vgprs, s \in VectorSources :
    LET operand == [VDST |-> d, VSRC1 |-> e, SRC0 |-> s]
        withLiteral == [VDST |-> d, VSRC1 |-> e, SRC0 |-> Literal]
    IN  \/ Emit(v_add_f32(d, e, s), "VOP2", "V_ADD_F32", operand)
        \/ Emit(v_sub_f32(d, e, s), "VOP2", "V_SUB_F32", operand)
        \/ Emit(v_mul_f32(d, e, s), "VOP2", "V_MUL_F32", operand)
        \/ Emit(v_mul_i32_i24(d, e, s), "VOP2", "V_MUL_I32_I24", operand)
        \/ Emit(v_and_b32(d, e, s), "VOP2", "V_AND_B32", operand)
        \/ Emit(v_add_i32(d, e, s), "VOP2", "V_ADD_I32", operand)
        \/ EmitWithLiteral(v_add_i32_imm32(d, e, s), "VOP2", "V_ADD_I32", withLiteral)
        \/ EmitWithLiteral(v_mul_i32_i24_imm32(d, e, s), "VOP2", "V_MUL_I32_I24", withLiteral)
        \/ EmitWithLiteral(v_add_f32_imm32(d, e, s), "VOP2", "V_ADD_F32", withLiteral)
        \/ EmitWithLiteral(v_mul_f32_imm32(d, e, s), "VOP2", "V_MUL_F32", withLiteral)

Compare ==
  \E s \in VectorSources \cap CompareSource :
    \/ \E e \in CompareVgprs :
         \/ Emit(v_cmp_lt_f32(e, s), "VOPC", "V_CMP_LT_F32", [VSRC1 |-> e, SRC0 |-> s])
         \/ Emit(v_cmpx_lt_f32(e, s), "VOPC", "V_CMPX_LT_F32", [VSRC1 |-> e, SRC0 |-> s])
         \/ Emit(v_cmp_gt_f32(e, s), "VOPC", "V_CMP_GT_F32", [VSRC1 |-> e, SRC0 |-> s])
    \/ \E e \in Vgprs : Emit(v_cmpx_gt_f32(e, s), "VOPC", "V_CMPX_GT_F32", [VSRC1 |-> e, SRC0 |-> s])

\* VOP3 has no literal.
VectorThree ==
  \E d \in Vgprs, s \in VectorSources \ {Literal}, n \in {0, 7} :
    \/ Emit(v_fma_f32(d, n, n % 2, s, 256 + d, 256, n % 4, n), "VOP3", "V_FMA_F32",
            [VDST |-> d, ABS |-> n, CLAMP |-> n % 2, SRC0 |-> s, SRC1 |-> 256 + d, SRC2 |-> 256,
             OMOD |-> n % 4, NEG |-> n])
    \/ Emit(v_mul_lo_i32(d, s, 256 + d), "VOP3", "V_MUL_LO_I32", [VDST |-> d, SRC0 |-> s, SRC1 |-> 256 + d])
    \/ Emit(v_mul_hi_i32(d, s, 256 + d), "VOP3", "V_MUL_HI_I32", [VDST |-> d, SRC0 |-> s, SRC1 |-> 256 + d])

\* f is one flag at a time, so that a flag at another's place shows.
Memory ==
  \E f \in {"IDXEN", "OFFEN", "GLC", "ADDR64", "SLC", "TFE"}, d \in Vgprs, offset \in {0, 4095} :
    LET set(n) == IF n = f THEN 1 ELSE 0
        operand == [VDATA |-> d, VADDR |-> 255 - d, SRSRC |-> 31, SOFFSET |-> 128, OFFSET |-> offset,
                    IDXEN |-> set("IDXEN"), OFFEN |-> set("OFFEN"), GLC |-> set("GLC"),
                    ADDR64 |-> set("ADDR64"), SLC |-> set("SLC"), TFE |-> set("TFE")]
    IN  \/ \E name \in DOMAIN Opcode.MTBUF :
             Emit(mtbuf(4, 14, Opcode.MTBUF[name], set("ADDR64"), set("GLC"), set("IDXEN"), set("OFFEN"), offset,
                        128, set("TFE"), set("SLC"), 31, d, 255 - d),
                  "MTBUF", name, Both([NFMT |-> 4, DFMT |-> 14], operand))
        \/ \E name \in DOMAIN Opcode.MUBUF :
             Emit(mubuf(128, set("TFE"), set("SLC"), 31, d, 255 - d, Opcode.MUBUF[name], 1, set("ADDR64"),
                        set("GLC"), set("IDXEN"), set("OFFEN"), offset),
                  "MUBUF", name, Both([LDS |-> 1], operand))

-----------------------------------------------------------------------------
(* The buffer resource every program of the repository fills in.           *)

\* The members they set.
ValueOf(address, stride, format) ==
  [base_addr |-> address, stride |-> Word(stride), num_records |-> Word(102400),
   dst_sel_x |-> Word(4), dst_sel_y |-> Word(4), dst_sel_z |-> Word(4), dst_sel_w |-> Word(4),
   num_format |-> Word(4), data_format |-> Word(format), element_size |-> Word(1), add_tid_en |-> {}]

FillResource ==
  /\ NothingElse
  /\ \E address \in Addresses, stride \in {4, 16}, format \in {4, 10} :
       LET value == ValueOf(address, stride, format)
       IN  resource' = [data |-> buffer_resource(value), value |-> value]
  /\ UNCHANGED <<code, calls, submitted>>

-----------------------------------------------------------------------------
(* The command buffers of the library's calls.                             *)

Submits(what, asked, buffers) ==
  /\ NothingElse
  /\ submitted' = [what |-> what, asked |-> asked, buffers |-> buffers]
  /\ UNCHANGED <<code, calls, resource>>

Launch == \E a \in Launches : Submits("launch", a, <<compute_emit_compute_state_manual_relocs(LaunchState(a))>>)

compute_emit_compute_state ==
  \E s \in States : Submits("state", s, <<compute_emit_compute_state_manual_relocs(s)>>)

CopyOnRing ==
  \E dst, src \in CopyAddresses, size \in CopySizes :
    LET asked == [dst |-> dst, src |-> src, size |-> size]
    IN  \/ Submits("sync", asked, syncDMACopy(dst, src, size))
        \/ Submits("async", asked, asyncDMACopy(dst, src, size))

FlushCaches == Submits("flush", {}, <<compute_flush_caches>>)

Init ==
  /\ submitted = [what |-> "none", asked |-> {}, buffers |-> <<>>]
  /\ code = <<>>
  /\ calls = <<>>
  /\ resource = [data |-> <<{}, {}, {}, {}>>, value |-> [base_addr |-> {}]]

Next ==
  \/ Control \/ Scalar \/ VectorOne \/ VectorTwo \/ Compare \/ VectorThree \/ Memory
  \/ FillResource
  \/ Launch \/ compute_emit_compute_state \/ CopyOnRing \/ FlushCaches

Spec == Init /\ [][Next]_vars

-----------------------------------------------------------------------------
(* Properties.                                                             *)

IsAsked(read, asked) ==
  /\ read.format = asked.format
  /\ read.op = asked.op
  /\ read.literal = asked.literal
  /\ \A n \in DOMAIN asked.operand : read.operand[n] = asked.operand[n]

\* Where the k-th instruction begins, and the end of the code behind the last.
Start(k) == IF k \in DOMAIN calls THEN calls[k].at ELSE Len(code) + 1

\* What a GPU reads, from the first word to the last, is what was called for: the
\* same instructions, opcodes by name and operands, no reserved code, and each one
\* ends where the next was written, so that no literal is taken for an instruction.
\* Nothing in the program would notice a field that runs into its neighbour.
ReadsBack ==
  /\ Start(1) = 1
  /\ \A k \in DOMAIN calls :
       LET read == Decode(code, Start(k))
       IN  /\ IsAsked(read, calls[k])
           /\ read.named /\ Start(k) + read.size = Start(k + 1)

\* The compiler's packing of the bit-fields is the layout of SQ_BUF_RSRC_WORD0 to 3.
DescriptorReadsBack ==
  "stride" \in DOMAIN resource.value =>
    LET held(field) == {b - field.shift : b \in resource.data[field.word]
                                             \cap field.shift .. field.shift + field.width - 1}
        layout == SQ_BUF_RSRC
        value == resource.value
    IN  /\ held(layout.BASE_ADDRESS) = value.base_addr \cap 0 .. 31
        /\ {b + 32 : b \in held(layout.BASE_ADDRESS_HI)} = value.base_addr \ (0 .. 31)
        /\ held(layout.STRIDE) = value.stride
        /\ held(layout.NUM_RECORDS) = value.num_records
        /\ held(layout.DST_SEL_X) = value.dst_sel_x /\ held(layout.DST_SEL_Y) = value.dst_sel_y
        /\ held(layout.DST_SEL_Z) = value.dst_sel_z /\ held(layout.DST_SEL_W) = value.dst_sel_w
        /\ held(layout.NUM_FORMAT) = value.num_format
        /\ held(layout.DATA_FORMAT) = value.data_format
        /\ held(layout.ELEMENT_SIZE) = value.element_size
        /\ \A n \in {"CACHE_SWIZZLE", "SWIZZLE_ENABLE", "INDEX_STRIDE", "ADD_TID_ENABLE", "HASH_ENABLE", "HEAP",
                     "TYPE"} : held(layout[n]) = {}

\* The packets of a command buffer from word i on; a header that is none, or whose
\* count leads behind the end, shows as the opcode -1.
PacketsFrom(buffer) ==
  LET from[i \in 1 .. Len(buffer) + 1] ==
        IF i > Len(buffer) THEN <<>>
        ELSE LET count == Get(Packet.count, buffer[i]) + 1
             IN  IF Get(Packet.type, buffer[i]) # 3 \/ Get(Packet.shaderType, buffer[i]) # 1 \/ i + count > Len(buffer)
                 THEN <<[opcode |-> -1, body |-> <<>>]>>
                 ELSE <<[opcode |-> Get(Packet.opcode, buffer[i]), body |-> SubSeq(buffer, i + 1, i + count)]>>
                      \o from[i + count + 1]
  IN  from

Packets(buffer) == PacketsFrom(buffer)[1]

\* The packet sets the register, and to what.
Sets(packet, reg) ==
  /\ packet.opcode = Opcodes.SET_SH_REG
  /\ 4 * Number(packet.body[1]) + ShReg.begin \in {reg - 4 * n : n \in 0 .. Len(packet.body) - 2}
ValueSet(packet, reg) == packet.body[2 + (reg - ShReg.begin) \div 4 - Number(packet.body[1])]

\* What a launch or a compute_state asks for is what the packets set: grid, work
\* group, user data and code address, registers and local memory of a wave not
\* less than asked for and not a whole unit more; the start is the last thing of
\* all and comes after the caches were flushed; nothing runs over buf[1024].
DispatchReadsBack ==
  submitted.what \in {"launch", "state"} =>
    LET asked == submitted.asked
        state == IF submitted.what = "launch" THEN LaunchState(asked) ELSE asked
        buffer == submitted.buffers[1]
        packets == Packets(buffer)
        setters(reg) == {k \in DOMAIN packets : Sets(packets[k], reg)}
        value(reg) == ValueSet(packets[CHOOSE k \in setters(reg) : TRUE], reg)
        starts == {k \in setters(Register.COMPUTE_DISPATCH_INITIATOR) :
                     Get(COMPUTE_SHADER_EN, ValueSet(packets[k], Register.COMPUTE_DISPATCH_INITIATOR)) = 1}
        rsrc1(f) == Get(PGM_RSRC1[f], value(Register.COMPUTE_PGM_RSRC1))
        rsrc2(f) == Get(PGM_RSRC2[f], value(Register.COMPUTE_PGM_RSRC2))
        userData == [n \in DOMAIN state.user_data |-> value(Register.COMPUTE_USER_DATA_0 + 4 * (n - 1))]
    IN  /\ Len(buffer) <= 1024
        /\ \A k \in DOMAIN packets : packets[k].opcode \in {Opcodes.SET_SH_REG, Opcodes.SURFACE_SYNC}
        /\ Cardinality(starts) = 1
        /\ \A k \in starts :
             /\ \E j \in 1 .. k - 1 : packets[j].opcode = Opcodes.SURFACE_SYNC
             /\ \A j \in k + 1 .. Len(packets) : Sets(packets[j], Register.COMPUTE_DISPATCH_INITIATOR)
        /\ \A d \in 1 .. 3 :
             /\ Number(value(Register.COMPUTE_DIM[d])) = state.dim[d]
             /\ Number(value(Register.COMPUTE_START[d])) = state.start[d]
             /\ Get(NUM_THREAD_FULL, value(Register.COMPUTE_NUM_THREAD[d])) = state.num_thread[d]
        /\ {b + 8 : b \in value(Register.COMPUTE_PGM_LO)} \cup {b + 40 : b \in value(Register.COMPUTE_PGM_HI)}
             = VaBits(state.binary)
        /\ userData = state.user_data /\ rsrc2("USER_SGPR") = Len(state.user_data)
        /\ submitted.what = "state" => rsrc1("VGPRS") = state.vgpr_num /\ rsrc1("SGPRS") = state.sgpr_num
        /\ submitted.what = "launch" =>
             /\ asked.vgprnum > 0 => 4 * (rsrc1("VGPRS") + 1) \in asked.vgprnum .. asked.vgprnum + 3
             /\ asked.sgprnum > 0 => 8 * (rsrc1("SGPRS") + 1) \in asked.sgprnum .. asked.sgprnum + 7
             /\ 256 * rsrc2("LDS_SIZE") \in asked.localMemSize .. asked.localMemSize + 255

\* The bytes the packet of a copy moves, and whence and whither, from its words.
CopyOf(what, buffer) ==
  IF what = "sync"
  THEN [dst |-> buffer[4] \cup {b + 32 : b \in buffer[5] \cap 0 .. 15},
        src |-> buffer[2] \cup {b + 32 : b \in buffer[3] \cap 0 .. 15},
        bytes |-> Get(BYTE_COUNT, buffer[6])]
  ELSE [dst |-> buffer[2] \cup {b + 32 : b \in buffer[4]}, src |-> buffer[3] \cup {b + 32 : b \in buffer[5]},
        bytes |-> Get(Dma.n, buffer[1]) * (IF Get(Dma.sub_cmd, buffer[1]) = 0 THEN 4 ELSE 1)]

\* The bytes that were moved before each of the pieces, and behind the last.
MovedBefore(pieces) ==
  LET before[k \in 1 .. Len(pieces) + 1] == IF k = 1 THEN 0 ELSE before[k - 1] + pieces[k - 1].bytes
  IN  before

\* What a copy leaves out: compute_send_async_dma_req counts the whole dwords when
\* both addresses are aligned, and drops the bytes behind them.
LeftOut(what, asked) ==
  IF what = "async" /\ DwordAligned(asked.dst) /\ DwordAligned(asked.src) THEN asked.size % 4 ELSE 0

\* A copy cut into pieces moves every byte of the range once, but for what LeftOut says,
\* which is the end of the last piece: each piece begins where the one before ended, none
\* but the last may be empty, none is cut by the width of its count, and only the last of
\* the compute ring's makes the CP wait for the copy.
CopyReadsBack ==
  submitted.what \in {"sync", "async"} =>
    LET pieces == [k \in DOMAIN submitted.buffers |-> CopyOf(submitted.what, submitted.buffers[k])]
        before == MovedBefore(pieces)
    IN  /\ before[Len(pieces) + 1] = submitted.asked.size - LeftOut(submitted.what, submitted.asked)
        /\ \A k \in DOMAIN pieces :
             /\ k = Len(pieces) \/ pieces[k].bytes > 0
             /\ pieces[k].dst = VaBits(Plus(submitted.asked.dst, before[k]))
             /\ pieces[k].src = VaBits(Plus(submitted.asked.src, before[k]))
        /\ submitted.what = "sync" =>
             \A k \in DOMAIN pieces :
               /\ Len(Packets(submitted.buffers[k])) = 1
               /\ CP_SYNC \in submitted.buffers[k][3] <=> k = Len(pieces)
               /\ RAW_WAIT \in submitted.buffers[k][6] <=> k = 1

\* A copy of size bytes moves size bytes.  This does not hold for asyncDMACopy: computesi.c:574.
CopyMovesAll ==
  submitted.what \in {"sync", "async"} =>
    LET pieces == [k \in DOMAIN submitted.buffers |-> CopyOf(submitted.what, submitted.buffers[k])]
    IN  MovedBefore(pieces)[Len(pieces) + 1] = submitted.asked.size
=============================================================================
