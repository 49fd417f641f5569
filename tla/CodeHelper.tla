----------------------------- MODULE CodeHelper -----------------------------
(***************************************************************************)
(* The instruction encoders of code_helper.h.  An encoder returns the      *)
(* words it writes at p; the fields are or-ed together unmasked, as the    *)
(* code does it, so that a value that is too wide runs into its neighbour. *)
(***************************************************************************)
EXTENDS SqFormats, SequencesExt

\* x << n in 32 bits.
Shl(x, n) == {b + n : b \in Word(x)} \cap Bit

\* (x & 0xFFFF)
Low16(x) == Word(x) \cap 0 .. 15

-----------------------------------------------------------------------------
(* The scalar unit.                                                        *)

sopp(op, imm) == <<Shl(\h17F, 23) \cup Shl(op, 16) \cup imm>>

s_nop == sopp(0, {})
s_endpgm == sopp(1, {})
s_waitcnt == sopp(12, {})
s_sleep(imm) == sopp(14, Low16(imm))
s_trap(trapID) == sopp(18, Shl(trapID, 0))

\* Fault: the offset is not cut to 16 bits.
ScalarBranchUnmasked(imm) == sopp(4, Shl(imm, 0))
s_branch(imm) == sopp(2, Low16(imm))
s_cbranch_scc0(imm) == sopp(4, Low16(imm))
s_cbranch_execz(imm) == sopp(8, Low16(imm))
s_jump(rel) == sopp(2, Shl(rel, 0))

\* p[0] = 0xBE800000 | op << 8 | sdst << 16 | ssrc0
scalarOne(op, sdst, ssrc0) == <<Shl(\h17D, 23) \cup Shl(op, 8) \cup Shl(sdst, 16) \cup Shl(ssrc0, 0)>>

s_mov_b32(sdst, src) == scalarOne(3, sdst, src)
s_mov_b64(sdst, src) == scalarOne(4, sdst, src)
s_getpc_b64(sdst) == scalarOne(31, sdst, 0)
s_swappc_b64(sdst, ssrc0) == scalarOne(33, sdst, ssrc0)
s_rfe_b64 == scalarOne(34, 0, 0)

s_mov_imm32(sdst, imm) == scalarOne(3, sdst, 255) \o <<Word(imm)>>

s_getreg_b32(sdst, size, offset, hwregid) ==
  <<Shl(\hB, 28) \cup Shl(size, 11) \cup Shl(offset, 6) \cup Shl(hwregid, 0) \cup Shl(18, 23) \cup Shl(sdst, 16)>>

sopc(op, ssrc1, ssrc0) == <<Shl(\h17E, 23) \cup Shl(ssrc0, 0) \cup Shl(ssrc1, 8) \cup Shl(op, 16)>>
s_cmp_lt_i32(ssrc1, ssrc0) == sopc(4, ssrc1, ssrc0)
s_cmp_gt_i32(ssrc1, ssrc0) == sopc(2, ssrc1, ssrc0)

sop2(op, sdst, ssrc1, ssrc0) ==
  <<Shl(1, 31) \cup Shl(op, 23) \cup Shl(sdst, 16) \cup Shl(ssrc1, 8) \cup Shl(ssrc0, 0)>>
s_add_i32(sdst, ssrc1, ssrc0) == sop2(2, sdst, ssrc1, ssrc0)
s_and_b32(sdst, ssrc1, ssrc0) == sop2(14, sdst, ssrc1, ssrc0)
s_and_b64(sdst, ssrc1, ssrc0) == sop2(15, sdst, ssrc1, ssrc0)

smrd(op, sdst, sbase, imm, offset) ==
  <<Shl(3, 30) \cup Shl(op, 22) \cup Shl(sdst, 15) \cup Shl(sbase, 9) \cup Shl(imm, 8) \cup Shl(offset, 0)>>
s_load_dword(sbase, sdst, offset, imm) == smrd(0, sdst, sbase, imm, offset)
s_memtime(sdst) == smrd(30, sdst, 0, 0, 0)

-----------------------------------------------------------------------------
(* The vector unit.                                                        *)

\* 0x7E000000 | src0 | op << 9 | vdst << 17, named sop1 in the code
vop1(op, vdst, src0) == <<Shl(\h3F, 25) \cup Shl(src0, 0) \cup Shl(op, 9) \cup Shl(vdst, 17)>>

v_mov_b32(vdst, src0) == vop1(1, vdst, src0)
v_cvt_f32_i32(vdst, src0) == vop1(5, vdst, src0)
v_cvt_i32_f32(vdst, src0) == vop1(8, vdst, src0)
v_log_f32(vdst, src0) == vop1(39, vdst, src0)
v_rcp_f32(vdst, src0) == vop1(42, vdst, src0)
v_rcp_f64(vdst, src0) == vop1(47, vdst, src0)
v_sqrt_f32(vdst, src0) == vop1(51, vdst, src0)
v_sqrt_f64(vdst, src0) == vop1(52, vdst, src0)
v_sin_f32(vdst, src0) == vop1(53, vdst, src0)
v_bfrev_b32(vdst, src0) == vop1(56, vdst, src0)
v_mov_imm32(vdst, imm) == v_mov_b32(vdst, 255) \o <<Word(imm)>>

vop2(op, vdst, vsrc1, src0) ==
  <<Shl(src0, 0) \cup Shl(vsrc1, 9) \cup Shl(vdst, 17) \cup Shl(op, 25)>>

v_add_f32(vdst, vsrc1, src0) == vop2(3, vdst, vsrc1, src0)
v_sub_f32(vdst, vsrc1, src0) == vop2(4, vdst, vsrc1, src0)
v_mul_f32(vdst, vsrc1, src0) == vop2(8, vdst, vsrc1, src0)
v_mul_i32_i24(vdst, vsrc1, src0) == vop2(9, vdst, vsrc1, src0)
v_and_b32(vdst, vsrc1, src0) == vop2(27, vdst, vsrc1, src0)
v_add_i32(vdst, vsrc1, src0) == vop2(37, vdst, vsrc1, src0)
v_mul_i32_i24_imm32(vdst, vsrc1, imm32) == v_mul_i32_i24(vdst, vsrc1, 255) \o <<Word(imm32)>>
v_add_i32_imm32(vdst, vsrc1, imm32) == v_add_i32(vdst, vsrc1, 255) \o <<Word(imm32)>>
\* The argument is what floatconv makes of the float.
v_mul_f32_imm32(vdst, vsrc1, imm32) == v_mul_f32(vdst, vsrc1, 255) \o <<Word(imm32)>>
v_add_f32_imm32(vdst, vsrc1, imm32) == v_add_f32(vdst, vsrc1, 255) \o <<Word(imm32)>>

\* The compares shift vsrc1 by 8, all but the last.
compareShift8(op, vsrc1, src0) == <<Shl(\h3E, 25) \cup Shl(src0, 0) \cup Shl(vsrc1, 8) \cup Shl(op, 17)>>
v_cmp_lt_f32(vsrc1, src0) == compareShift8(1, vsrc1, src0)
v_cmpx_lt_f32(vsrc1, src0) == compareShift8(17, vsrc1, src0)
v_cmp_gt_f32(vsrc1, src0) == compareShift8(4, vsrc1, src0)
v_cmpx_gt_f32(vsrc1, src0) == <<Shl(\h3E, 25) \cup Shl(src0, 0) \cup Shl(vsrc1, 9) \cup Shl(20, 17)>>

vop3a(vdst, abs, clamp, op, src0, src1, src2, omod, neg) ==
  <<Shl(\hD0, 24) \cup Shl(vdst, 0) \cup Shl(abs, 8) \cup Shl(clamp, 11) \cup Shl(op, 17),
    Shl(src0, 0) \cup Shl(src1, 9) \cup Shl(src2, 18) \cup Shl(omod, 27) \cup Shl(neg, 29)>>

v_fma_f32(vdst, abs, clamp, src0, src1, src2, omod, neg) == vop3a(vdst, abs, clamp, 331, src0, src1, src2, omod, neg)
v_mul_lo_i32(vdst, src0, src1) == vop3a(vdst, 0, 0, 363, src0, src1, 0, 0, 0)
v_mul_hi_i32(vdst, src0, src1) == vop3a(vdst, 0, 0, 364, src0, src1, 0, 0, 0)

-----------------------------------------------------------------------------
(* Memory.                                                                 *)

mtbuf(nfmt, dfmt, op, addr64, glc, idxen, offen, offset, soffset, tfe, slc, srsrc, vdata, vaddr) ==
  <<Shl(\hE8, 24) \cup Shl(offset, 0) \cup Shl(offen, 12) \cup Shl(idxen, 13) \cup Shl(glc, 14)
      \cup Shl(addr64, 15) \cup Shl(op, 16) \cup Shl(dfmt, 19) \cup Shl(nfmt, 23),
    Shl(vaddr, 0) \cup Shl(vdata, 8) \cup Shl(srsrc, 16) \cup Shl(slc, 22) \cup Shl(tfe, 23) \cup Shl(soffset, 24)>>

mubuf(soffset, tfe, slc, srsrc, vdata, vaddr, op, lds, addr64, glc, idxen, offen, offset) ==
  <<Shl(\hE0, 24) \cup Shl(offset, 0) \cup Shl(offen, 12) \cup Shl(idxen, 13) \cup Shl(glc, 14)
      \cup Shl(addr64, 15) \cup Shl(lds, 16) \cup Shl(op, 18),
    Shl(vaddr, 0) \cup Shl(vdata, 8) \cup Shl(srsrc, 16) \cup Shl(slc, 22) \cup Shl(tfe, 23) \cup Shl(soffset, 24)>>

-----------------------------------------------------------------------------
(* struct buffer_resource: packed bit-fields, one behind the other.        *)

Member(name, width) == [name |-> name, width |-> width]

\* Fault: stride takes the two swizzle bits.
WideStride ==
  <<Member("base_addr", 48), Member("stride", 16), Member("num_records", 32)>>

Members ==
  <<Member("base_addr", 48), Member("stride", 14), Member("c_swizzle", 1), Member("swizzle_en", 1),
    Member("num_records", 32), Member("dst_sel_x", 3), Member("dst_sel_y", 3), Member("dst_sel_z", 3),
    Member("dst_sel_w", 3), Member("num_format", 3), Member("data_format", 4), Member("element_size", 2),
    Member("idx_stride", 2), Member("add_tid_en", 1), Member("reserved", 1), Member("hash_en", 1),
    Member("heap", 1), Member("unused", 3), Member("zero", 2)>>

\* The bit at which each member begins.
BitOf == LET bit[k \in DOMAIN Members] == IF k = 1 THEN 0 ELSE bit[k - 1] + Members[k - 1].width IN bit

\* data[0] to data[3], where value maps the members the program sets to the bits it stores there.
buffer_resource(value) ==
  LET bits == UNION {{BitOf[k] + b : b \in value[Members[k].name] \cap 0 .. Members[k].width - 1} :
                       k \in {j \in DOMAIN Members : Members[j].name \in DOMAIN value}}
  IN  [w \in 1 .. 4 |-> {b - 32 * (w - 1) : b \in bits \cap 32 * (w - 1) .. 32 * w - 1}]
=============================================================================
