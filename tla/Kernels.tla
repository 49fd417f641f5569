------------------------------ MODULE Kernels ------------------------------
(***************************************************************************)
(* The shader programs the repository assembles and runs, as sequences of  *)
(* encoder calls.  A call is the words it writes, with the literal the     *)
(* program puts behind them.  Values of float literals are not told apart. *)
(***************************************************************************)
EXTENDS CodeHelper

CONSTANTS
  Unroll,       \* copies of an unrolled loop body, 32 to 4096 in the code
  Iterations    \* the literal a loop counter is compared with, 1000 to 10000 in the code

ASSUME KernelsAssumption == Unroll \in Nat \ {0} /\ Iterations \in Nat \ {0, 1}

\* The call, then p[0] = literal; p++.
With(words, literal) == words \o <<Word(literal)>>

Float == 1065353216

\* The number of words of a sequence of calls, the distance two pointers into it have.
Words(calls) == Len(FlattenSeq(calls))

-----------------------------------------------------------------------------
(* mandelbrot.cpp                                                           *)

\* Pixel coordinates from the work group s4, s5 and the thread v0.
PixelOfThread ==
  <<s_nop, s_nop, s_nop, s_nop, s_nop, v_mov_imm32(8, 16777215),
    v_mov_b32(5, 4), With(v_mul_i32_i24(5, 5, 255), 256), v_add_i32(6, 0, 256 + 5), v_mov_b32(8, 5),
    With(v_mul_i32_i24(0, 8, 255), 1920), v_add_i32(0, 0, 256 + 6),
    v_cvt_f32_i32(6, 256 + 6), v_cvt_f32_i32(8, 256 + 8),
    With(v_add_f32(6, 6, 255), Float), With(v_add_f32(8, 8, 255), Float),
    With(v_mul_f32(6, 6, 255), Float), With(v_mul_f32(8, 8, 255), Float),
    With(v_add_f32(6, 6, 255), Float), With(v_add_f32(8, 8, 255), Float)>>

\* Fault: the iterated number does not begin at zero.
SaveExecOnly == <<s_mov_b64(12, 126), s_mov_imm32(8, 0), v_mov_imm32(10, 0), v_mov_imm32(12, 0)>>

SaveExec ==
  <<s_mov_b64(12, 126), s_mov_imm32(8, 0), v_mov_imm32(10, 0), v_mov_imm32(12, 0), v_mov_imm32(35, 0),
    v_mov_imm32(36, 0)>>

\* One turn of the iteration, up to the test that leaves only the lanes still inside.
MandelbrotStep ==
  <<v_add_f32(10, 10, 242), s_add_i32(8, 8, 129),
    v_mul_f32(32, 35, 256 + 35), v_add_f32(32, 32, 256 + 6), v_mul_f32(33, 36, 256 + 36), v_sub_f32(40, 33, 256 + 32),
    With(v_mul_f32(32, 35, 255), Float), v_mul_f32(33, 32, 256 + 36), v_add_f32(36, 33, 256 + 8), v_mov_b32(35, 256 + 40),
    v_mul_f32(32, 35, 256 + 35), v_mul_f32(33, 36, 256 + 36), v_add_f32(12, 32, 256 + 33),
    With(v_cmpx_gt_f32(12, 255), Float)>>

\* eleje - p - 1, where p is the place of the branch itself.
\* Fault: the place of the branch is counted from the wrong side.
BackToFirst(body) == -Words(body)
BackTo(body) == -Words(body) - 1

MandelbrotLoop ==
  LET test == <<s_cbranch_execz(3), With(s_cmp_lt_i32(8, 255), Iterations)>>
  IN  MandelbrotStep \o test \o <<s_cbranch_scc0(BackTo(MandelbrotStep \o test))>>

\* One colour channel: v is computed from the smoothed iteration count v10.
Channel(v) ==
  <<With(v_mul_f32(v, 10, 255), Float), With(v_add_f32(v, v, 255), Float), v_sin_f32(v, 256 + v),
    With(v_add_f32(v, v, 255), Float), With(v_mul_f32(v, v, 255), Float)>>

Colour ==
  <<v_sqrt_f32(12, 256 + 12), v_log_f32(12, 256 + 12), With(v_mul_f32(12, 12, 255), Float), v_log_f32(12, 256 + 12),
    v_sub_f32(10, 12, 256 + 10)>>
  \o Channel(11) \o Channel(12) \o Channel(13)
  \o <<v_cvt_i32_f32(11, 256 + 11), v_cvt_i32_f32(12, 256 + 12), v_cvt_i32_f32(13, 256 + 13),
       With(v_mul_i32_i24(12, 12, 255), 256), With(v_mul_i32_i24(13, 13, 255), 65536),
       v_mov_b32(10, 256 + 11), v_add_i32(10, 10, 256 + 12), v_add_i32(10, 10, 256 + 13)>>

StorePixel ==
  <<mtbuf(4, 4, 4, 0, 0, 1, 0, 0, 128, 0, 0, 0, 10, 0), s_waitcnt, s_nop, s_nop, s_nop, s_nop, s_endpgm>>

\* Fault: EXEC is not restored after the loop.
ProgramWithoutRestore ==
  PixelOfThread \o SaveExec \o MandelbrotLoop \o Colour \o StorePixel

set_program ==
  PixelOfThread \o SaveExec \o MandelbrotLoop \o <<s_mov_b64(126, 12)>> \o Colour \o StorePixel

-----------------------------------------------------------------------------
(* main.cpp, fma_test.cpp, read_test.cpp and write_test.cpp log, for every  *)
(* wave, when it began and ended and where it ran.                          *)

\* Lane 0 adds 7 to the first dword of the buffer and keeps the old value in v2.
TakeSlot ==
  <<v_mov_imm32(1, 2), v_mov_imm32(2, 1), s_mov_imm32(126, 1), s_mov_imm32(127, 0),
    v_mov_b32(1, 4), v_mov_b32(2, 4), v_mul_i32_i24_imm32(1, 1, 64), v_mov_imm32(1, 0), v_mov_imm32(2, 7),
    mubuf(128, 0, 0, 0, 2, 0, 50, 0, 0, 1, 0, 0, 0), s_waitcnt, v_mov_b32(1, 4)>>

\* Fault: neither the slot nor the time is waited for.
LogStartUnwaited ==
  <<s_mov_imm32(6, 66), s_memtime(6), v_mov_b32(4, 6), v_mov_b32(5, 7),
    mtbuf(4, 11, 5, 0, 0, 1, 0, 0, 128, 0, 0, 0, 4, 2), s_waitcnt>>

LogStart ==
  <<s_mov_imm32(6, 66), s_memtime(6), s_waitcnt, v_mov_b32(4, 6), v_mov_b32(5, 7),
    mtbuf(4, 11, 5, 0, 0, 1, 0, 0, 128, 0, 0, 0, 4, 2), s_waitcnt>>

AllLanes == <<s_mov_imm32(126, -1), s_mov_imm32(127, -1)>>
FirstLane == <<s_mov_imm32(126, 1), s_mov_imm32(127, 0)>>

StopTime == <<s_memtime(6), s_waitcnt>>

LogStop ==
  <<s_getreg_b32(8, 31, 0, 4), s_getreg_b32(9, 31, 0, 5),
    v_mov_b32(4, 6), v_mov_b32(5, 7), v_mov_b32(6, 4), v_mov_b32(7, 8), v_add_i32_imm32(2, 2, 2),
    mtbuf(4, 14, 7, 0, 0, 1, 0, 0, 128, 0, 0, 0, 4, 2), s_waitcnt,
    v_mov_b32(4, 9), v_add_i32_imm32(2, 2, 4),
    mtbuf(4, 4, 4, 0, 0, 1, 0, 0, 128, 0, 0, 0, 4, 2), s_waitcnt>>

\* body, then the counter s8 is compared and the branch goes back by offset.
\* Fault: the counter is not advanced.
LoopTestWithoutCount == <<With(s_cmp_lt_i32(8, 255), Iterations)>>
LoopTest == <<With(s_add_i32(8, 8, 255), 1), With(s_cmp_lt_i32(8, 255), Iterations)>>

Copies(calls) == FlattenSeq([i \in 1 .. Unroll |-> calls])

\* eleje is p, the branch eleje - p: one word behind the label.
AddLoop ==
  LET body == Copies(<<v_add_f32(4, 4, 256 + 4)>>) \o LoopTest
  IN  body \o <<s_cbranch_scc0(-Words(body))>>

FmaLoop ==
  LET body == Copies(<<v_fma_f32(4, 0, 0, 256 + 5, 256 + 4, 256 + 4, 0, 0)>>) \o LoopTest
  IN  body \o <<s_cbranch_scc0(-Words(body))>>

main ==
  <<s_mov_imm32(108, 4096), s_mov_imm32(109, 0)>> \o TakeSlot \o LogStart
  \o AllLanes \o <<s_mov_imm32(8, 0), v_mov_imm32(4, Float), v_mov_imm32(5, Float)>> \o AddLoop \o FirstLane
  \o StopTime \o LogStop \o <<s_endpgm, s_endpgm, s_endpgm>>

fma_test ==
  TakeSlot \o LogStart
  \o AllLanes \o <<s_mov_imm32(8, 0), v_mov_imm32(4, Float), v_mov_imm32(5, Float)>> \o FmaLoop \o FirstLane
  \o StopTime \o LogStop \o <<s_endpgm>>

Resource == <<s_mov_imm32(0, 4096), s_mov_imm32(1, 262144), s_mov_imm32(2, 102400), s_mov_imm32(3, 675748)>>

\* v3 and v8: group * local size + thread.
GlobalId(localSize) ==
  <<v_mov_b32(3, 4), v_mul_i32_i24_imm32(3, 3, localSize), v_add_i32(3, 3, 256 + 0),
    v_mov_b32(4, 256 + 3), v_mov_b32(5, 256 + 3), v_mov_b32(6, 256 + 3), v_mov_b32(7, 256 + 3), v_mov_b32(8, 256 + 3)>>

\* eleje is p - 1 and the branch eleje - p.
ReadLoop ==
  LET body == <<v_mul_i32_i24_imm32(3, 8, 1)>>
              \o Copies(<<mtbuf(4, 14, 3, 0, 0, 1, 0, 0, 128, 0, 0, 0, 4, 3),
                          v_add_i32_imm32(3, 3, 16384), s_waitcnt>>) \o LoopTest
  IN  body \o <<s_cbranch_scc0(BackTo(body))>>

WriteLoop ==
  LET body == <<v_mul_i32_i24_imm32(3, 8, 1)>>
              \o Copies(<<mtbuf(4, 14, 7, 0, 0, 1, 0, 0, 128, 0, 0, 0, 4, 3), s_waitcnt,
                          v_add_i32_imm32(3, 3, 8192)>>) \o LoopTest
  IN  body \o <<s_cbranch_scc0(BackTo(body))>>

read_test ==
  TakeSlot \o LogStart \o Resource
  \o AllLanes \o <<s_mov_imm32(8, 0)>> \o GlobalId(512) \o ReadLoop \o FirstLane
  \o StopTime \o Resource \o LogStop \o <<s_endpgm>>

write_test ==
  TakeSlot \o LogStart \o Resource
  \o AllLanes \o <<s_mov_imm32(8, 0)>> \o GlobalId(256) \o WriteLoop \o FirstLane
  \o StopTime \o Resource \o LogStop \o <<s_endpgm>>

-----------------------------------------------------------------------------
(* divide_precision.cpp                                                     *)

\* Fault: eight bytes are loaded as four dwords.
LoadTypeTooWide(typeSize) ==
  CASE typeSize = 1 -> 8 [] typeSize = 2 -> 10 [] typeSize = 4 -> 12 [] OTHER -> 14
LoadType(typeSize) ==
  CASE typeSize = 1 -> 8 [] typeSize = 2 -> 10 [] typeSize = 4 -> 12 [] typeSize = 8 -> 13 [] OTHER -> 14
StoreType(typeSize) ==
  CASE typeSize = 1 -> 24 [] typeSize = 2 -> 26 [] typeSize = 4 -> 28 [] typeSize = 8 -> 29 [] OTHER -> 30

\* binary, between the loads of the two operands and the store of the result.
generateTempCode(binary, typeSize) ==
  <<s_nop, s_nop, s_nop, s_nop, s_nop,
    v_mov_b32(6, 8), With(v_mul_i32_i24(6, 6, 255), 256), v_add_i32(7, 0, 256 + 6),
    mubuf(128, 0, 0, 0, 2, 7, LoadType(typeSize), 0, 0, 0, 1, 0, 0),
    mubuf(128, 0, 0, 1, 4, 7, LoadType(typeSize), 0, 0, 0, 1, 0, 0), s_waitcnt>>
  \o binary
  \o <<mubuf(128, 0, 0, 1, 4, 7, StoreType(typeSize), 0, 0, 0, 1, 0, 0), s_waitcnt,
       s_nop, s_nop, s_nop, s_nop, s_nop, s_endpgm>>

\* The division of doubles that main tests.
binarydOperation ==
  <<v_rcp_f64(4, 256 + 2), vop3a(10, 0, 0, 332, 256 + 2, 256 + 4, 245, 0, 0),
    vop3a(4, 0, 0, 357, 256 + 4, 256 + 10, 0, 0, 1)>>

\* The division of floats of the part of main that is commented out.
binaryOperation == <<v_rcp_f32(3, 256 + 2), v_mul_f32(4, 4, 256 + 3)>>

-----------------------------------------------------------------------------
(* What launch or compute_state says of the registers: the fields of        *)
(* COMPUTE_PGM_RSRC1 count scalar registers by 8 and vector ones by 4.      *)

Allocated(sgpr_num, vgpr_num) == [sgprs |-> 8 * (sgpr_num + 1), vgprs |-> 4 * (vgpr_num + 1)]

\* Fault: vector registers counted by 8.
LaunchedByEight(vgprnum, sgprnum) == Allocated((sgprnum + 7) \div 8 - 1, (vgprnum + 7) \div 8 - 1)
Launched(vgprnum, sgprnum) ==
  Allocated((IF sgprnum = 0 THEN 104 + 7 ELSE sgprnum + 7) \div 8 - 1,
            (IF vgprnum = 0 THEN 256 + 3 ELSE vgprnum + 3) \div 4 - 1)

\* user: dwords of user data; index: the vector registers that address an element of the thread's own.
Kernel(calls, user, registers, index) ==
  [calls |-> calls, code |-> FlattenSeq(calls), user |-> user, registers |-> registers, index |-> index]

KernelOf ==
  [mandelbrot |-> Kernel(set_program, 4, Launched(50, 50), {0}),
   main |-> Kernel(main, 4, Allocated(11, 10), {}),
   fma_test |-> Kernel(fma_test, 4, Allocated(5, 5), {}),
   read_test |-> Kernel(read_test, 4, Allocated(5, 5), {3}),
   write_test |-> Kernel(write_test, 4, Allocated(5, 5), {3}),
   divide_1 |-> Kernel(generateTempCode(<<>>, 1), 8, Launched(0, 0), {7}),
   divide_2 |-> Kernel(generateTempCode(<<>>, 2), 8, Launched(0, 0), {7}),
   divide_4 |-> Kernel(generateTempCode(binaryOperation, 4), 8, Launched(0, 0), {7}),
   divide_8 |-> Kernel(generateTempCode(binarydOperation, 8), 8, Launched(0, 0), {7}),
   divide_16 |-> Kernel(generateTempCode(<<>>, 16), 8, Launched(0, 0), {7})]
=============================================================================
