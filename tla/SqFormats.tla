----------------------------- MODULE SqFormats -----------------------------
(***************************************************************************)
(* The machine words of the Southern Islands shader, as sid.h describes    *)
(* them: the fields of every instruction format, the operand codes and the *)
(* opcodes that have a name, and how a word is told to be of one format.   *)
(* A 32-bit word is the set of its bits that are one.                      *)
(***************************************************************************)
EXTENDS Integers, Sequences, FiniteSetsExt

Bit == 0 .. 31

\* The 32 bits of an int, in two's complement.
Word(n) ==
  IF n >= 0 THEN {i \in 0 .. 30 : (n \div 2 ^ i) % 2 = 1}
  ELSE {i \in Bit : i = 31 \/ ((-n - 1) \div 2 ^ i) % 2 = 0}

Number(w) == MapThenSumSet(LAMBDA i : 2 ^ i, w)

\* A field: which word of the instruction it is in, its shift and its width.
At(word, shift, width) == [word |-> word, shift |-> shift, width |-> width]

\* The G_ macros: ((x) >> shift) & mask.
G(field, words) ==
  Number({b - field.shift : b \in words[field.word] \cap field.shift .. field.shift + field.width - 1})

-----------------------------------------------------------------------------
(* Operand codes that have a name.  sid.h names the first register of a     *)
(* file; SQ_SRC_LITERAL it names for SMRD only, code_helper.h uses it in   *)
(* the formats of the scalar and the vector unit.                          *)

Literal == 255
Inline == 128 .. 208 \cup 240 .. 247
ScalarRegister == 0 .. 103 \cup 104 .. 124 \cup 126 .. 127
ScalarDest == ScalarRegister
ScalarSource == ScalarRegister \cup Inline \cup 251 .. 254 \cup {Literal}
Vgpr == 0 .. 255
VectorSource == ScalarSource \cup {256 + v : v \in Vgpr}
CompareSource == VectorSource \ {104, 105}
Offset == ScalarRegister \cup Inline \cup 251 .. 254
Immediate == 0 .. 2 ^ 16 - 1
ByteOffset == 0 .. 2 ^ 12 - 1

-----------------------------------------------------------------------------
(* The opcodes that have a name, format by format.                         *)

VOP1Op == 0 .. 26 \cup 32 .. 70
VOP2Op == 0 .. 49
VOPCOp == 0 .. 136 \cup 144 .. 152 \cup 160 .. 168 \cup 176 .. 184
          \cup 192 .. 199 \cup 208 .. 215 \cup 224 .. 231 \cup 240 .. 247
VOP3Op == {0, 256, 384} \cup 320 .. 375
SOP1Op == 3 .. 34 \cup 36 .. 53
SOP2Op == 0 .. 11 \cup 14 .. 44
SOPKOp == {0} \cup 2 .. 21
SOPCOp == 0 .. 16
SOPPOp == 0 .. 2 \cup 4 .. 26
SMRDOp == 0 .. 4 \cup 8 .. 12 \cup 29 .. 31
MTBUFOp == 0 .. 7
MUBUFOp == 0 .. 15 \cup {24, 26} \cup 28 .. 31 \cup 48 .. 64 \cup 80 .. 96 \cup 112 .. 113
MIMGOp == 0 .. 5 \cup 8 .. 11 \cup 14 .. 65 \cup 68 .. 73 \cup 76 .. 81 \cup 84 .. 89
          \cup 92 .. 96 \cup 104 .. 111
DSOp == 0 .. 20 \cup 25 .. 51 \cup 53 .. 83 \cup 96 .. 115 \cup 118 .. 120 \cup {126}
        \cup 128 .. 139 \cup {141} \cup 146 .. 147 \cup 192 .. 203 \cup {205} \cup 210 .. 211
        \cup 222 .. 223 \cup 253 .. 255
FLATOp == 8 .. 15 \cup {24, 26} \cup 28 .. 31 \cup 48 .. 51 \cup 53 .. 64 \cup 80 .. 83 \cup 85 .. 96
VINTRPOp == 0 .. 2

\* The names among them that the encoders of the repository write.
Opcode ==
  [SOP1 |-> [S_MOV_B32 |-> 3, S_MOV_B64 |-> 4, S_GETPC_B64 |-> 31, S_SWAPPC_B64 |-> 33, S_RFE_B64 |-> 34],
   SOP2 |-> [S_ADD_I32 |-> 2, S_AND_B32 |-> 14, S_AND_B64 |-> 15],
   SOPK |-> [S_GETREG_B32 |-> 18],
   SOPC |-> [S_CMP_GT_I32 |-> 2, S_CMP_LT_I32 |-> 4],
   SOPP |-> [S_NOP |-> 0, S_ENDPGM |-> 1, S_BRANCH |-> 2, S_CBRANCH_SCC0 |-> 4, S_CBRANCH_EXECZ |-> 8,
             S_WAITCNT |-> 12, S_SLEEP |-> 14, S_TRAP |-> 18],
   SMRD |-> [S_LOAD_DWORD |-> 0, S_MEMTIME |-> 30],
   VOP1 |-> [V_MOV_B32 |-> 1, V_CVT_F32_I32 |-> 5, V_CVT_I32_F32 |-> 8, V_LOG_F32 |-> 39, V_RCP_F32 |-> 42,
             V_RCP_F64 |-> 47, V_SQRT_F32 |-> 51, V_SQRT_F64 |-> 52, V_SIN_F32 |-> 53, V_BFREV_B32 |-> 56],
   VOP2 |-> [V_ADD_F32 |-> 3, V_SUB_F32 |-> 4, V_MUL_F32 |-> 8, V_MUL_I32_I24 |-> 9, V_AND_B32 |-> 27,
             V_ADD_I32 |-> 37],
   VOPC |-> [V_CMP_LT_F32 |-> 1, V_CMP_GT_F32 |-> 4, V_CMPX_LT_F32 |-> 17, V_CMPX_GT_F32 |-> 20],
   VOP3 |-> [V_FMA_F32 |-> 331, V_FMA_F64 |-> 332, V_MUL_F64 |-> 357, V_MUL_LO_I32 |-> 363, V_MUL_HI_I32 |-> 364],
   MTBUF |-> [TBUFFER_LOAD_FORMAT_X |-> 0, TBUFFER_LOAD_FORMAT_XYZW |-> 3, TBUFFER_STORE_FORMAT_X |-> 4,
              TBUFFER_STORE_FORMAT_XY |-> 5, TBUFFER_STORE_FORMAT_XYZW |-> 7],
   MUBUF |-> [BUFFER_LOAD_UBYTE |-> 8, BUFFER_LOAD_USHORT |-> 10, BUFFER_LOAD_DWORD |-> 12,
              BUFFER_LOAD_DWORDX2 |-> 13, BUFFER_LOAD_DWORDX4 |-> 14, BUFFER_STORE_BYTE |-> 24,
              BUFFER_STORE_SHORT |-> 26, BUFFER_STORE_DWORD |-> 28, BUFFER_STORE_DWORDX2 |-> 29,
              BUFFER_STORE_DWORDX4 |-> 30, BUFFER_ATOMIC_ADD |-> 50]]

-----------------------------------------------------------------------------
(* The formats: length in words, where and what the encoding is, where the *)
(* opcode is and which have a name, the operand fields and their codes.     *)

\* A field of the format, with the codes it may hold.
Operand(word, shift, width, codes) == [at |-> At(word, shift, width), codes |-> codes]
Flag(word, shift) == Operand(word, shift, 1, 0 .. 1)

SOP1 == [length |-> 1, encoding |-> At(1, 23, 9), code |-> \h17D, op |-> At(1, 8, 8), ops |-> SOP1Op,
         fields |-> [SSRC0 |-> Operand(1, 0, 8, ScalarSource), SDST |-> Operand(1, 16, 7, ScalarDest)]]

SOP2 == [length |-> 1, encoding |-> At(1, 30, 2), code |-> \h2, op |-> At(1, 23, 7), ops |-> SOP2Op,
         fields |-> [SSRC0 |-> Operand(1, 0, 8, ScalarSource), SSRC1 |-> Operand(1, 8, 8, ScalarSource),
                     SDST |-> Operand(1, 16, 7, ScalarDest)]]

SOPK == [length |-> 1, encoding |-> At(1, 28, 4), code |-> \hB, op |-> At(1, 23, 5), ops |-> SOPKOp,
         fields |-> [SIMM16 |-> Operand(1, 0, 16, Immediate), SDST |-> Operand(1, 16, 7, ScalarDest)]]

SOPC == [length |-> 1, encoding |-> At(1, 23, 9), code |-> \h17E, op |-> At(1, 16, 7), ops |-> SOPCOp,
         fields |-> [SSRC0 |-> Operand(1, 0, 8, ScalarSource), SSRC1 |-> Operand(1, 8, 8, ScalarSource)]]

SOPP == [length |-> 1, encoding |-> At(1, 23, 9), code |-> \h17F, op |-> At(1, 16, 7), ops |-> SOPPOp,
         fields |-> [SIMM16 |-> Operand(1, 0, 16, Immediate)]]

SMRD == [length |-> 1, encoding |-> At(1, 27, 5), code |-> \h18, op |-> At(1, 22, 5), ops |-> SMRDOp,
         fields |-> [OFFSET |-> Operand(1, 0, 8, 0 .. 255), IMM |-> Flag(1, 8),
                     SBASE |-> Operand(1, 9, 6, 0 .. 63), SDST |-> Operand(1, 15, 7, ScalarDest)]]

VOP1 == [length |-> 1, encoding |-> At(1, 25, 7), code |-> \h3F, op |-> At(1, 9, 8), ops |-> VOP1Op,
         fields |-> [SRC0 |-> Operand(1, 0, 9, VectorSource), VDST |-> Operand(1, 17, 8, Vgpr)]]

VOP2 == [length |-> 1, encoding |-> At(1, 31, 1), code |-> 0, op |-> At(1, 25, 6), ops |-> VOP2Op,
         fields |-> [SRC0 |-> Operand(1, 0, 9, VectorSource), VSRC1 |-> Operand(1, 9, 8, Vgpr),
                     VDST |-> Operand(1, 17, 8, Vgpr)]]

VOPC == [length |-> 1, encoding |-> At(1, 25, 7), code |-> \h3E, op |-> At(1, 17, 8), ops |-> VOPCOp,
         fields |-> [SRC0 |-> Operand(1, 0, 9, CompareSource), VSRC1 |-> Operand(1, 9, 8, Vgpr)]]

\* The two words of VOP3.
VOP3_0 == [VDST |-> Operand(1, 0, 8, Vgpr), ABS |-> Operand(1, 8, 3, 0 .. 7), CLAMP |-> Flag(1, 11)]
VOP3_1 == [SRC0 |-> Operand(2, 0, 9, VectorSource \ {Literal}), SRC1 |-> Operand(2, 9, 9, VectorSource \ {Literal}),
           SRC2 |-> Operand(2, 18, 9, VectorSource \ {Literal}), OMOD |-> Operand(2, 27, 2, 0 .. 3),
           NEG |-> Operand(2, 29, 3, 0 .. 7)]

\* The second words of MTBUF and MUBUF have the same layout.
MTBUF_1 == [VADDR |-> Operand(2, 0, 8, Vgpr), VDATA |-> Operand(2, 8, 8, Vgpr), SRSRC |-> Operand(2, 16, 5, 0 .. 31),
            SLC |-> Flag(2, 22), TFE |-> Flag(2, 23), SOFFSET |-> Operand(2, 24, 8, Offset)]
MUBUF_1 == MTBUF_1

MTBUF_0 == [OFFSET |-> Operand(1, 0, 12, ByteOffset), OFFEN |-> Flag(1, 12), IDXEN |-> Flag(1, 13), GLC |-> Flag(1, 14),
            ADDR64 |-> Flag(1, 15), DFMT |-> Operand(1, 19, 4, 0 .. 15), NFMT |-> Operand(1, 23, 3, 0 .. 7)]
MUBUF_0 == [OFFSET |-> Operand(1, 0, 12, ByteOffset), OFFEN |-> Flag(1, 12), IDXEN |-> Flag(1, 13), GLC |-> Flag(1, 14),
            ADDR64 |-> Flag(1, 15), LDS |-> Flag(1, 16)]

\* The fields of both words.
Both(first, second) ==
  [n \in DOMAIN first \cup DOMAIN second |-> IF n \in DOMAIN first THEN first[n] ELSE second[n]]

VOP3 == [length |-> 2, encoding |-> At(1, 26, 6), code |-> \h34, op |-> At(1, 17, 9), ops |-> VOP3Op,
         fields |-> Both(VOP3_0, VOP3_1)]

MTBUF == [length |-> 2, encoding |-> At(1, 26, 6), code |-> \h3A, op |-> At(1, 16, 3), ops |-> MTBUFOp,
          fields |-> Both(MTBUF_0, MTBUF_1)]
MUBUF == [length |-> 2, encoding |-> At(1, 26, 6), code |-> \h38, op |-> At(1, 18, 7), ops |-> MUBUFOp,
          fields |-> Both(MUBUF_0, MUBUF_1)]

\* The formats no encoder writes: a stray word may still be one of them.
MIMG == [length |-> 2, encoding |-> At(1, 26, 6), code |-> \h3C, op |-> At(1, 18, 7), ops |-> MIMGOp, fields |-> <<>>]
DS == [length |-> 2, encoding |-> At(1, 26, 6), code |-> \h36, op |-> At(1, 18, 8), ops |-> DSOp, fields |-> <<>>]
FLAT == [length |-> 2, encoding |-> At(1, 26, 6), code |-> \h37, op |-> At(1, 18, 7), ops |-> FLATOp, fields |-> <<>>]
VINTRP == [length |-> 1, encoding |-> At(1, 26, 6), code |-> \h32, op |-> At(1, 16, 2), ops |-> VINTRPOp, fields |-> <<>>]
EXP == [length |-> 2, encoding |-> At(1, 26, 6), code |-> \h3E, op |-> At(1, 26, 6), ops |-> {\h3E}, fields |-> <<>>]

Formats ==
  [SOP1 |-> SOP1, SOP2 |-> SOP2, SOPK |-> SOPK, SOPC |-> SOPC, SOPP |-> SOPP, SMRD |-> SMRD,
   VOP1 |-> VOP1, VOP2 |-> VOP2, VOPC |-> VOPC, VOP3 |-> VOP3, MTBUF |-> MTBUF, MUBUF |-> MUBUF,
   MIMG |-> MIMG, DS |-> DS, FLAT |-> FLAT, VINTRP |-> VINTRP, EXP |-> EXP]

-----------------------------------------------------------------------------
(* Decoding.  Encodings overlap, the longest that matches decides: the      *)
(* opcodes 61 to 63 of SOP2 and 62 and 63 of VOP2 are other formats.       *)

\* The formats an instruction word may be of; the formats are an argument of each step.
Matching(formats, word) == {f \in DOMAIN formats : G(formats[f].encoding, <<word>>) = formats[f].code}

Longest(formats, names) ==
  {f \in names : \A g \in names : formats[g].encoding.width <= formats[f].encoding.width}

\* What a field holds; the words behind the end of the code are not known.
Held(field, words) == IF field.at.word <= Len(words) THEN G(field.at, words) ELSE -1

Constant(operand) == \E n \in DOMAIN operand : n \in {"SRC0", "SSRC0", "SSRC1"} /\ operand[n] = Literal

\* named: whether sid.h names the opcode and every operand code.
\* size: in words, a literal constant included.
Instruction(name, format, words, operand) ==
  [format |-> name, op |-> G(format.op, words), operand |-> operand, literal |-> Constant(operand),
   size |-> format.length + (IF Constant(operand) THEN 1 ELSE 0),
   named |-> /\ G(format.op, words) \in format.ops
             /\ \A n \in DOMAIN operand : operand[n] \in format.fields[n].codes]

Read(name, format, words) ==
  Instruction(name, format, words, [n \in DOMAIN format.fields |-> Held(format.fields[n], words)])

DecodeAs(formats, names, w, i) ==
  IF names = {} THEN [format |-> "none", named |-> FALSE]
  ELSE LET name == CHOOSE f \in names : TRUE
       IN  Read(name, formats[name], SubSeq(w, i, i + formats[name].length - 1))

DecodeBy(formats, w, i) == DecodeAs(formats, Longest(formats, Matching(formats, w[i])), w, i)

\* The instruction that begins at position i of the words w.
Decode(w, i) == DecodeBy(Formats, w, i)

-----------------------------------------------------------------------------
(* The words of a buffer resource, SQ_BUF_RSRC_WORD0 to 3.                 *)

SQ_BUF_RSRC ==
  [BASE_ADDRESS |-> At(1, 0, 32), BASE_ADDRESS_HI |-> At(2, 0, 16), STRIDE |-> At(2, 16, 14),
   CACHE_SWIZZLE |-> At(2, 30, 1), SWIZZLE_ENABLE |-> At(2, 31, 1), NUM_RECORDS |-> At(3, 0, 32),
   DST_SEL_X |-> At(4, 0, 3), DST_SEL_Y |-> At(4, 3, 3), DST_SEL_Z |-> At(4, 6, 3), DST_SEL_W |-> At(4, 9, 3),
   NUM_FORMAT |-> At(4, 12, 3), DATA_FORMAT |-> At(4, 15, 4), ELEMENT_SIZE |-> At(4, 19, 2),
   INDEX_STRIDE |-> At(4, 21, 2), ADD_TID_ENABLE |-> At(4, 23, 1), HASH_ENABLE |-> At(4, 25, 1),
   HEAP |-> At(4, 26, 1), TYPE |-> At(4, 30, 2)]
=============================================================================
