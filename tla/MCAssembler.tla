---------------------------- MODULE MCAssembler ----------------------------
(* Assembler on corner values of the operands. *)
EXTENDS Assembler

MCScalarSources == {5, 129, Literal}
MCVectorSources == {5, Literal, 256 + 170}
MCBackward == {-1, -4102, 3}
MCJumps == {3, -1}
MCAddresses == {{12, 31}, {8, 32, 47}}

MCCode == [high |-> {31, 39}, low |-> 4096]
\* Sequences of 0, 1 and 16 words of user data.
MCUserData == {[k \in 1 .. n |-> Word(k)] : n \in {0, 1, 16}}
MCLaunches ==
  [userData : MCUserData, blockDim : {<<7>>, <<1920, 1080, 3>>}, threadOffset : {<<>>, <<1, 2, 3>>},
   localSize : {<<256>>, <<1, 8, 32>>}, vgprnum : {0, 1, 4, 5, 50, 256}, sgprnum : {0, 8, 9, 50, 128},
   localMemSize : {0, 1, 256, 32768}, code : {MCCode}]

\* main.cpp, fma_test.cpp, read_test.cpp and write_test.cpp.
ClientState(sgpr, vgpr, group) ==
  [user_data |-> [k \in 1 .. 4 |-> Word(k)], dim |-> <<32, 1, 1>>, start |-> <<0, 0, 0>>,
   num_thread |-> <<group, 1, 1>>, sgpr_num |-> sgpr, vgpr_num |-> vgpr, ieee_mode |-> 0, lds_size |-> 0,
   thread_groups_per_cu |-> 1, binary |-> MCCode]
MCStates == {ClientState(11, 10, 256), ClientState(5, 5, 1792), ClientState(5, 5, 512), ClientState(5, 5, 256)}

\* Page-aligned, in the middle of a page, and at an odd byte.
MCCopyAddresses == {[high |-> {32, 39}, low |-> 4096], [high |-> {31}, low |-> 2100], [high |-> {}, low |-> 12289]}
MCCopySizes == {1, 4, 524284, 524288, 524289, 1048576, 2097156}
=============================================================================
