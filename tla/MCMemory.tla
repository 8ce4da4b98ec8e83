----------------------------- MODULE MCMemory ------------------------------
(* Module Memory for TLC: the executables the programs load.               *)
EXTENDS Memory

(* One page of text, no data and one page of stack; and one that needs two *)
(* frames more, for data and for arguments.                                *)
SmallProgram ==
  [text_pg1 |-> 0, t_npg |-> 1, data_pg1 |-> 1, data_npg |-> 0, stack_npg |-> 1]
LargeProgram ==
  [text_pg1 |-> 0, t_npg |-> 1, data_pg1 |-> 1, data_npg |-> 1, stack_npg |-> 2]

(* Its data would end where its stack begins: LoadProgram refuses it.      *)
TightProgram ==
  [text_pg1 |-> 0, t_npg |-> 1, data_pg1 |-> 1, data_npg |-> 3, stack_npg |-> 1]

MCPrograms == {SmallProgram, LargeProgram, TightProgram}

============================================================================
