-------------------------------- MODULE MCMemory --------------------------------
(* The memory alone for TLC: one caller, told a fact and giving outputs.       *)
EXTENDS SessionMemory

MCEarlier == {<<>>}
MCSaidBy == [o \in Outputs |-> IF o = "o2" THEN "b" ELSE "a"]
=============================================================================
