------------------------------ MODULE Opcodes ------------------------------
(***************************************************************************)
(* opcodes.h, and what interp.c erases for each instruction.               *)
(*                                                                         *)
(* A program is a record: code, a sequence of [op, arg]; functions, a      *)
(* sequence of [at, nargs].  An address is an instruction's index, from 0. *)
(***************************************************************************)
EXTENDS Integers, Sequences

CONSTANT TrapSize      \* slots of a trap, 6 in the code

Instructions == [op : STRING, arg : Int]
Functions == [at : Nat, nargs : Nat]

CALL_MAX_ARGS == 5

At(p, i) == IF i = Len(p.code) THEN [op |-> "Last", arg |-> 0] ELSE p.code[i + 1]

Binary == {"Add", "Sub", "Mult", "Div", "Mod", "Shl", "Shr", "UShr", "Or", "And", "Xor",
           "Eq", "Neq", "Gt", "Gte", "Lt", "Lte", "Compare", "PhysCompare"}
Jumps == {"Jump", "JumpIf", "JumpIfNot", "Trap"}
PopsParameter == {"Pop", "Call", "ObjCall", "MakeEnv", "MakeArray", "Apply"}

\* The checker's idea of what an instruction does to the stack.
stack_table(op, arg) ==
    CASE op = "Push" -> 1
      [] op = "Trap" -> TrapSize
      [] op = "EndTrap" -> -TrapSize
      [] op = "SetArray" -> -2
      [] op \in Binary \cup {"AccArray", "SetField", "SetIndex"} -> -1
      [] op \in PopsParameter -> -arg
      [] OTHER -> 0

\* The interpreter's: slots an instruction erases.
Erased(op, arg) ==
    CASE op \in Binary \cup {"AccArray", "SetField", "SetIndex"} -> 1
      [] op = "SetArray" -> 2
      [] op \in {"Pop", "Call", "Apply", "MakeEnv", "MakeArray"} -> arg
      [] op = "ObjCall" -> arg + 1
      [] OTHER -> 0

\* Instructions that only compute: neither jump, push nor touch a trap.
Plain == Binary \cup PopsParameter \cup
         {"AccNull", "AccTrue", "AccFalse", "AccThis", "AccInt", "AccStack", "AccStack0",
          "AccStack1", "AccGlobal", "AccEnv", "AccField", "AccArray", "AccIndex",
          "AccIndex0", "AccIndex1", "AccBuiltin", "SetGlobal", "SetEnv", "SetField",
          "SetArray", "SetIndex", "SetThis", "Bool", "IsNull", "IsNotNull", "Not",
          "TypeOf", "Hash", "New"}
=============================================================================
