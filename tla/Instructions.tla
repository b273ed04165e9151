---------------------------- MODULE Instructions ----------------------------
(***************************************************************************)
(* Instructions of include/lang/bytecode.hpp: op names the operation, a, b *)
(* and c are its operands, 0 when it has none.  The values of constants    *)
(* are left out.                                                           *)
(***************************************************************************)
EXTENDS Integers

Instruction(op, a, b, c) == [op |-> op, a |-> a, b |-> b, c |-> c]

I(op)           == Instruction(op, 0, 0, 0)
I1(op, x)       == Instruction(op, x, 0, 0)
I2(op, x, y)    == Instruction(op, x, y, 0)
I3(op, x, y, z) == Instruction(op, x, y, z)
Const    == I("ConstantI64")
Load(i)  == I1("LoadLocal", i)
Store(i) == I1("StoreLocal", i)
=============================================================================
