--------------------------- MODULE MCInterpreter ---------------------------
(***************************************************************************)
(* A small validated module for the Interpreter model.                     *)
(*   1 main(x)   copies x, then loops calling dec(x) until x = 0: the      *)
(*               br_if out of the loop and its block carries the original  *)
(*               x (block arity 1) over the current x, which it drops;     *)
(*               then returns pick(original x);                            *)
(*   2 dec(x)    returns x - 1 from inside two blocks: br_table to either  *)
(*               block, then return across one label or a plain exit;     *)
(*   3 pick(x)   if x # 0, call_indirect table slot x - 1 with x, else     *)
(*               call the host function with 1;                            *)
(*   4 host      a host function of cost 2;                                *)
(*   5 spin()    loop { i32.const 0; drop; br 0 }, which never ends;       *)
(*   6 divide(x) unreachable if x = 4, 6 / ((x + 5) mod 8), select on x;  *)
(*   7 mem(x)    grows memory 0 by a page, stores 6 at x, loads its bytes  *)
(*               at x+1 (sign-extended) and x+2, stores 1 in byte 3,       *)
(*               fails to grow by 2 pages, returns load(x) + memory.size;  *)
(*               the store traps for x = 2;                                *)
(*   8 peek(x)   load8_u at x in the initial page, which traps for x = 2;  *)
(*   9 wide(x)   grows memory 0 to 3 pages, i64.store of 45 at x (which    *)
(*               traps for x = 1), sums every i64 load and the extended   *)
(*               i32.load16 ones at x, then i64.store32/16/8 and           *)
(*               i32.store16 over parts of the stored i64.                 *)
(* Memory 0 has pages of PageBytes = 2 bytes, 1 page to start and 3 at     *)
(* most.                                                                   *)
(* Table 0 is <<dec, host, spin, empty>>: slot 2 has the wrong type for    *)
(* call_indirect (i32)->(i32), slot 3 is empty and 4 is out of range.      *)
(***************************************************************************)
EXTENDS Interpreter

Block(a, body) == [op |-> "block", arity |-> a, body |-> body]
Loop(body) == [op |-> "loop", body |-> body]
If(a, th, el) == [op |-> "if", arity |-> a, then |-> th, else |-> el]
Br(n) == [op |-> "br", n |-> n]
BrIf(n) == [op |-> "br_if", n |-> n]
BrTable(ls, d) == [op |-> "br_table", labels |-> ls, default |-> d]
Call(f) == [op |-> "call", f |-> f]
CallIndirect(p, r) == [op |-> "call_indirect", params |-> p, results |-> r]
LocalGet(i) == [op |-> "local.get", i |-> i]
LocalSet(i) == [op |-> "local.set", i |-> i]
LocalTee(i) == [op |-> "local.tee", i |-> i]
Const(v) == [op |-> "i32.const", v |-> v]
Const64(v) == [op |-> "i64.const", v |-> v]
Op(name) == [op |-> name]
Mem(name, off) == [op |-> name, offset |-> off]

Native(p, r, l, body) ==
    [host |-> FALSE, mod |-> 0, params |-> p, results |-> r, locals |-> l,
     body |-> body, cost |-> 0]
Host(p, r, c) ==
    [host |-> TRUE, mod |-> 0, params |-> p, results |-> r, locals |-> 0,
     body |-> <<>>, cost |-> c]

MainBody ==
    << LocalGet(0), LocalSet(1),
       Block(1, << Loop(<< LocalGet(0), LocalGet(1), LocalGet(0), Op("i32.eqz"), BrIf(1),
                           Op("drop"), Op("drop"),
                           LocalGet(0), Call(2), LocalSet(0), Br(0) >>),
                   Op("unreachable") >>),
       Call(3) >>

DecBody ==
    << Block(0, << Block(0, << LocalGet(0), Const(1), Op("i32.sub"), LocalTee(0),
                              BrTable(<<0>>, 1) >>),
                   Const(0), Op("return") >>),
       LocalGet(0) >>

PickBody ==
    << LocalGet(0),
       If(1, << LocalGet(0), LocalGet(0), Const(1), Op("i32.sub"), CallIndirect(1, 1) >>,
             << Const(1), Call(4) >>) >>

SpinBody == << Loop(<< Const(0), Op("drop"), Br(0) >>) >>

DivideBody ==
    << LocalGet(0), Const(4), Op("i32.sub"), Op("i32.eqz"),
       If(0, << Op("unreachable") >>, << Op("nop") >>),
       Const(6), LocalGet(0), Const(5), Op("i32.add"), Op("i32.div_u"),
       Const(1), LocalGet(0), Op("select") >>

MemBody ==
    << Const(1), Op("memory.grow"), Op("drop"),
       LocalGet(0), Const(6), Mem("i32.store", 0),
       LocalGet(0), Mem("i32.load8_s", 1), Op("drop"),
       LocalGet(0), Mem("i32.load8_u", 2), Op("drop"),
       Const(0), Const(1), Mem("i32.store8", 3),
       Const(2), Op("memory.grow"), Op("drop"),
       LocalGet(0), Mem("i32.load", 0),
       Op("memory.size"), Op("i32.add") >>

PeekBody == << LocalGet(0), Mem("i32.load8_u", 0) >>

\* 45 is 101101 in little-endian bits: its halves and bytes all differ.
WideBody ==
    << Const(2), Op("memory.grow"), Op("drop"),
       LocalGet(0), Const64(45), Mem("i64.store", 0),
       LocalGet(0), Mem("i64.load", 0),
       LocalGet(0), Mem("i64.load32_s", 0), Op("i64.add"),
       LocalGet(0), Mem("i64.load32_u", 0), Op("i64.add"),
       LocalGet(0), Mem("i64.load16_s", 1), Op("i64.add"),
       LocalGet(0), Mem("i64.load16_u", 1), Op("i64.add"),
       LocalGet(0), Mem("i64.load8_s", 0), Op("i64.add"),
       LocalGet(0), Mem("i64.load8_u", 0), Op("i64.add"),
       LocalGet(0), Mem("i32.load16_s", 2), Op("i64.extend_i32_s"), Op("i64.add"),
       LocalGet(0), Mem("i32.load16_u", 2), Op("i64.extend_i32_u"), Op("i64.add"),
       LocalGet(0), Const64(7), Mem("i64.store32", 3),
       LocalGet(0), Const64(3), Mem("i64.store16", 1),
       LocalGet(0), Const64(1), Mem("i64.store8", 5),
       LocalGet(0), Const(2), Mem("i32.store16", 4) >>

MCFuncs ==
    << Native(1, 1, 1, MainBody), Native(1, 1, 0, DecBody),
       Native(1, 1, 0, PickBody), Host(1, 1, 2),
       Native(0, 0, 0, SpinBody), Native(1, 1, 0, DivideBody),
       Native(1, 1, 0, MemBody), Native(1, 1, 0, PeekBody),
       Native(1, 1, 0, WideBody) >>

MCTable == << 2, 4, 5, 0 >>

MCOps == {"unreachable", "nop", "return", "block", "loop", "if", "br", "br_if",
          "br_table", "call", "call_indirect", "drop", "select", "local.get",
          "local.set", "local.tee", "i32.const", "i32.eqz", "i32.add",
          "i32.sub", "i32.div_u", "i32.load", "i32.load8_s", "i32.load8_u",
          "i32.store", "i32.store8", "memory.grow", "memory.size",
          "i64.const", "i64.add", "i64.extend_i32_s", "i64.extend_i32_u",
          "i64.load", "i64.load32_s", "i64.load32_u", "i64.load16_s",
          "i64.load16_u", "i64.load8_s", "i64.load8_u", "i32.load16_s",
          "i32.load16_u", "i64.store", "i64.store32", "i64.store16",
          "i64.store8", "i32.store16"}

MCCostTab == [o \in MCOps |-> 1]

MCInvocations ==
    {[f |-> 1, args |-> <<x>>] : x \in 0..5}
    \cup {[f |-> 6, args |-> <<x>>] : x \in {0, 3, 4, 5}}
    \cup {[f |-> 7, args |-> <<x>>] : x \in 0..2}
    \cup {[f |-> 8, args |-> <<x>>] : x \in {1, 2}}
    \cup {[f |-> 9, args |-> <<x>>] : x \in {0, 1}}
    \cup {[f |-> 4, args |-> <<0>>], [f |-> 5, args |-> <<>>]}

MCInitExprs == { << Const(2) >> }

=============================================================================
