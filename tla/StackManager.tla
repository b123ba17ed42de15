--------------------------- MODULE StackManager ---------------------------
(***************************************************************************)
(* The interpreter's single stack of operand values, labels and frames    *)
(* (StackManager, used by src/lib/interpreter/engine/engine.cpp through   *)
(* StackMgr).  Its source is not under src/, so every operator here is    *)
(* modelled from spec.md section 4.2.  A stack is a sequence, bottom      *)
(* first, of entries of three shapes:                                      *)
(*   [t |-> "val",   v |-> value]                                          *)
(*   [t |-> "label", arity |-> n, cont |-> <<>> or <<loop instruction>>]   *)
(*   [t |-> "frame", mod |-> m, arity |-> p, coarity |-> r, base |-> b]    *)
(* cont is the label's Target: empty for block, if and a function body,   *)
(* the loop instruction for a loop.  base is the stack position of the    *)
(* frame's first argument (the stack height at entry, plus one).          *)
(***************************************************************************)
LOCAL INSTANCE Naturals
LOCAL INSTANCE Sequences
LOCAL INSTANCE FiniteSets

Val(v) == [t |-> "val", v |-> v]

IsVal(e) == e.t = "val"
IsLabel(e) == e.t = "label"
IsFrame(e) == e.t = "frame"

\* Positions of the entries of a kind, and the topmost one (0 if none).
Positions(s, Is(_)) == {i \in 1..Len(s) : Is(s[i])}
TopPos(s, Is(_)) ==
    LET P == Positions(s, Is) IN IF P = {} THEN 0 ELSE CHOOSE i \in P : \A j \in P : j <= i

\* push / pop / top of an operand value.
Push(s, v) == Append(s, Val(v))
Top(s) == s[Len(s)].v
Pop(s) == SubSeq(s, 1, Len(s) - 1)
PopN(s, n) == SubSeq(s, 1, Len(s) - n)
\* The n topmost values, bottom first.
TopN(s, n) == SubSeq(s, Len(s) - n + 1, Len(s))

\* pushLabel(Arity, Target).
PushLabel(s, arity, cont) ==
    Append(s, [t |-> "label", arity |-> arity, cont |-> cont])

\* Position of the label getLabelWithCount(n) returns: the n-th label from
\* the top, counting from 0.
LabelPos(s, n) ==
    CHOOSE i \in Positions(s, IsLabel) :
        Cardinality({j \in Positions(s, IsLabel) : j > i}) = n

\* Mutation: keep the arity of the topmost label dropped, not the deepest.
PopLabelTopArity(s, n) ==
    SubSeq(s, 1, LabelPos(s, n - 1) - 1) \o TopN(s, s[LabelPos(s, 0)].arity)

\* popLabel(n): drop the n topmost labels and everything above them, but
\* keep the top arity(L) values, L being the deepest label dropped.
PopLabel(s, n) ==
    LET p == LabelPos(s, n - 1)
    IN SubSeq(s, 1, p - 1) \o TopN(s, s[p].arity)

\* pushFrame(ModuleAddr, Arity, Coarity): the Arity arguments are already
\* on the stack below the new frame.
PushFrame(s, mod, arity, coarity) ==
    Append(s, [t |-> "frame", mod |-> mod, arity |-> arity,
                coarity |-> coarity, base |-> Len(s) - arity + 1])

\* The current frame and the module address it records (getModuleAddr).
CurFrame(s) == s[TopPos(s, IsFrame)]
ModuleAddr(s) == CurFrame(s).mod

\* The number of labels above the current frame: what popFrame returns.
LabelsInFrame(s) ==
    Cardinality({i \in Positions(s, IsLabel) : i > TopPos(s, IsFrame)})

\* Mutation: cut the stack at the frame entry, leaving the arguments.
PopFrameKeepArgs(s) ==
    SubSeq(s, 1, TopPos(s, IsFrame) - 1) \o TopN(s, CurFrame(s).coarity)

\* popFrame: remove the frame, its arguments and everything above it, and
\* re-push its coarity topmost values.
PopFrame(s) ==
    LET f == CurFrame(s)
    IN SubSeq(s, 1, f.base - 1) \o TopN(s, f.coarity)

\* Stack position of local variable i of the current frame: the arguments
\* lie below the frame entry, the declared locals above it.
LocalPos(s, i) ==
    LET f == CurFrame(s)
    IN IF i < f.arity THEN f.base + i ELSE f.base + i + 1

=============================================================================
