-------------------------------- MODULE MCJit --------------------------------
(* Two physical pages of four words: user code at pages 0 and 1 (which may  *)
(* be the same memory, or missing), the kernel's vector in page 2.          *)
EXTENDS Jit

I(op) == [op |-> op, off |-> 0]
J(op, off) == [op |-> op, off |-> off]

MCOffsets == -3 .. 9
MCMaps == {<<0, 0, 1>>, <<None, 0, 1>>}
MCMappings == {[v \in 0 .. 2 |-> m[v + 1]] : m \in MCMaps}

Code(user, kernel) == [a \in 0 .. 7 |-> IF a < 4 THEN user[a + 1] ELSE kernel[a - 3]]

\* Loops of one, two and three blocks with stores, tests, calls and returns,
\* under a kernel that invalidates and remaps, and one that only does the latter.
Invalidating == <<I("ic"), I("remap"), I("eret"), I("ret")>>
Remapping == <<I("remap"), I("eret"), I("st"), I("ret")>>
Users == {<<I("op"), I("st"), J("cb", -2), J("b", -3)>>,
          <<J("cb", 2), J("bl", 1), J("cb", -2), J("b", 1)>>,
          <<I("op"), I("op"), I("op"), I("op")>>,
          <<J("cb", 8), I("st"), J("cb", -1), I("und")>>,
          <<I("op"), J("cb", -1), J("bl", 9), I("ret")>>}
MCPrograms == {Code(u, k) : u \in Users, k \in {Invalidating, Remapping}}
                \cup {Code(<<I("op"), J("cb", -1), I("st"), J("b", -3)>>,
                           <<I("eret"), I("op"), I("ic"), I("ret")>>)}
MCPatches == [a \in 0 .. 7 |-> CASE a = 0 -> {I("op"), J("b", 2)} [] a = 2 -> {I("ic")}
                                 [] OTHER -> {}]

\* A call of what X30 points to: 0 calls 2, which calls back, and again.
MCCallPrograms == {Code(<<J("bl", 2), J("b", -1), I("blr"), J("b", -3)>>, Remapping)}
=============================================================================
