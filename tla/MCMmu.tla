-------------------------------- MODULE MCMmu --------------------------------
(* Two levels of two entries; a TLB of two slots, so that a page meets its  *)
(* next-but-one neighbour and the kernel's half in a slot; two roots, of    *)
(* which the kernel edits one, and the table below it.                      *)
EXTENDS Mmu

P(half, n) == [half |-> half, n |-> n]

Perms == [no_el0 |-> FALSE, no_write |-> FALSE, uxn |-> FALSE, pxn |-> FALSE]
Table(t, perms) == [kind |-> "table", next |-> t, perms |-> perms]
UserPage(frame) == [kind |-> "leaf", out |-> frame, af |-> TRUE, el0 |-> TRUE, ro |-> FALSE,
                    uxn |-> FALSE, pxn |-> TRUE]
KernelPage(frame) == [UserPage(frame) EXCEPT !.el0 = FALSE, !.uxn = TRUE, !.pxn = FALSE]
Shared(frame) == [UserPage(frame) EXCEPT !.ro = TRUE]
Old(frame) == [UserPage(frame) EXCEPT !.af = FALSE]

MCTables == {"a", "b", "l", "k"}

MCTables0 ==
    [place \in Places |->
        CASE place = <<"a", 0>> -> Table("l", Perms)
          [] place = <<"b", 0>> -> UserPage(3)
          [] place \in {<<"a", 1>>, <<"k", 0>>} -> KernelPage(1)
          [] OTHER -> Invalid]

MCDescs ==
    [place \in Places |->
        CASE place = <<"a", 0>> -> {Table("l", Perms),
                                    Table("l", [Perms EXCEPT !.no_write = TRUE, !.uxn = TRUE])}
          [] place = <<"l", 0>> -> {Invalid, UserPage(0), Shared(1)}
          [] place = <<"l", 1>> -> {Invalid, UserPage(2), Old(2), Table("b", Perms)}
          [] OTHER -> {}]

\* A table's descriptor at the last level maps the table itself.
MCAsPage == [d \in TableDesc |-> KernelPage(0)]

\* Accesses of one page, of two pages, and of two elements, for both levels.
Of(kind, elems, el) == [kind |-> kind, elems |-> elems, el |-> el]
MCInsns == {Of("load", <<<<P(0, 0), P(0, 1)>>>>, 0), Of("load", <<<<P(1, 0)>>>>, 1),
            Of("store", <<<<P(0, 0), P(0, 1)>>>>, 0), Of("store", <<<<P(0, 0)>>, <<P(0, 1)>>>>, 0),
            Of("store", <<<<P(0, 0)>>>>, 1), Of("load", <<<<P(0, 2)>>>>, 0),
            Of("rmw", <<<<P(0, 1)>>>>, 0), Of("fetch", <<<<P(0, 0)>>>>, 0)}
=============================================================================
