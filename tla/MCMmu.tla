------------------------------- MODULE MCMmu --------------------------------
(* Rewritten page tables: superpages, misaligned and reserved entries, and *)
(* tables that point to themselves.                                        *)
EXTENDS Mmu

At3(page, index, pte) == [page |-> page, index |-> index, pte |-> pte]

ExecuteOnly(page) == [Pointer(page) EXCEPT !.x = TRUE]
WriteOnly(page) == [Pointer(page) EXCEPT !.w = TRUE]

\* Sv39: root in page 4, one table of level 1 in page 5, two of level 0.
Sv39Writes ==
  {At3(5, 1, Leaf(3)), At3(4, 1, Leaf(4)), At3(5, 0, Pointer(4)),
   At3(6, 0, Pointer(6)), At3(7, 1, WriteOnly(1)), At3(6, 1, ExecuteOnly(3))}
\* Sv32: root in page 4, two tables of level 0 in pages 5 and 6.
Sv32Writes ==
  {At3(4, 1, Leaf(2)), At3(4, 1, Leaf(3)), At3(4, 1, Pointer(4)),
   At3(5, 0, Pointer(6)), At3(6, 1, WriteOnly(1)), At3(5, 1, ExecuteOnly(3)),
   At3(5, 1, ZeroPte)}

\* Two rewrites and a translation in Sv39; one and two in Sv32.
BothModes ==
  {[levels |-> 3, root |-> 4, level1 |-> 5, level0 |-> 6, valid |-> 1,
    ptes |-> Sv39Writes, writes |-> 2, translations |-> 1],
   [levels |-> 2, root |-> 4, level1 |-> 5, level0 |-> 5, valid |-> 2,
    ptes |-> Sv32Writes, writes |-> 1, translations |-> 2]}
=============================================================================
