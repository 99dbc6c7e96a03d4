--------------------------- MODULE MCDockedDrawers ---------------------------
(* Two drawers beside each other and one inside the first. *)
EXTENDS DockedDrawers

CONSTANTS a, b, inner

MCParent == [d \in Drawer |-> IF d = inner THEN a ELSE TopLevel]
OneWidth == [d \in Drawer |-> {440}]
Widths == [d \in Drawer |-> IF d = a THEN {440, 500} ELSE {440}]

\* A phone, a tablet and a desktop.
Windows == {700, 1000, 1300}
Desktop == {1300}
NoDrags == [d \in Drawer |-> {}]
FirstDrags == [d \in Drawer |-> IF d = a THEN {350} ELSE {}]
=============================================================================
