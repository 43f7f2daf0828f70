--------------------------- MODULE MCGuestMemory -----------------------------
(* Small address spaces for TLC.  An arena that plays no part in a run is   *)
(* empty: its first page is its end page.                                   *)
EXTENDS GuestMemory

\* Heap and private arena: five and three pages.
HeapLo == [x \in Arenas |-> CASE x = "heap" -> 1 [] x = "private" -> 6 [] OTHER -> 9]
HeapHi == [x \in Arenas |-> CASE x = "heap" -> 6 [] x = "private" -> 9 [] OTHER -> 9]

\* Virtual arenas and images: the stack page lies inside the high one.  The
\* host refuses one page of the low virtual arena and one of the images.
VirtLo == [x \in Arenas |-> CASE x = "virtual" -> 1 [] x = "virtual_high" -> 6
                              [] x = "module" -> 9 [] OTHER -> 12]
VirtHi == [x \in Arenas |-> CASE x = "virtual" -> 6 [] x = "virtual_high" -> 9
                              [] x = "module" -> 12 [] OTHER -> 12]
VirtStack == {7}
VirtRefused == {5, 11}

NoPages == {}
OneTwo == {1, 2}
NoneOne == {0, 1}
=============================================================================
