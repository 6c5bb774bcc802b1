----------------------------- MODULE MCCrawler -----------------------------
(***************************************************************************)
(* Instances of Crawler for TLC.  Files are model values; the sizes are    *)
(* the ones on both sides of the megabyte boundary addFile divides at.     *)
(***************************************************************************)
EXTENDS Crawler

CONSTANTS f1, f2, f3, f4, f5, f6

FewFiles == {f1, f2, f3}
SixFiles == {f1, f2, f3, f4, f5, f6}

(* Empty, one byte short of a megabyte, one byte over.                     *)
BoundarySizes == {0, 1048575, 1048577}

OneLink == {f1}

(* With -x 1 and -z 5, f6 is too old and every other file is selected.     *)
Ages == [f \in Files |-> CASE f \in {f2, f3} -> 2 [] f = f4 -> 3 [] f = f6 -> 5
                           [] OTHER -> 4]
=============================================================================
