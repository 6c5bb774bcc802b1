----------------------------- MODULE MCMtabLock -----------------------------
(***************************************************************************)
(* Instances of MtabLock for TLC.                                          *)
(***************************************************************************)
EXTENDS MtabLock

CONSTANTS p1, p2, p3

ThreeProcs == {p1, p2, p3}
TwoProcs == {p1, p2}

AllFaults == FaultKinds
NoFaults == {}

(* The helpers are interchangeable: whatever they do is done, under other  *)
(* names, when p1 is the first of them to begin and p3 the last; and none  *)
(* of them fails to begin.                                                 *)
InOrder == (At(p1, "start") => At(p2, "start")) /\ (At(p2, "start") => At(p3, "start"))

InOrderSpec == MtabInit /\ [][MtabNext /\ InOrder']_mvars /\ MtabFairness
=============================================================================
