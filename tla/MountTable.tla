---------------------------- MODULE MountTable ----------------------------
(***************************************************************************)
(* What the mount helpers promise about /etc/mtab: each adds at most one   *)
(* entry and none is lost; a helper that reports success has its whole     *)
(* entry there; one that reports failure has not, at most what it wrote    *)
(* and could not cut back: a part of it, or all of it, unwanted.           *)
(***************************************************************************)
EXTENDS Sequences

CONSTANT Procs

VARIABLES
  table,    (* the entries, each named after the helper that added it      *)
  ok,       (* the helpers that have reported success                      *)
  failed    (* and those that have reported failure                        *)

Whole(p) == [of |-> p, kind |-> "whole"]

Entries == {table[i] : i \in DOMAIN table}
Owners == {e.of : e \in Entries}

Init == table = <<>> /\ ok = {} /\ failed = {}

Add(p) ==
  /\ p \notin Owners \cup failed
  /\ \E kind \in {"whole", "part", "unwanted"} :
       table' = Append(table, [of |-> p, kind |-> kind])
  /\ UNCHANGED <<ok, failed>>

Succeed(p) ==
  /\ Whole(p) \in Entries
  /\ ok' = ok \cup {p}
  /\ UNCHANGED <<table, failed>>

Fail(p) ==
  /\ Whole(p) \notin Entries
  /\ failed' = failed \cup {p}
  /\ UNCHANGED <<table, ok>>

Spec == Init /\ [][\E p \in Procs : Add(p) \/ Succeed(p) \/ Fail(p)]_<<table, ok, failed>>
=============================================================================
