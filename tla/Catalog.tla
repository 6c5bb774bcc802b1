------------------------------ MODULE Catalog ------------------------------
(***************************************************************************)
(* What the archiver promises about Glacier and its database, whatever     *)
(* processes, transactions and temporary files bring it about:             *)
(*   - an archive, once stored, stays, and so does a record;               *)
(*   - no file is stored a second time, or recorded a second time;         *)
(*   - a record that has an archive id is made after its archive and lists *)
(*     exactly the files in it.                                            *)
(* A record may have no id (0): the files were read but never stored.      *)
(***************************************************************************)
EXTENDS Integers, Sequences

CONSTANT Files

VARIABLES
  glacier, (* the sets of files stored, the archive id being the position *)
  rows     (* the records                                                *)

Init == glacier = <<>> /\ rows = {}

Store(files) ==
  /\ \A a \in DOMAIN glacier : glacier[a] \cap files = {}
  /\ glacier' = Append(glacier, files)
  /\ UNCHANGED rows

Record(files, id) ==
  /\ id # 0 => id \in DOMAIN glacier /\ glacier[id] = files
  /\ \A r \in rows : r.files \cap files = {}
  /\ rows' = rows \cup {[archive_id |-> id, files |-> files]}
  /\ UNCHANGED glacier

Next ==
  \E files \in (SUBSET Files) \ {{}} :
    Store(files) \/ \E id \in {0} \cup DOMAIN glacier : Record(files, id)

Spec == Init /\ [][Next]_<<glacier, rows>>
=============================================================================
