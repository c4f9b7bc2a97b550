------------------------------ MODULE Catalog ------------------------------
(***************************************************************************)
(* What the index promises its readers: a catalogue of documents, each     *)
(* with the content it was indexed from and a version that counts the      *)
(* contents it has had since it entered the catalogue. An entry appears at *)
(* version 1, gains one version with each new content, keeps its version   *)
(* while its content stays, and leaves as a whole. DocStore implements it. *)
(***************************************************************************)
EXTENDS Naturals

CONSTANTS Ids, Texts, NoText

VARIABLE entry   \* [text, version] of each document, text NoText when absent

vars == entry

Absent == [text |-> NoText, version |-> 0]

Init == entry = [d \in Ids |-> Absent]

Enter(d, t) ==
  /\ entry[d] = Absent
  /\ entry' = [entry EXCEPT ![d] = [text |-> t, version |-> 1]]

Revise(d, t) ==
  /\ entry[d] # Absent
  /\ t # entry[d].text
  /\ entry' = [entry EXCEPT ![d] = [text |-> t, version |-> @.version + 1]]

\* A reindex may find several documents gone at once.
Leave(D) ==
  /\ D # {}
  /\ \A d \in D : entry[d] # Absent
  /\ entry' = [d \in Ids |-> IF d \in D THEN Absent ELSE entry[d]]

Next ==
  \/ \E d \in Ids, t \in Texts : Enter(d, t) \/ Revise(d, t)
  \/ \E D \in SUBSET Ids : Leave(D)

Spec == Init /\ [][Next]_vars
=============================================================================
