----------------------------- MODULE CurrentView -----------------------------
(***************************************************************************)
(* What a rebuildable projection promises its readers: what it labels      *)
(* current for an owner is what that owner's sources say at that moment.   *)
(* The label may be withdrawn at any time and for no reason (the           *)
(* projection is derived, never authority), and no write of a source       *)
(* waits for it.                                                           *)
(***************************************************************************)
CONSTANTS Owners,
          Unlabelled   \* nothing is labelled current

VARIABLES authority,   \* per owner: what the sources say
          labelled     \* per owner: what is labelled current

vars == <<authority, labelled>>

Init == \A o \in Owners : labelled[o] \in {authority[o], Unlabelled}

(* A source of the owner is written: no label survives it.                 *)
Mutate(o) ==
  /\ authority' # authority
  /\ \A p \in Owners \ {o} : authority'[p] = authority[p]
  /\ labelled'[o] = Unlabelled
  /\ \A p \in Owners \ {o} : labelled'[p] \in {labelled[p], Unlabelled}

(* A complete replacement is labelled, or labels are withdrawn.            *)
Relabel ==
  /\ UNCHANGED authority
  /\ \A o \in Owners : labelled'[o] \in {labelled[o], authority[o], Unlabelled}

Next == Relabel \/ \E o \in Owners : Mutate(o)

Spec == Init /\ [][Next]_vars
=============================================================================
