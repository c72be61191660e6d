------------------------- MODULE MCFindingDecisions -------------------------
(***************************************************************************)
(* Two projects with one finding each; one batch over both and one over    *)
(* the first.                                                              *)
(***************************************************************************)
EXTENDS FindingDecisions

MCProjectOf == <<"p1", "p2">>
MCBatches == [b1 |-> [items |-> {1, 2}, status |-> "accepted"],
              b2 |-> [items |-> {1}, status |-> "in_review"]]
=============================================================================
