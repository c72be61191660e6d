----------------------------- MODULE MCRiskTrends -----------------------------
(* Two organizations with one analysis each; a later one resolves its      *)
(* finding.                                                                *)
EXTENDS RiskTrends

Analysis(local, profile, counts) ==
  [source |-> "archive", profile |-> profile, coverage |-> [complete |-> TRUE, counts |-> counts],
   localValid |-> TRUE, local |-> local, public |-> "absent", advisories |-> {}]
MCRetained == Analysis({"f"}, "p", 1)
MCAnalyses == {Analysis({}, "p", 1)}
MCEcosystem == "f" :> "npm"
=============================================================================
