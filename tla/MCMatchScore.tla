----------------------------- MODULE MCMatchScore -----------------------------
(***************************************************************************)
(* MatchScore for TLC: three requirements that share skills in different    *)
(* ways, three clean spans and one under a finding of each severity.        *)
(***************************************************************************)
EXTENDS MatchScore

SeverityOf ==
  [s \in {"c1", "c2", "c3", "s1", "h1"} |->
     CASE s = "s1" -> {"info", "suspicious"}
       [] s = "h1" -> {"suspicious", "high"}
       [] s = "c3" -> {"info"}
       [] OTHER -> {}]

Req(crit, req, skill) == [criticality |-> crit, required |-> req, skill |-> skill]

CatalogueSet == {<<Req(3, TRUE, "go"), Req(1, FALSE, "sql"), Req(2, TRUE, "go")>>,
                 <<Req(3, FALSE, "go"), Req(3, TRUE, "sql"), Req(1, TRUE, "aws")>>,
                 <<Req(1, FALSE, "go"), Req(2, FALSE, "sql"), Req(3, FALSE, "sql")>>}
=============================================================================
