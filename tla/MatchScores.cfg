\* Every answer of the model on three requirements, in three job descriptions.
SPECIFICATION Spec
CONSTANTS
  N = 3
  Spans = {"c1", "c2", "c3", "s1", "h1"}
  Foreign = "x1"
  Severity <- SeverityOf
  Catalogues <- CatalogueSet
  MaxCandidates = 2
INVARIANTS
  ScoreIsSound
  GapsExplainScore
  ProjectionsAreHonest
CHECK_DEADLOCK FALSE
