\* Every way to show and to hide a span, on a page with others.
SPECIFICATION Spec
CONSTANT Documents <- PdfSet
INVARIANTS
  HiddenIsDiscounted
  HonestIsTrusted
CHECK_DEADLOCK FALSE
