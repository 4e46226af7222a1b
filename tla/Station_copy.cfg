SPECIFICATION Spec
CONSTANTS
  Apps = {a1}
  Nobody = nobody
  Ops = {"join", "copy"}
  MaxNet = 1
  MaxLines = 4
  Roams = FALSE
  Late = FALSE
INVARIANTS AlwaysCopied
