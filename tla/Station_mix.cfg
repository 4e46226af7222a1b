SPECIFICATION Spec
CONSTANTS
  Apps = {a1, a2}
  Nobody = nobody
  Ops = {"join", "quit", "copy", "reset"}
  MaxNet = 2
  MaxLines = 2
  Roams = TRUE
  Late = TRUE
INVARIANTS TypeOK JoinOk QuitOk CopiedIP TracksDevice
SYMMETRY AppSymmetry
