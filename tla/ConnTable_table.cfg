SPECIFICATION Spec
CONSTANTS
  MaxConns = 3
  Apps = {a1, a2}
  Server = srv
  NoCb = nocb
  Junk = junk
  Ext = TRUE
  Late = FALSE
  FreeRelease = FALSE
  MaxCmds = 1
  MaxVisits = 3
INVARIANTS TypeOK TableTracks RoleRight ServerTracks

