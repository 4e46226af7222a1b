SPECIFICATION Spec
CONSTANTS
  Tasks = {a1, a2}
  Req = req
  Resp = resp
  Nobody = nobody
  Msgs = {m1, m2}
  NoMsg = nomsg
  Cmds = {"GMR"}
  ReqCap = 1
  RespCap = 1
  Answers <- FewAnswers
  DataAnswers <- SendAnswers
  UrcLines = {"text"}
  MaxUrc = 0
  GarbageRes = {"junk"}
  Punctual = FALSE
  MarkFirst = TRUE
SYMMETRY Symm
INVARIANTS FreshToken
