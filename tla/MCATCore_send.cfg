SPECIFICATION Spec
CONSTANTS
  Tasks = {a1, a2}
  Req = req
  Resp = resp
  Nobody = nobody
  Msgs = {m1, m2}
  NoMsg = nomsg
  Cmds = {"CIPSEND"}
  ReqCap = 1
  RespCap = 3
  Answers <- FewAnswers
  DataAnswers <- SendAnswers
  UrcLines = {"text"}
  MaxUrc = 0
  GarbageRes = {"junk"}
  Punctual = TRUE
  MarkFirst = TRUE
SYMMETRY Symm
INVARIANTS SendConfirmed
