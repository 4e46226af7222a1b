SPECIFICATION Spec
CONSTANTS
  Tasks = {a1, a2}
  Req = req
  Resp = resp
  Nobody = nobody
  Msgs = {m1, m2, m3}
  NoMsg = nomsg
  Cmds = {"GMR", "RESET", "CWLAP"}
  ReqCap = 1
  RespCap = 3
  Answers <- SoundAnswers
  DataAnswers <- SendAnswers
  UrcLines = {"text"}
  MaxUrc = 1
  GarbageRes = {"junk"}
  Punctual = TRUE
  MarkFirst = TRUE
SYMMETRY Symm
INVARIANTS FreshToken OwnAnswer TruthfulResult
