SPECIFICATION FairSpec
CONSTANTS
  Tasks = {a1}
  Req = req
  Resp = resp
  Nobody = nobody
  Msgs = {m1, m2}
  NoMsg = nomsg
  Cmds = {"GMR", "RESET"}
  ReqCap = 1
  RespCap = 1
  Answers <- FewAnswers
  DataAnswers <- SendAnswers
  UrcLines = {"text"}
  MaxUrc = 0
  GarbageRes = {"junk"}
  Punctual = FALSE
  MarkFirst = FALSE
PROPERTIES CallReturns AllFreed ServesQueue
