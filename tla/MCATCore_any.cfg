SPECIFICATION Spec
CONSTANTS
  Tasks = {a1, a2}
  Req = req
  Resp = resp
  Nobody = nobody
  Msgs = {m1, m2}
  NoMsg = nomsg
  Cmds = {"GMR", "CIPSEND", "RESET"}
  ReqCap = 2
  RespCap = 1
  Answers <- FewAnswers
  DataAnswers <- SendAnswers
  UrcLines = {"text"}
  MaxUrc = 0
  GarbageRes = {"junk"}
  Punctual = FALSE
  MarkFirst = FALSE
SYMMETRY Symm
INVARIANTS TypeOK ParserLive CallerLive MailboxLive NoSelfBlock
PROPERTIES ResultFrozen ImplementsQueue
