------------------------------ MODULE RespLine ------------------------------
(***************************************************************************)
(* What one line received from the ESP device does to the AT command in    *)
(* progress: vESPparseRecvATrespLine (src/esp/esp_parser.c).               *)
(*                                                                         *)
(* A line is one of a few kinds, the ones the code tells apart; a command  *)
(* is the representative of the commands that share a branch of the        *)
(* switch; a result is a value of espRes_t, "errspec" standing for every   *)
(* error that an "ERROR" line does not overwrite.                          *)
(***************************************************************************)

\* The kinds of a received line.  "prompt" is the "> " of AT+CIPSEND, which
\* is not a line; "text" is any other non-blank line.
LineKinds == {"blank", "text", "ok", "err", "rdy", "ap", "joined", "joinerr",
              "joinbad", "gone", "sendok", "sendfail", "prompt"}

\* GMR stands for every command whose branch leaves msg->res and the end flag
\* alone; CWMODE for those that have no branch (ATE0, ATE1, RESTORE, CIPMODE,
\* CIPAP_SET): they fall into default.
CmdKinds == {"GMR", "CWLAP", "CWJAP", "CWQAP", "CIPSEND", "CWMODE", "RESET"}

\* espRes_t; "junk" is the content of memory nobody has initialised, and
\* "mboxfull" the espERRMEM of a request that found no room in the mailbox.
ResKinds == {"ok", "okmore", "oknocmd", "skip", "err", "errspec", "errmem",
             "errblocking", "mboxfull", "timeout", "inprog", "junk"}

-----------------------------------------------------------------------------
\* OK, ERROR and ready end the response of any command.
EndsAnyCmd(k) == k \in {"ok", "err", "rdy"}

\* What OK and ERROR write before the command is looked at.  OK spares
\* espOKIGNOREMORE, ERROR spares the errors that carry a reason.
Verdict(k, res) ==
    CASE k = "ok"  /\ res # "okmore" -> "ok"
      [] k = "err" /\ res \notin {"errspec", "errmem"} -> "err"
      [] OTHER -> res

\* eESPparseFoundAP: an AP was stored, and it may have filled the array; the
\* SSID may not fit.  On a line without "+CWLAP:" strstr returns NULL and the
\* parser reads from address 7: any of the three results.
FoundAP == {"ok", "okmore", "errmem"}

\* eESPparseStaJoinResult: "joinerr" carries a known error number, "joinbad"
\* an unknown one.
StaJoinResultLax(k) == CASE k = "joinerr" -> "errspec"
                         [] k = "joinbad" -> "err"
                         [] OTHER         -> "ok"
StaJoinResult(k) == CASE k = "joined"  -> "ok"
                      [] k = "joinerr" -> "errspec"
                      [] OTHER         -> "err"

\* eESPparseStaQuitResult
StaQuitResultLax(k) == IF k \in {"gone", "ok"} THEN "ok" ELSE "err"
StaQuitResult(k) == IF k = "gone" THEN "ok" ELSE "err"

\* eESPparseConnSend
ConnSend(k) == CASE k = "sendok"   -> [res |-> "ok",     end |-> TRUE]
                 [] k = "sendfail" -> [res |-> "err",    end |-> TRUE]
                 [] OTHER          -> [res |-> "inprog", end |-> FALSE]

\* The switch on the command, after Verdict has produced res and end.
CmdBranchNoEndTest(cmd, k, res, end) ==
    IF cmd = "CWLAP" THEN {[res |-> r, end |-> end] : r \in FoundAP}
                     ELSE {[res |-> res, end |-> end]}
CmdBranch(cmd, k, res, end) ==
    CASE cmd = "CWLAP" /\ ~end   -> {[res |-> r, end |-> end] : r \in FoundAP}
      [] cmd = "CWJAP"           -> {[res |-> StaJoinResult(k), end |-> TRUE]}
      [] cmd = "CWQAP"           -> {[res |-> StaQuitResult(k),
                                      end |-> end \/ k = "gone"]}
      [] cmd = "CIPSEND" /\ ~end -> {ConnSend(k)}
      [] cmd \in {"CWMODE", "RESET"} -> {[res |-> "skip", end |-> TRUE]}
      [] OTHER                   -> {[res |-> res, end |-> end]}

\* vESPparseRecvATrespLine: the possible new values of msg->res and of the
\* end-of-response flag, which is that of the chunk being processed.
ParseLine(cmd, k, res, end) ==
    LET v == Verdict(k, res)
        e == end \/ EndsAnyCmd(k)
    IN  CASE k = "blank"  -> {[res |-> res, end |-> end]}
          [] k # "blank" /\ v = "okmore" -> {[res |-> v, end |-> e]}
          [] OTHER        -> CmdBranch(cmd, k, v, e)
=============================================================================
