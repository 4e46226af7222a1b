----------------------------- MODULE MCPunctual -----------------------------
(***************************************************************************)
(* The instance of ATCore whose device meets the hypotheses under which    *)
(* the core matches answers and commands.                                  *)
(***************************************************************************)
EXTENDS MCATCore, ATCorePunctual

ASSUME PunctualHypotheses ==
  Punctual /\ MarkFirst /\ AnswersEndOnce /\ AnswersEndWithVerdict
=============================================================================
