------------------------------ MODULE MCATCore ------------------------------
(***************************************************************************)
(* Small instances of ATCore: the device's answers and the symmetry.       *)
(***************************************************************************)
EXTENDS ATCoreRefines, TLC

\* Answers to commands whose branch leaves the result alone: in one piece, in
\* two, refused, never.
PlainAnswers == {<<>>, <<<<"ok">>>>, <<<<"err">>>>, <<<<"text">>, <<"ok">>>>}

\* An AP list with its end, in one piece or in two, or cut short.
ListAnswers == {<<<<"ap", "ok">>>>, <<<<"ap">>, <<"err">>>>, <<<<"ap">>>>}

NoAnswers == {<<>>}

\* Devices that answer only as documented for the commands of the run.
SoundAnswers == [k \in Cmds |-> CASE k = "GMR"   -> PlainAnswers
                                  [] k = "CWLAP" -> ListAnswers
                                  [] OTHER       -> NoAnswers]

\* Few answers, for the runs where the threads matter more than the text.
FewAnswers == [k \in Cmds |-> CASE k = "GMR"     -> {<<<<"ok">>>>, <<<<"text">>, <<"err">>>>}
                                [] k = "CIPSEND" -> {<<<<"ok">>, <<"prompt">>>>,
                                                     <<<<"ok", "prompt">>>>}
                                [] OTHER         -> NoAnswers]

SendAnswers == {<<<<"sendok">>>>, <<<<"text", "sendfail">>>>}

Symm == Permutations(Tasks) \cup Permutations(Msgs)
=============================================================================
