----------------------------- MODULE MCEventLines -----------------------------
(* Instances of EventLines for TLC. *)
EXTENDS EventLines

\* The empty text, and one of a wide, a narrow and a wide character.
MCTexts == {<<>>, <<"lead", "tail", "narrow", "lead", "tail">>}
MCHosts == {"runner", "pool"}
===============================================================================
