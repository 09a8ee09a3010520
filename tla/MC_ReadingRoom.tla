---------------------------- MODULE MC_ReadingRoom ----------------------------
(* A reader with two chapters and a hook at a time.                        *)
EXTENDS ReadingRoom

OneAtATime == {{"progress"}, {"session"}}
=============================================================================
