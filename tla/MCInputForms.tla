---------------------------- MODULE MCInputForms ----------------------------
(***************************************************************************)
(* Jobs that ask two inputs: every pair of kinds a stale answer can cross  *)
(* (equal kinds and different ones), with and without if_unanswered and    *)
(* autofill, and forms whose configured answers are unfit.                 *)
(***************************************************************************)
EXTENDS InputForms

F(kind, autofill, fallback) == [kind |-> kind, autofill |-> autofill, fallback |-> fallback]

MCScripts ==
    {<<F("review", "none", "fit"), F("review", "none", "none")>>,
     <<F("structured", "none", "fit"), F("structured", "none", "fit")>>,
     <<F("ordinary", "none", "fit"), F("structured", "none", "none")>>,
     <<F("ordinary", "none", "none"), F("ordinary", "none", "unfit")>>,
     <<F("structured", "none", "none"), F("ordinary", "none", "fit")>>,
     <<F("review", "fit", "none"), F("structured", "unfit", "none")>>,
     <<F("ordinary", "fit", "fit")>>,
     <<F("ordinary", "unfit", "none")>>}

MCStreamScripts == {<<F("review", "none", "none"), F("review", "none", "none")>>}
=============================================================================
