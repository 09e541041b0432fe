--------------------------- MODULE MCBrowserWindows ---------------------------
(* Symmetry of BrowserWindows for model checking. *)
EXTENDS BrowserWindows, TLC

Symmetry == Permutations(Virtual) \cup Permutations(Bit)
===============================================================================
