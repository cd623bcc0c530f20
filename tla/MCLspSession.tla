---------------------------- MODULE MCLspSession ----------------------------
(* Two passes, two children and pipes of one frame; the first pass has an    *)
(* empty worklist, the second one site.                                      *)
EXTENDS LspSession

Worklists == <<0, 1>>
=============================================================================
