----------------------------- MODULE MCRepoStatus -----------------------------
(* A small repository for RepoStatus; the texts of JsonMinify are compared    *)
(* before the run.                                                          *)
EXTENDS RepoStatus, JsonMinify

\* A clean working tree, and one with changes.
MCDiffs == {<<"clean">>, <<"d1">>}
=============================================================================
