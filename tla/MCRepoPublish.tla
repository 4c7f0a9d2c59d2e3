---------------------------- MODULE MCRepoPublish ----------------------------
(***************************************************************************)
(* RepoPublish with four releases, two of which carry the same kwin build, *)
(* and with the retention of two builds exceeded by the third build.       *)
(***************************************************************************)
EXTENDS RepoPublish

MCKwinOf == <<1, 2, 2, 3>>
=============================================================================
