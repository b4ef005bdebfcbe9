--------------------------- MODULE MCReleasePackages ---------------------------
(***************************************************************************)
(* Five profiles with the needs the verifier states, and four states of the *)
(* repository: one from before the profiles, an older one, the newest, and  *)
(* one whose packaged files do not pass the checks.                         *)
(***************************************************************************)
EXTENDS ReleasePackages, TLC

MCProfile == {"archive", "fuzz", "docx", "html", "structured"}

MCRequires ==
  {<<"fuzz", "archive">>, <<"docx", "archive">>}
    \cup {"html"} \X {"docx", "fuzz", "archive"}
    \cup {"structured"} \X {"fuzz", "docx", "html", "archive"}

With(profiles, works, runbook) ==
  [files |-> [p \in MCProfile |-> IF p \in profiles THEN "whole" ELSE "none"],
   knows |-> profiles, works |-> works, runbook |-> runbook]

Plain == With({}, TRUE, FALSE)
Older == With({"archive", "fuzz"}, TRUE, TRUE)
Newest == With(MCProfile, TRUE, TRUE)
Untracked == With({"archive", "fuzz", "docx"}, FALSE, TRUE)

MCCommits == {Plain, Older, Newest, Untracked}

(* The newest has the same assets as the older one, and of the untracked    *)
(* one nothing is published.                                                *)
TagCommits == {Plain, Older}

WorkflowSymmetry == Permutations(Workflow)
=============================================================================
