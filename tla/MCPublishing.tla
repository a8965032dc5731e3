---------------------------- MODULE MCPublishing ----------------------------
(* What fills the containers of a pod, checked side by side: which of the   *)
(* three is at work is chosen at the start, and the others rest.            *)
(*                                                                          *)
(* Upload: two calls that take turns on one container.  The second tree     *)
(* drops a file of the first, adds another, and both have a file with an    *)
(* escaped name.                                                            *)
(* Packages: two requests at once, one upload session, blobs of up to two   *)
(* chunks and a repository that may hold two.                               *)
(* Previews: two commits, the first with a workflow that passes and the     *)
(* second static with one of the two files; two builds or teardowns at once.*)
EXTENDS Upload, Packages, Previews, TLC

CONSTANTS u1, u2, t1, p1, p2, p3, x1, old, new,
          c1, c2, u3, a, tag, v1

MCUploaders == {u1, u2}
MCTargets   == {t1}
MCPaths     == {p1, p2, p3, x1}
MCEscaped   == {x1}
MCTrees     == {old, new}
MCFiles     == [t \in MCTrees |-> IF t = old THEN {p1, p2, x1} ELSE {p1, p3, x1}]

MCCalls     == {c1, c2}
MCBodies    == {<<>>, <<a>>, <<a, a, a>>}
MCArtifacts == {<<a>>, <<a, a, a>>}
MCClaims    == {<<a>>, <<a, a>>}

MCJobs      == 1 .. 2
MCFilesOf   == <<{"index.html", "page"}, {"page"}>>
MCOutcomeOf == <<"passes", "static">>

VARIABLE part

PublishingInit ==
    /\ part \in {"upload", "packages", "previews"}
    /\ Init /\ PackagesInit /\ PreviewsInit

PublishingNext ==
    \/ part = "upload" /\ Next /\ UNCHANGED <<packageVars, previewVars, part>>
    \/ part = "packages" /\ PackagesNext /\ UNCHANGED <<vars, previewVars, part>>
    \/ part = "previews" /\ PreviewsNext /\ UNCHANGED <<vars, packageVars, part>>

PublishingSpec ==
    PublishingInit /\ [][PublishingNext]_<<vars, packageVars, previewVars, part>>

(* The types of the part that is at work. *)
PublishingTypeOK ==
    CASE part = "upload"   -> TypeOK
      [] part = "packages" -> PackagesTypeOK
      [] part = "previews" -> PreviewsTypeOK

Symmetry == Permutations(MCUploaders) \cup Permutations(MCCalls)
=============================================================================
