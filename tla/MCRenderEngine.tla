---------------------------- MODULE MCRenderEngine ----------------------------
(* Instances of RenderEngine for TLC.                                        *)
EXTENDS RenderEngine

\* A stream whose second picture is larger.
SizeOfFrame(n) == IF n = 2 THEN "large" ELSE "small"

=============================================================================
