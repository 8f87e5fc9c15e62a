-------------------------------- MODULE Gen3MC --------------------------------
(* Instances of Gen3 for TLC. *)
EXTENDS Gen3

\* No page, a blank one, and images whose pages are written and left out in turn.
SomeImages == {<<>>, <<FALSE>>, <<TRUE, TRUE>>, <<TRUE, FALSE, TRUE>>, <<FALSE, TRUE, FALSE>>}
=============================================================================
