------------------------ MODULE MCGenerationDispatch ------------------------
(* One generation of either execution version; see the README for bounds.  *)
EXTENDS GenerationDispatch
=============================================================================
