-------------------------- MODULE MCEmbeddedBuild --------------------------
(* Two row programs, which meet the builds at different moments.           *)
EXTENDS EmbeddedBuild
=============================================================================
