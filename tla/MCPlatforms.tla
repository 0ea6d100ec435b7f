----------------------------- MODULE MCPlatforms -----------------------------
(***************************************************************************)
(* Platforms with songs that fit into the device and one that does not.    *)
(***************************************************************************)
EXTENDS Platforms

MCBuilds == {"linux", "macos", "windows"}
MCLinux == {"linux"}
MCLengths == {1, 2, 4}
=============================================================================
