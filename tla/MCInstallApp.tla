---------------------------- MODULE MCInstallApp ----------------------------
(* InstallApp for TLC.  Two paths and a file for each of three processes    *)
(* never need more than five inodes.                                        *)
EXTENDS InstallApp
=============================================================================
