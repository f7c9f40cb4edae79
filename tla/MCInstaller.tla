---------------------------- MODULE MCInstaller ----------------------------
(* Model of Installer for TLC. *)
EXTENDS Installer
=============================================================================
