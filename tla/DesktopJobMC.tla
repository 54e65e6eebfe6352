---------------------------- MODULE DesktopJobMC ----------------------------
(* Small instances of DesktopJob for TLC.                                  *)
EXTENDS DesktopJob
=============================================================================
