---------------------------- MODULE MCObserver ------------------------------
(***************************************************************************)
(* Small instances of Observer for TLC.                                    *)
(***************************************************************************)
EXTENDS Observer, TLC
=============================================================================
