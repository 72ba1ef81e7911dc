----------------------------- MODULE MCIssuance -----------------------------
(***************************************************************************)
(* Small instances of Issuance for TLC.                                    *)
(***************************************************************************)
EXTENDS Issuance, TLC

\* Handlers are interchangeable, and so are ceremonies and blindings.
IssuanceSymmetry ==
    Permutations(Clients) \cup Permutations(Makers) \cup Permutations(Blindings)
=============================================================================
