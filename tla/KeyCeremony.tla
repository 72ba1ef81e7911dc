---------------------------- MODULE KeyCeremony -----------------------------
(***************************************************************************)
(* The key ceremony: a program that looks for each of the three long-lived *)
(* secrets and generates those it does not find, and prints the public     *)
(* half of the ballot-signing key for create_election.  It may be killed   *)
(* and run again.                                                          *)
(***************************************************************************)
EXTENDS Hsm

VARIABLES
    ceremony,  \* maker -> its next step, or "out" when it is not running
    printed,   \* makers whose public key has been printed
    orderly    \* ceremonies run one at a time, and none is killed between the
               \* two halves of the key pair; chosen once

ceremonyVars == <<ceremony, printed, orderly>>

Steps == {"out", "kwrap?", "kwrap", "attestation?", "attestation",
          "pair?", "public", "private", "print"}

CeremonyTypeOK ==
    /\ ceremony \in [Makers -> Steps]
    /\ printed \subseteq Makers
    /\ orderly \in BOOLEAN

CeremonyInit ==
    /\ ceremony = [m \in Makers |-> "out"]
    /\ printed = {}
    /\ orderly \in BOOLEAN

NoCeremony == \A m \in Makers : ceremony[m] = "out"

\* The program has the library of its own process, and its login succeeds.
StartCeremony(m) ==
    /\ ceremony[m] = "out"
    /\ orderly => NoCeremony
    /\ ceremony' = [ceremony EXCEPT ![m] = "kwrap?"]
    /\ UNCHANGED <<token, printed, orderly>>

\* Is there a key with this label?  If not, it is generated in the next step.
LookFor(m, step, label, half, generate, next) ==
    /\ ceremony[m] = step
    /\ ceremony' = [ceremony EXCEPT ![m] = IF Found(label, half) = {}
                                           THEN generate ELSE next]
    /\ UNCHANGED <<token, printed, orderly>>

Generate(m, step, label, half, next) ==
    /\ ceremony[m] = step
    /\ token' = Generated(label, half, m)
    /\ ceremony' = [ceremony EXCEPT ![m] = next]
    /\ UNCHANGED <<printed, orderly>>

\* Variant: goes on when the generation has failed.
WrapKeyUnchecked(m) ==
    \/ LookFor(m, "kwrap?", "kwrap", "secret", "kwrap", "attestation?")
    \/ /\ ceremony[m] = "kwrap"
       /\ ceremony' = [ceremony EXCEPT ![m] = "attestation?"]
       /\ UNCHANGED <<token, printed, orderly>>

WrapKey(m) ==
    \/ LookFor(m, "kwrap?", "kwrap", "secret", "kwrap", "attestation?")
    \/ Generate(m, "kwrap", "kwrap", "secret", "attestation?")

AttestationKey(m) ==
    \/ LookFor(m, "attestation?", "attestation", "secret", "attestation", "pair?")
    \/ Generate(m, "attestation", "attestation", "secret", "pair?")

\* Variant: generates the key pair without looking for it.
BallotSignKeyAnew(m) ==
    \/ /\ ceremony[m] = "pair?"
       /\ ceremony' = [ceremony EXCEPT ![m] = "public"]
       /\ UNCHANGED <<token, printed, orderly>>
    \/ Generate(m, "public", "ballot-sign", "public", "private")
    \/ Generate(m, "private", "ballot-sign", "private", "print")

\* Only the public half is looked for; the token stores one half, then the
\* other.
BallotSignKey(m) ==
    \/ LookFor(m, "pair?", "ballot-sign", "public", "public", "print")
    \/ Generate(m, "public", "ballot-sign", "public", "private")
    \/ Generate(m, "private", "ballot-sign", "private", "print")

\* Prints the public key that it finds, or the one it has generated.
PrintKey(m) ==
    /\ ceremony[m] = "print"
    /\ \E o \in Found("ballot-sign", "public") : printed' = printed \cup {o.maker}
    /\ ceremony' = [ceremony EXCEPT ![m] = "out"]
    /\ UNCHANGED <<token, orderly>>

KillCeremony(m) ==
    /\ ceremony[m] # "out"
    /\ orderly => ceremony[m] # "private"
    /\ ceremony' = [ceremony EXCEPT ![m] = "out"]
    /\ UNCHANGED <<token, printed, orderly>>

CeremonyStep(m) ==
    \/ StartCeremony(m)
    \/ WrapKey(m) \/ AttestationKey(m) \/ BallotSignKey(m)
    \/ PrintKey(m) \/ KillCeremony(m)

-----------------------------------------------------------------------------
(* Properties *)

\* "Run once per election deployment", or as often as one likes: every public
\* key that a ceremony has printed for create_election is the one whose private
\* half signs the ballots, and no secret is generated a second time, however
\* often the ceremony was killed and repeated, as long as no two ceremonies run
\* at once and none is killed between the two halves of the key pair.
PublishedKeySigns ==
    orderly =>
      /\ \A m \in printed, o \in Found("ballot-sign", "private") : o.maker = m
      /\ printed # {} => Found("ballot-sign", "private") # {}
      /\ \A a, b \in token : a.label = b.label => a.maker = b.maker
=============================================================================
