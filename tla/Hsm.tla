-------------------------------- MODULE Hsm ---------------------------------
(***************************************************************************)
(* The HSM wrapper: contexts, sessions and lookups over a PKCS#11 library  *)
(* of which a process has one, and over the objects of a token, which      *)
(* processes share.  Deployments with one token are modelled, as demo.sh   *)
(* sets them up.                                                           *)
(*                                                                         *)
(* Handles of a library that has been finalised are stale: a call with one *)
(* fails or, when the library has been initialised again, hits whatever    *)
(* has been given the same number.                                         *)
(***************************************************************************)
EXTENDS Naturals, FiniteSets

CONSTANTS
    Clients,  \* whatever opens sessions in the process: its request handlers
    Makers    \* processes that generate keys

VARIABLES
    library,  \* the process's library: initialised, its sessions, logged in
    token     \* the token's objects

hsmVars == <<library, token>>

Labels == {"kwrap", "attestation", "ballot-sign"}

Objects == [label : Labels, half : {"secret", "public", "private"}, maker : Makers]

HsmTypeOK ==
    /\ library \in [up : BOOLEAN, sessions : SUBSET Clients, login : BOOLEAN]
    /\ token \subseteq Objects

Finalised == [up |-> FALSE, sessions |-> {}, login |-> FALSE]

HsmInit ==
    /\ library = Finalised
    /\ token = {}

-----------------------------------------------------------------------------
(* Contexts and sessions *)

\* HsmContext::new; C_Initialize succeeds once.
InitialiseLibrary ==
    /\ ~library.up
    /\ library' = [library EXCEPT !.up = TRUE]

\* The library has been initialised by another context.  Dropping the one
\* that has not been may finalise the library all the same.
InitialiseTwice ==
    /\ library.up
    /\ library' \in {library, Finalised}

\* Dropping a context finalises the library for everybody, and with it end
\* the sessions and their login.
DropContext == library' = Finalised

OpenSession(client) ==
    /\ library.up
    /\ library' = [library EXCEPT !.sessions = @ \cup {client}]

Live(client) == client \in library.sessions

\* The sessions that a client's handle may hit.
Hit(client) == IF Live(client) THEN {client} ELSE library.sessions

\* The login is that of the token, for all sessions at once.
Login(client) ==
    /\ Hit(client) # {}
    /\ ~library.login
    /\ library' = [library EXCEPT !.login = TRUE]

LoginRefused(client) == ~Live(client) \/ library.login

\* Private objects are found and used only when logged in.
Usable(client) == Hit(client) # {} /\ library.login

UseRefused(client) == ~Live(client) \/ ~library.login

-----------------------------------------------------------------------------
(* The token's objects *)

Found(label, half) == {o \in token : o.label = label /\ o.half = half}

Generated(label, half, maker) ==
    token \cup {[label |-> label, half |-> half, maker |-> maker]}
=============================================================================
