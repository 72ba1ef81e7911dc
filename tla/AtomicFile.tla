----------------------------- MODULE AtomicFile -----------------------------
(***************************************************************************)
(* What a credential file is to the servers: it holds nothing or one whole *)
(* credential; a save replaces it at once; what a finished save has put    *)
(* there outlasts a loss of power, which may undo a save that has not      *)
(* finished.                                                               *)
(***************************************************************************)
CONSTANTS
    Contents,  \* whole credentials
    NoContent

VARIABLES
    content,  \* what a reader finds
    stable    \* what a loss of power leaves

fileVars == <<content, stable>>

FileInit ==
    /\ content = NoContent
    /\ stable = NoContent

Save ==
    /\ content' \in Contents
    /\ UNCHANGED stable

Settle ==
    /\ stable' = content
    /\ UNCHANGED content

PowerFails ==
    /\ content' = stable
    /\ UNCHANGED stable

FileNext == Save \/ Settle \/ PowerFails

FileSpec == FileInit /\ [][FileNext]_fileVars
=============================================================================
