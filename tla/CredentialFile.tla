--------------------------- MODULE CredentialFile ---------------------------
(***************************************************************************)
(* One voter's credential file as the file system has it, and the steps of *)
(* save_atomic: create a temporary file of a fixed name, write it, sync    *)
(* it, rename it, sync the directory.  Names are bound to inodes, and a    *)
(* writer keeps the inode it has opened whatever becomes of the name.      *)
(*                                                                         *)
(* What is not synced may be lost when power is: the path may lead where   *)
(* it led when the directory was last synced, and data may be as synced,   *)
(* as written, or garbage.                                                 *)
(***************************************************************************)
EXTENDS Naturals, FiniteSets

CONSTANTS
    Writers,      \* request handlers
    Blindings,    \* what makes a credential issued anew differ
    Inodes,       \* enough for the names, the synced path and the writers
    NoFile, Empty, Garbage

VARIABLES
    names,        \* tmp, path -> inode
    syncedPath,   \* where the path leads in the synced directory
    data,         \* inode -> contents
    syncedData,
    open          \* writer -> inode of the file it writes

fsVars == <<names, syncedPath, data, syncedData, open>>

\* A credential in JSON; confirmed when it has its leaf index.
Credentials == [blinding : Blindings, confirmed : BOOLEAN]

Data == Credentials \cup {Empty, Garbage}
Places == Inodes \cup {NoFile}

FileTypeOK ==
    /\ names \in [tmp : Places, path : Places] /\ syncedPath \in Places
    /\ data \in [Inodes -> Data] /\ syncedData \in [Inodes -> Data]
    /\ open \in [Writers -> Places]

CredentialFileInit ==
    /\ names = [tmp |-> NoFile, path |-> NoFile]
    /\ syncedPath = NoFile
    /\ data = [i \in Inodes |-> Empty]
    /\ syncedData = data
    /\ open = [w \in Writers |-> NoFile]

\* Inodes that a name or a writer still needs.
InUse ==
    {names.tmp, names.path, syncedPath} \cup {open[w] : w \in Writers}

-----------------------------------------------------------------------------
(* save_atomic *)

\* File::create opens the temporary file that is there, and empties it.
CreateTmp(w) ==
    /\ \/ /\ names.tmp # NoFile
          /\ open' = [open EXCEPT ![w] = names.tmp]
          /\ UNCHANGED names
       \/ /\ names.tmp = NoFile
          /\ Inodes \ InUse # {}
          /\ LET new == CHOOSE i \in Inodes : i \notin InUse
             IN  /\ open' = [open EXCEPT ![w] = new]
                 /\ names' = [names EXCEPT !.tmp = new]
    /\ data' = [data EXCEPT ![open'[w]] = Empty]
    /\ UNCHANGED <<syncedPath, syncedData>>

\* If another writer has written there since, the end of that may be left.
WriteTmp(w, credential) ==
    /\ \/ data' = [data EXCEPT ![open[w]] = credential]
       \/ /\ data[open[w]] # Empty
          /\ data' = [data EXCEPT ![open[w]] = Garbage]
    /\ UNCHANGED <<names, syncedPath, syncedData, open>>

\* Variant: leaves the data to the operating system.
SyncNothing(w) == UNCHANGED fsVars

SyncTmp(w) ==
    /\ syncedData' = [syncedData EXCEPT ![open[w]] = data[open[w]]]
    /\ UNCHANGED <<names, syncedPath, data, open>>

\* The name may have been taken by another writer's rename.
RenameTmp ==
    /\ names.tmp # NoFile
    /\ names' = [tmp |-> NoFile, path |-> names.tmp]
    /\ UNCHANGED <<syncedPath, data, syncedData, open>>

\* Variant: the directory is left to the operating system.
SyncNoDirectory(w) ==
    /\ open' = [open EXCEPT ![w] = NoFile]
    /\ UNCHANGED <<names, syncedPath, data, syncedData>>

SyncDirectory(w) ==
    /\ syncedPath' = names.path
    /\ open' = [open EXCEPT ![w] = NoFile]
    /\ UNCHANGED <<names, data, syncedData>>

CloseFile(w) ==
    /\ open' = [open EXCEPT ![w] = NoFile]
    /\ UNCHANGED <<names, syncedPath, data, syncedData>>

-----------------------------------------------------------------------------
(* load, and the end of the process or the power *)

Behind(place, store) == IF place = NoFile THEN NoFile ELSE store[place]

\* What load reads; only a credential parses.
Loaded == Behind(names.path, data)

CloseAll ==
    /\ open' = [w \in Writers |-> NoFile]
    /\ UNCHANGED <<names, syncedPath, data, syncedData>>

Unsynced == {i \in InUse \ {NoFile} : data[i] # syncedData[i]}

\* The temporary name is of no use to anybody then.
PowerLoss ==
    /\ \E place \in {names.path, syncedPath} :
          /\ names' = [tmp |-> NoFile, path |-> place]
          /\ syncedPath' = place
    /\ \E kept \in [Unsynced -> {"synced", "written", "neither"}] :
          data' = [i \in Inodes |->
                     IF i \notin Unsynced \/ kept[i] = "synced" THEN syncedData[i]
                     ELSE IF kept[i] = "written" THEN data[i] ELSE Garbage]
    /\ syncedData' = data'
    /\ open' = [w \in Writers |-> NoFile]
=============================================================================
