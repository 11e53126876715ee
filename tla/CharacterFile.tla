---------------------------- MODULE CharacterFile ----------------------------
(***************************************************************************)
(* What character_store promises about the file of one character: it is a  *)
(* register.  A save replaces the whole contents at one moment, a load     *)
(* gets the whole contents of one moment, and a crash of the server        *)
(* changes nothing.  CharacterStore implements this specification;         *)
(* Presence builds on it, saving and loading in one step.                  *)
(***************************************************************************)
CONSTANTS Threads,  \* threads that save or load the character
          States,   \* contents a save can be given
          Nothing   \* no file, no save under way, nothing loaded

VARIABLES contents,  \* of the file
          saving,    \* what each thread is saving
          loaded     \* what each thread's last load returned

fvars == <<contents, saving, loaded>>

FInit == /\ contents = Nothing
         /\ saving = [t \in Threads |-> Nothing]
         /\ loaded = [t \in Threads |-> Nothing]

StartSave(t) == /\ \E v \in States : saving' = [saving EXCEPT ![t] = v]
                /\ UNCHANGED <<contents, loaded>>

Commit(t) == /\ saving[t] # Nothing
             /\ contents' = saving[t]
             /\ saving' = [saving EXCEPT ![t] = Nothing]
             /\ UNCHANGED loaded

Abandon(t) == /\ saving' = [saving EXCEPT ![t] = Nothing]
              /\ UNCHANGED <<contents, loaded>>

Load(t) == /\ loaded' = [loaded EXCEPT ![t] = contents]
           /\ UNCHANGED <<contents, saving>>

Restart == /\ saving' = [t \in Threads |-> Nothing]
           /\ loaded' = [t \in Threads |-> Nothing]
           /\ UNCHANGED contents

FNext == Restart \/ \E t \in Threads : StartSave(t) \/ Commit(t) \/ Abandon(t) \/ Load(t)

FSpec == FInit /\ [][FNext]_fvars
=============================================================================
