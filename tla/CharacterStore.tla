--------------------------- MODULE CharacterStore ---------------------------
(***************************************************************************)
(* save and load of world/character_store.cpp, for one character: the name *)
(* lock keeps characters apart.  A save takes the lock, truncates          *)
(* <name>.json.tmp or creates it, writes it, and renames it over           *)
(* <name>.json; a load opens <name>.json and reads it with no lock.  The   *)
(* two names of the directory refer to inodes, and an open stream keeps    *)
(* its inode when the name is moved to another.  The server may crash      *)
(* between any two steps and start again on the files it left; the         *)
(* operating system does not lose what was written.                        *)
(***************************************************************************)
EXTENDS Naturals

CONSTANTS
  Threads,   \* threads that save or load the character
  States,    \* player states they save
  Inodes,    \* enough for the two names and every open stream
  DiskFull,  \* whether the disk can fill up during a write
  Nothing

Truncated == "truncated"

ASSUME CharacterStoreAssumption ==
  /\ DiskFull \in BOOLEAN
  /\ Nothing \notin States \cup Inodes \cup Threads
  /\ Truncated \notin States

VARIABLES
  lock,     \* holder of the character's mutex (lock_for), or Nothing
  file,     \* the inode <name>.json refers to, or Nothing
  tmp,      \* the inode <name>.json.tmp refers to, or Nothing
  data,     \* the contents of each inode: a whole state, or Truncated
  pc,       \* where each thread is
  state,    \* the state each thread saves
  stream,   \* the inode of each thread's open stream
  out       \* what the thread's last load returned, Nothing when it failed

storeVars == <<lock, file, tmp, data, pc, state, stream, out>>

Labels == {"idle", "lock", "open", "write", "rename", "read"}

StoreTypeOK ==
  /\ lock \in Threads \cup {Nothing}
  /\ file \in Inodes \cup {Nothing}
  /\ tmp \in Inodes \cup {Nothing}
  /\ data \in [Inodes -> States \cup {Truncated}]
  /\ pc \in [Threads -> Labels]
  /\ state \in [Threads -> States \cup {Nothing}]
  /\ stream \in [Threads -> Inodes \cup {Nothing}]
  /\ out \in [Threads -> States \cup {Nothing}]

StoreInit ==
  /\ lock = Nothing
  /\ file = Nothing
  /\ tmp = Nothing
  /\ data = [i \in Inodes |-> Truncated]
  /\ pc = [t \in Threads |-> "idle"]
  /\ state = [t \in Threads |-> Nothing]
  /\ stream = [t \in Threads |-> Nothing]
  /\ out = [t \in Threads |-> Nothing]

Goto(t, from, to) == pc[t] = from /\ pc' = [pc EXCEPT ![t] = to]

InUse(i) == i = file \/ i = tmp \/ \E t \in Threads : stream[t] = i

-----------------------------------------------------------------------------
(* save *)

Save(t) ==
  /\ Goto(t, "idle", "lock")
  /\ \E v \in States : state' = [state EXCEPT ![t] = v]
  /\ UNCHANGED <<lock, file, tmp, data, stream, out>>

\* (bug) saves of one character are not kept apart
LockNameIgnored(t) ==
  /\ Goto(t, "lock", "open")
  /\ lock' = t
  /\ UNCHANGED <<file, tmp, data, state, stream, out>>

LockName(t) ==
  /\ Goto(t, "lock", "open")
  /\ lock = Nothing
  /\ lock' = t
  /\ UNCHANGED <<file, tmp, data, state, stream, out>>

\* save returns: the mutex is released.
Return(t) ==
  /\ pc' = [pc EXCEPT ![t] = "idle"]
  /\ lock' = Nothing
  /\ state' = [state EXCEPT ![t] = Nothing]
  /\ stream' = [stream EXCEPT ![t] = Nothing]

\* (bug) the file itself is opened for writing instead of the temporary one
OpenTmpInPlace(t) ==
  /\ Goto(t, "open", "write")
  /\ \E i \in Inodes :
       /\ IF file # Nothing THEN i = file ELSE ~InUse(i)
       /\ file' = i
       /\ data' = [data EXCEPT ![i] = Truncated]
       /\ stream' = [stream EXCEPT ![t] = i]
  /\ UNCHANGED <<lock, tmp, state, out>>

\* std::ofstream with trunc: an inode left under the temporary name is emptied,
\* otherwise a new one gets the name.
OpenTmp(t) ==
  /\ Goto(t, "open", "write")
  /\ \E i \in Inodes :
       /\ IF tmp # Nothing THEN i = tmp ELSE ~InUse(i)
       /\ tmp' = i
       /\ data' = [data EXCEPT ![i] = Truncated]
       /\ stream' = [stream EXCEPT ![t] = i]
  /\ UNCHANGED <<lock, file, state, out>>

\* "cannot open temp file for write": logged, nothing saved.
OpenFails(t) ==
  /\ pc[t] = "open"
  /\ Return(t)
  /\ UNCHANGED <<file, tmp, data, out>>

\* The stream is written and closed, and whether that worked is not looked at.
Write(t) ==
  /\ Goto(t, "write", "rename")
  /\ \/ data' = [data EXCEPT ![stream[t]] = state[t]]
     \/ DiskFull /\ UNCHANGED data
  /\ stream' = [stream EXCEPT ![t] = Nothing]
  /\ UNCHANGED <<lock, file, tmp, state, out>>

Rename(t) ==
  /\ pc[t] = "rename"
  /\ tmp # Nothing
  /\ file' = tmp
  /\ tmp' = Nothing
  /\ Return(t)
  /\ UNCHANGED <<data, out>>

\* "rename failed": logged, the temporary file stays.
RenameFails(t) ==
  /\ pc[t] = "rename"
  /\ Return(t)
  /\ UNCHANGED <<file, tmp, data, out>>
-----------------------------------------------------------------------------
(* load *)

LoadOpen(t) ==
  /\ pc[t] = "idle"
  /\ IF file = Nothing
     THEN out' = [out EXCEPT ![t] = Nothing] /\ UNCHANGED <<pc, stream>>
     ELSE /\ Goto(t, "idle", "read")
          /\ stream' = [stream EXCEPT ![t] = file]
          /\ UNCHANGED out
  /\ UNCHANGED <<lock, file, tmp, data, state>>

\* A text cut short is no JSON document, and load fails.
LoadRead(t) ==
  /\ Goto(t, "read", "idle")
  /\ out' = [out EXCEPT ![t] =
               IF data[stream[t]] = Truncated THEN Nothing ELSE data[stream[t]]]
  /\ stream' = [stream EXCEPT ![t] = Nothing]
  /\ UNCHANGED <<lock, file, tmp, data, state>>
-----------------------------------------------------------------------------

\* The server dies and is started again on the same directory.
Crash ==
  /\ lock' = Nothing
  /\ pc' = [t \in Threads |-> "idle"]
  /\ state' = [t \in Threads |-> Nothing]
  /\ stream' = [t \in Threads |-> Nothing]
  /\ out' = [t \in Threads |-> Nothing]
  /\ UNCHANGED <<file, tmp, data>>

StoreNext ==
  \/ Crash
  \/ \E t \in Threads :
       \/ Save(t) \/ LockName(t) \/ OpenTmp(t) \/ OpenFails(t) \/ Write(t)
       \/ Rename(t) \/ RenameFails(t) \/ LoadOpen(t) \/ LoadRead(t)

StoreSpec == StoreInit /\ [][StoreNext]_storeVars
-----------------------------------------------------------------------------
(* Properties *)

\* The file of a character holds one whole state, at every moment and so after
\* a crash at any moment (PROTOCOL.md, Persistence; the comment in save).
NeverTruncated == file # Nothing => data[file] # Truncated

\* The character's file as its users see it.
F == INSTANCE CharacterFile WITH
       contents <- IF file = Nothing THEN Nothing ELSE data[file],
       saving <- state,
       loaded <- [t \in Threads |-> IF pc[t] = "read" THEN data[stream[t]] ELSE out[t]]

\* Saves and loads of one character behave as those of an atomic register,
\* across crashes.
ImplementsFile == F!FSpec
=============================================================================
