------------------------------ MODULE Delivery ------------------------------
(***************************************************************************)
(* What the connection layer of the TAP42 server promises its callers:     *)
(* send_line hands a line to the client of the session it names, whole,    *)
(* or not at all, and a connection that is closed gets nothing more.       *)
(* SessionIO implements this specification; Presence builds on it, sending *)
(* a line in one step.                                                     *)
(***************************************************************************)
EXTENDS Naturals, Sequences

CONSTANTS Conns,  \* the connections the server accepts, each with its thread
          LinesFor(_)  \* LinesFor(c): the lines a thread can write for the client of c

VARIABLES state,  \* "new", "open" or "closed", for each connection
          inbox   \* the lines each client has received, in order

dvars == <<state, inbox>>

DInit == /\ state = [c \in Conns |-> "new"]
         /\ inbox = [c \in Conns |-> << >>]

Open(c) == /\ state[c] = "new"
           /\ state' = [state EXCEPT ![c] = "open"]
           /\ UNCHANGED inbox

Deliver(c) == /\ state[c] = "open"
              /\ \E line \in LinesFor(c) :
                    inbox' = [inbox EXCEPT ![c] = Append(@, line)]
              /\ UNCHANGED state

Close(c) == /\ state[c] = "open"
            /\ state' = [state EXCEPT ![c] = "closed"]
            /\ UNCHANGED inbox

DNext == \E c \in Conns : Open(c) \/ Deliver(c) \/ Close(c)

DSpec == DInit /\ [][DNext]_dvars
=============================================================================
