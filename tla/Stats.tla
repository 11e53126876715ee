-------------------------------- MODULE Stats --------------------------------
(***************************************************************************)
(* EVT STATS: broadcast_stats of commands/common.cpp, which every login    *)
(* and every disconnect runs after it has changed SessionRegistry.  It     *)
(* counts the sessions in one call, lists them in another, and writes to   *)
(* one after the other with no lock held in between, so the broadcasts of  *)
(* several threads overlap, and one that writes to a client that does not  *)
(* read waits as long as the client likes: nothing limits send().  How     *)
(* sessions log in is Presence's subject: here every session logs in once, *)
(* under a name of its own, and leaves.                                    *)
(***************************************************************************)
EXTENDS Naturals, FiniteSets

CONSTANTS
  Sessions,
  Stallers   \* sessions whose clients may stop reading (a bound when not all)

ASSUME StatsAssumption == IsFiniteSet(Sessions) /\ Stallers \subseteq Sessions

VARIABLES
  registry,  \* SessionRegistry: the sessions in it
  pc,        \* where each session's thread is
  message,   \* the count in the message the thread broadcasts
  targets,   \* the sessions it has still to write to
  stalled,   \* the clients that do not read
  shown,     \* the count each client was sent last since the registry last changed, or 0
  told       \* history: the counts each client was sent since the registry last changed

statsVars == <<registry, pc, message, targets, stalled, shown, told>>

Labels == {"new", "join", "joinList", "joinTell", "play",
           "part", "partList", "partTell", "done"}

StatsTypeOK ==
  /\ registry \subseteq Sessions
  /\ pc \in [Sessions -> Labels]
  /\ message \in [Sessions -> 0..Cardinality(Sessions)]
  /\ targets \in [Sessions -> SUBSET Sessions]
  /\ stalled \subseteq Sessions
  /\ shown \in [Sessions -> 0..Cardinality(Sessions)]
  /\ told \in [Sessions -> SUBSET (0..Cardinality(Sessions))]

StatsInit ==
  /\ registry = {}
  /\ pc = [s \in Sessions |-> "new"]
  /\ message = [s \in Sessions |-> 0]
  /\ targets = [s \in Sessions |-> {}]
  /\ stalled = {}
  /\ shown = [s \in Sessions |-> 0]
  /\ told = [s \in Sessions |-> {}]

Goto(s, labels) == pc[s] \in DOMAIN labels /\ pc' = [pc EXCEPT ![s] = labels[@]]

ChangeRegistry(to) ==
  /\ registry' = to
  /\ shown' = [s \in Sessions |-> 0]
  /\ told' = [s \in Sessions |-> {}]

\* A login adds its session, a disconnect removes it; then they broadcast.
Join(s) ==
  /\ Goto(s, [new |-> "join"])
  /\ ChangeRegistry(registry \cup {s})
  /\ UNCHANGED <<message, targets, stalled>>

\* (bug) the disconnect tells nobody
PartSilent(s) ==
  /\ Goto(s, [play |-> "done"])
  /\ ChangeRegistry(registry \ {s})
  /\ UNCHANGED <<message, targets, stalled>>

Part(s) ==
  /\ Goto(s, [play |-> "part"])
  /\ ChangeRegistry(registry \ {s})
  /\ UNCHANGED <<message, targets, stalled>>

Count(s) ==
  /\ Goto(s, [join |-> "joinList", part |-> "partList"])
  /\ message' = [message EXCEPT ![s] = Cardinality(registry)]
  /\ UNCHANGED <<registry, targets, stalled, shown, told>>

List(s) ==
  /\ Goto(s, [joinList |-> "joinTell", partList |-> "partTell"])
  /\ targets' = [targets EXCEPT ![s] = registry]
  /\ UNCHANGED <<registry, message, stalled, shown, told>>

\* send_line to one session of the list, which returns when its client reads.
Tell(s) ==
  /\ pc[s] \in {"joinTell", "partTell"}
  /\ \E t \in targets[s] \ stalled :
       /\ targets' = [targets EXCEPT ![s] = @ \ {t}]
       /\ shown' = [shown EXCEPT ![t] = message[s]]
       /\ told' = [told EXCEPT ![t] = @ \cup {message[s]}]
  /\ UNCHANGED <<registry, pc, message, stalled>>

\* (bug) the loop of the broadcast stops at the first session
FinishEarly(s) ==
  /\ Goto(s, [joinTell |-> "play", partTell |-> "done"])
  /\ message' = [message EXCEPT ![s] = 0]
  /\ targets' = [targets EXCEPT ![s] = {}]
  /\ UNCHANGED <<registry, stalled, shown, told>>

Finish(s) ==
  /\ targets[s] = {}
  /\ Goto(s, [joinTell |-> "play", partTell |-> "done"])
  /\ message' = [message EXCEPT ![s] = 0]
  /\ targets' = [targets EXCEPT ![s] = {}]
  /\ UNCHANGED <<registry, stalled, shown, told>>

Broadcast(s) == Count(s) \/ List(s) \/ Tell(s) \/ Finish(s)

\* A client stops reading, or reads on (or is gone, and send() fails).
PeerStalls(s) ==
  /\ \/ s \in (registry \cap Stallers) \ stalled /\ stalled' = stalled \cup {s}
     \/ s \in stalled /\ stalled' = stalled \ {s}
  /\ UNCHANGED <<registry, pc, message, targets, shown, told>>

StatsNext == \E s \in Sessions : Join(s) \/ Part(s) \/ Broadcast(s) \/ PeerStalls(s)

\* A thread that has begun its broadcast is scheduled until it ends, but for
\* the time it has a client on its list that does not read.  Nothing makes a
\* client read.
Runs(s) == targets[s] \cap stalled = {} /\ Broadcast(s)

StatsSpec ==
  StatsInit /\ [][StatsNext]_statsVars /\ \A s \in Sessions : WF_statsVars(Runs(s))
-----------------------------------------------------------------------------
(* Properties *)

AtRest == \A s \in Sessions : pc[s] \in {"new", "play", "done"}

\* When every broadcast has ended, every session in the registry has been sent
\* the number there are now, since that became the number: whoever changed the
\* registry last counted afterwards, and wrote to all that were left.
StatsReachEveryone ==
  AtRest => \A s \in registry : Cardinality(registry) \in told[s]

\* Broadcasts that overlap do not keep each other from ending: a session that
\* stays gets to see the true count, however many others come and go, unless
\* some client again and again stops reading: the thread that writes to it then
\* gets to nobody after it (common.cpp, broadcast_stats), and no broadcast is
\* repeated.
CountArrives ==
  \/ []<>(stalled # {})
  \/ \A s \in Sessions :
       (s \in registry) ~> (s \notin registry \/ Cardinality(registry) \in told[s])

\* What a client was told last is the number of sessions in the registry
\* (PROTOCOL.md, STATS).
LastCountRight ==
  AtRest => \A s \in registry : shown[s] = Cardinality(registry)
=============================================================================
