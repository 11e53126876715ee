--------------------------- MODULE Broadcast_proofs ---------------------------
(***************************************************************************)
(* An event reaches whoever is in its audience all along: for any sessions *)
(* and players, rooms and groups, and for any number of events that        *)
(* overlap.  What is behind it is that whoever is still owed an event is   *)
(* in its audience now, and that from the moment the audience has been     *)
(* collected the name is among those still to be looked up.                *)
(***************************************************************************)
EXTENDS Broadcast, SequenceTheorems, TLAPS

EventType ==
  [kind : Kinds, to : {"all", "room", "group"}, at : Rooms \cup Groups \cup {None},
   except : Players \cup {None}, owed : SUBSET Sessions]

WorldOK ==
  /\ online \subseteq Players /\ room \in [Players -> Rooms]
  /\ group \in [Players -> Groups \cup {None}] /\ ended \subseteq Sessions
  /\ DOMAIN registry = Players
  /\ \A p \in Players : registry[p] \in {None} \cup {s \in Sessions : Owner[s] = p}

HistoryOK ==
  /\ heard \in [Sessions -> [Players -> {"unknown", "here", "gone"}]]
  /\ misled \subseteq Sessions \cup Players /\ commands \in 0..MaxCommands

ThreadsOK ==
  /\ pc \in [Sessions -> Labels] /\ targets \in [Sessions -> SUBSET (Players \cup Sessions)]
  /\ DOMAIN events = Sessions /\ \A s \in Sessions : events[s] \in Seq(EventType)

\* A thread tells exactly when it has something to tell.
Phases ==
  \A s \in Sessions : pc[s] \in {"collect", "tell"} <=> events[s] # <<>> /\ pc[s] # "unregister"

\* Who is owed an event is in its audience.
Owing ==
  \A s \in Sessions : \A i \in DOMAIN events[s] :
    events[s][i].owed \subseteq Audience(events[s][i], online, room, group, registry) \ ended

\* Who is owed the event that is being told will still be looked up.
Told ==
  \A s \in Sessions : pc[s] = "tell" =>
    IF Now(s).to = "all"
    THEN Now(s).owed \subseteq targets[s] /\ targets[s] \subseteq Sessions
    ELSE targets[s] \subseteq Players /\ \A t \in Now(s).owed : Owner[t] \in targets[s]

IInv == WorldOK /\ HistoryOK /\ ThreadsOK /\ Phases /\ Owing /\ Told

\* The events of a thread after a step are these, but for who is owed them.
Says(u, es) ==
  /\ DOMAIN events'[u] = DOMAIN es
  /\ \A i \in DOMAIN es :
       /\ events'[u][i].kind = es[i].kind /\ events'[u][i].to = es[i].to
       /\ events'[u][i].at = es[i].at /\ events'[u][i].except = es[i].except
-----------------------------------------------------------------------------
(* The operators *)

LEMMA OneOrTwo ==
  ASSUME NEW S, NEW a \in S, NEW b \in S
  PROVE  <<>> \in Seq(S) /\ <<a>> \in Seq(S) /\ <<a, b>> \in Seq(S) /\ <<a>> # <<>> /\ <<a, b>> # <<>>
OBVIOUS

\* A sequence that is not empty has a first, and that is all of it but the rest.
LEMMA FirstIs ==
  ASSUME NEW S, NEW es \in Seq(S), es # <<>>
  PROVE  /\ 1 \in DOMAIN es /\ Head(es) = es[1] /\ es[1] \in S /\ Tail(es) \in Seq(S)
         /\ DOMAIN Tail(es) \subseteq Nat
         /\ \A i \in DOMAIN Tail(es) : i + 1 \in DOMAIN es /\ Tail(es)[i] = es[i + 1]
<1>1. Len(es) \in Nat /\ Len(es) # 0 /\ DOMAIN es = 1..Len(es)
  BY EmptySeq
<1>2. 1 \in DOMAIN es /\ Head(es) = es[1] /\ es[1] \in S
  BY <1>1
<1>3. /\ Tail(es) \in Seq(S) /\ Len(Tail(es)) = Len(es) - 1
      /\ \A i \in 1..Len(Tail(es)) : Tail(es)[i] = es[i + 1]
  BY HeadTailProperties
<1>4. DOMAIN Tail(es) = 1..Len(es) - 1
  BY <1>1, <1>3
<1> QED BY <1>1, <1>2, <1>3, <1>4

LEMMA EventIs ==
  ASSUME NEW kind \in Kinds, NEW to \in {"all", "room", "group"},
         NEW at \in Rooms \cup Groups \cup {None}, NEW except \in Players \cup {None}
  PROVE  Event(kind, to, at, except) \in EventType
BY DEF Event, EventType

\* An event is owed to those of its audience it was owed to before.
LEMMA StillOwedIs ==
  ASSUME NEW es \in Seq(EventType)
  PROVE  /\ StillOwed(es) \in Seq(EventType) /\ DOMAIN StillOwed(es) = DOMAIN es
         /\ StillOwed(es) = <<>> <=> es = <<>>
         /\ \A i \in DOMAIN es :
              /\ StillOwed(es)[i].kind = es[i].kind /\ StillOwed(es)[i].to = es[i].to
              /\ StillOwed(es)[i].at = es[i].at /\ StillOwed(es)[i].except = es[i].except
              /\ StillOwed(es)[i].owed \subseteq es[i].owed
              /\ StillOwed(es)[i].owed \subseteq NextAudience(StillOwed(es)[i])
<1>1. es \in [1..Len(es) -> EventType] /\ Len(es) \in Nat
  OBVIOUS
<1>2. ASSUME NEW i \in 1..Len(es)
      PROVE  /\ StillOwed(es)[i] \in EventType
             /\ StillOwed(es)[i].kind = es[i].kind /\ StillOwed(es)[i].to = es[i].to
             /\ StillOwed(es)[i].at = es[i].at /\ StillOwed(es)[i].except = es[i].except
             /\ StillOwed(es)[i].owed \subseteq es[i].owed
             /\ StillOwed(es)[i].owed \subseteq NextAudience(StillOwed(es)[i])
  <2> DEFINE e == es[i]
             f == StillOwed(es)[i]
  <2>1. e \in EventType
    BY <1>1
  <2>2. f = [e EXCEPT !.owed = e.owed \cap NextAudience(e)]
    BY <1>1 DEF StillOwed
  <2> HIDE DEF e, f
  <2>3. /\ f.kind = e.kind /\ f.to = e.to /\ f.at = e.at /\ f.except = e.except /\ f.owed = e.owed \cap NextAudience(e)
        /\ f \in EventType
    BY <2>1, <2>2 DEF EventType
  <2>4. NextAudience(f) = NextAudience(e)
    BY <2>3 DEF NextAudience, Audience
  <2> QED BY <2>3, <2>4 DEF e, f
<1>3. DOMAIN StillOwed(es) = 1..Len(es)
  BY <1>1 DEF StillOwed
<1>4. StillOwed(es) = [i \in 1..Len(es) |-> StillOwed(es)[i]]
  BY <1>1 DEF StillOwed
<1>5. StillOwed(es) \in Seq(EventType) /\ Len(StillOwed(es)) = Len(es)
  BY <1>1, <1>2, <1>4, IsASeq
<1>6. StillOwed(es) = <<>> <=> es = <<>>
  BY <1>1, <1>5, EmptySeq
<1> QED BY <1>1, <1>2, <1>3, <1>5, <1>6

\* What a step that raises events leaves of those of any thread.
LEMMA RaiseIs ==
  ASSUME ThreadsOK, NEW s \in Sessions, NEW new \in Seq(EventType), Raise(s, new)
  PROVE  /\ DOMAIN events' = Sessions /\ \A t \in Sessions : events'[t] \in Seq(EventType)
         /\ Owing'
         /\ events'[s] = <<>> <=> new = <<>>
         /\ Says(s, new)
         /\ \A t \in Sessions \ {s} :
              /\ events'[t] = <<>> <=> events[t] = <<>>
              /\ Says(t, events[t])
              /\ \A i \in DOMAIN events[t] : events'[t][i].owed \subseteq events[t][i].owed
<1> DEFINE es(t) == IF t = s THEN new ELSE events[t]
<1>1. DOMAIN events' = Sessions /\ \A t \in Sessions : events'[t] = StillOwed(es(t))
  BY DEF Raise
<1>2. \A t \in Sessions : es(t) \in Seq(EventType)
  BY DEF ThreadsOK
<1>3. es(s) = new /\ \A t \in Sessions \ {s} : es(t) = events[t]
  OBVIOUS
<1> HIDE DEF es
<1>4. ASSUME NEW t \in Sessions
      PROVE  /\ events'[t] \in Seq(EventType) /\ Says(t, es(t))
             /\ events'[t] = <<>> <=> es(t) = <<>>
             /\ \A i \in DOMAIN es(t) :
                  /\ events'[t][i].owed \subseteq es(t)[i].owed
                  /\ events'[t][i].owed \subseteq NextAudience(events'[t][i])
  BY <1>1, <1>2, StillOwedIs DEF Says
<1>5. Owing'
  BY <1>4 DEF Owing, NextAudience, Says
<1> QED BY <1>1, <1>3, <1>4, <1>5

\* Events only leave the audience of others alone, or take from what is owed.
LEMMA RaisedInv ==
  ASSUME IInv, NEW s \in Sessions, NEW new \in Seq(EventType), Raise(s, new), WorldOK', HistoryOK',
         targets' = targets, NEW l \in Labels \ {"tell"}, pc' = [pc EXCEPT ![s] = l],
         l = "collect" <=> new # <<>> /\ l # "unregister"
  PROVE  IInv'
<1>1. ThreadsOK /\ Phases /\ Told
  BY DEF IInv
<1>2. /\ DOMAIN events' = Sessions /\ \A t \in Sessions : events'[t] \in Seq(EventType)
      /\ Owing'
      /\ events'[s] = <<>> <=> new = <<>>
      /\ \A t \in Sessions \ {s} :
           /\ events'[t] = <<>> <=> events[t] = <<>>
           /\ Says(t, events[t])
           /\ \A i \in DOMAIN events[t] : events'[t][i].owed \subseteq events[t][i].owed
  BY <1>1, RaiseIs
<1>3. pc' \in [Sessions -> Labels] /\ pc'[s] = l /\ \A t \in Sessions \ {s} : pc'[t] = pc[t]
  BY <1>1 DEF ThreadsOK
<1>4. ThreadsOK'
  BY <1>1, <1>2, <1>3 DEF ThreadsOK
<1>5. Phases'
  <2> SUFFICES ASSUME NEW t \in Sessions
               PROVE  pc'[t] \in {"collect", "tell"} <=> events'[t] # <<>> /\ pc'[t] # "unregister"
    BY DEF Phases
  <2>1. CASE t = s
    BY <1>2, <1>3, <2>1
  <2>2. CASE t # s
    BY <1>1, <1>2, <1>3, <2>2 DEF Phases
  <2> QED BY <2>1, <2>2
<1>6. Told'
  <2> SUFFICES ASSUME NEW t \in Sessions, pc'[t] = "tell"
               PROVE  IF Head(events'[t]).to = "all"
                      THEN Head(events'[t]).owed \subseteq targets'[t] /\ targets'[t] \subseteq Sessions
                      ELSE targets'[t] \subseteq Players
                           /\ \A u \in Head(events'[t]).owed : Owner[u] \in targets'[t]
    BY DEF Told, Now
  <2>1. t # s /\ pc[t] = "tell" /\ targets'[t] = targets[t]
    BY <1>3
  <2>2. events[t] # <<>> /\ events'[t] # <<>>
    BY <1>1, <1>2, <2>1 DEF Phases
  <2>3. events[t] \in Seq(EventType) /\ events'[t] \in Seq(EventType)
    BY <1>1, <1>2 DEF ThreadsOK
  <2>4. 1 \in DOMAIN events[t] /\ Head(events[t]) = events[t][1] /\ Head(events'[t]) = events'[t][1]
    BY <2>2, <2>3, FirstIs
  <2>5. /\ Head(events'[t]).to = Head(events[t]).to
        /\ Head(events'[t]).owed \subseteq Head(events[t]).owed
    BY <1>2, <2>1, <2>4 DEF Says
  <2>6. IF Head(events[t]).to = "all"
        THEN Head(events[t]).owed \subseteq targets[t] /\ targets[t] \subseteq Sessions
        ELSE targets[t] \subseteq Players /\ \A u \in Head(events[t]).owed : Owner[u] \in targets[t]
    BY <1>1, <2>1 DEF Told, Now
  <2> QED BY <2>1, <2>5, <2>6
<1> QED BY <1>2, <1>4, <1>5, <1>6 DEF IInv

\* A step of a thread that has nothing to tell, after which no audience is smaller.
LEMMA QuietInv ==
  ASSUME IInv, NEW s \in Sessions, UNCHANGED <<room, group, registry, ended, events>>,
         online \subseteq online', WorldOK', HistoryOK',
         events[s] = <<>>, NEW l \in Labels \ {"collect", "tell"}, pc' = [pc EXCEPT ![s] = l],
         NEW seen \in SUBSET (Players \cup Sessions), targets' = [targets EXCEPT ![s] = seen]
  PROVE  IInv'
<1>1. ThreadsOK /\ Phases /\ Owing /\ Told
  BY DEF IInv
<1>2. pc' \in [Sessions -> Labels] /\ pc'[s] = l /\ \A t \in Sessions \ {s} : pc'[t] = pc[t]
  BY <1>1 DEF ThreadsOK
<1>3. /\ targets' \in [Sessions -> SUBSET (Players \cup Sessions)]
      /\ \A t \in Sessions \ {s} : targets'[t] = targets[t]
  BY <1>1 DEF ThreadsOK
<1>4. ThreadsOK'
  BY <1>1, <1>2, <1>3 DEF ThreadsOK
<1>5. Phases'
  BY <1>1, <1>2 DEF Phases
<1>6. Owing'
  <2>1. ASSUME NEW e PROVE Audience(e, online, room, group, registry)
                           \subseteq Audience(e, online', room', group', registry')
    BY DEF Audience
  <2> QED BY <1>1, <2>1 DEF Owing
<1>7. Told'
  BY <1>1, <1>2, <1>3 DEF Told, Now
<1> QED BY <1>4, <1>5, <1>6, <1>7 DEF IInv
-----------------------------------------------------------------------------
(* The invariant *)

LEMMA InitInv == Init => IInv
<1> SUFFICES ASSUME Init PROVE IInv
  OBVIOUS
<1>1. WorldOK
  BY BroadcastAssumption DEF Init, WorldOK
<1>2. HistoryOK
  BY BroadcastAssumption DEF Init, HistoryOK
<1>3. events = [s \in Sessions |-> <<>>] /\ \A s \in Sessions : pc[s] = "new"
  BY DEF Init
<1>4. ThreadsOK
  BY <1>3, OneOrTwo DEF Init, ThreadsOK, Labels
<1>5. Phases
  BY <1>3 DEF Phases
<1>6. Owing
  BY <1>3 DEF Owing
<1>7. Told
  BY <1>3 DEF Told
<1> QED BY <1>1, <1>2, <1>4, <1>5, <1>6, <1>7 DEF IInv

\* What a command leaves alone, and that it counts.
LEMMA CommandIs ==
  ASSUME IInv, NEW s \in Sessions, Command(s)
  PROVE  /\ pc[s] = "play" /\ events[s] = <<>> /\ commands' \in 0..MaxCommands
         /\ Owner[s] \in Players /\ room[Owner[s]] \in Rooms
         /\ group[Owner[s]] \in Groups \cup {None}
         /\ UNCHANGED <<online, registry, ended>>
<1>1. pc[s] = "play" /\ commands < MaxCommands /\ commands' = commands + 1
      /\ UNCHANGED <<online, registry, ended>>
  BY DEF Command
<1>2. commands \in 0..MaxCommands /\ MaxCommands \in Nat
  BY BroadcastAssumption DEF IInv, HistoryOK
<1>3. events[s] = <<>>
  BY <1>1 DEF IInv, Phases
<1>4. Owner[s] \in Players /\ room[Owner[s]] \in Rooms /\ group[Owner[s]] \in Groups \cup {None}
  BY BroadcastAssumption DEF IInv, WorldOK
<1> QED BY <1>1, <1>2, <1>3, <1>4

LEMMA GroupEventIs ==
  ASSUME WorldOK, NEW p \in Players, NEW except \in Players \cup {None}
  PROVE  GroupEvent(p, except) \in Seq(EventType) /\ (group[p] # None => GroupEvent(p, except) # <<>>)
<1>1. group[p] \in Rooms \cup Groups \cup {None} /\ "group" \in Kinds
  BY DEF WorldOK, Kinds
<1>2. Event("group", "group", group[p], except) \in EventType
  BY <1>1, EventIs
<1> QED BY <1>2, OneOrTwo DEF GroupEvent

LEMMA LoginInv == ASSUME IInv, NEW s \in Sessions, Login(s) PROVE IInv'
<1>1. /\ pc[s] = "new" /\ online' = online \cup {Owner[s]} /\ pc' = [pc EXCEPT ![s] = "register"]
      /\ heard' = [o \in Sessions |-> [q \in Players |->
                    IF o = s \/ q = Owner[s] THEN "unknown" ELSE heard[o][q]]]
      /\ misled' = misled \cup Unsettled(s) \cup {o \in Sessions : pc[o] = "looked"}
               \cup {Owner[s] : t \in {u \in Sessions : Owner[u] = Owner[s] /\ pc[u] \notin {"new", "done"}}}
      /\ UNCHANGED <<room, group, registry, ended, events, targets, commands>>
  BY DEF Login
<1>2. Owner[s] \in Players
  BY BroadcastAssumption
<1>3. WorldOK'
  BY <1>1, <1>2 DEF IInv, WorldOK
<1>4. heard' \in [Sessions -> [Players -> {"unknown", "here", "gone"}]]
  BY <1>1 DEF IInv, HistoryOK
<1>5. misled' \subseteq Sessions \cup Players
  BY <1>1, <1>2 DEF IInv, HistoryOK, Unsettled
<1>6. HistoryOK'
  BY <1>1, <1>4, <1>5 DEF IInv, HistoryOK
<1>7. events[s] = <<>> /\ targets[s] \in SUBSET (Players \cup Sessions)
  BY <1>1 DEF IInv, Phases, ThreadsOK
<1>8. targets' = [targets EXCEPT ![s] = targets[s]]
  BY <1>1 DEF IInv, ThreadsOK
<1>9. "register" \in Labels \ {"collect", "tell"} /\ online \subseteq online'
  BY <1>1 DEF Labels
<1> QED BY <1>1, <1>3, <1>6, <1>7, <1>8, <1>9, QuietInv

LEMMA GreetInv == ASSUME IInv, NEW s \in Sessions, Greet(s) PROVE IInv'
<1>1. /\ pc[s] = "greet" /\ pc' = [pc EXCEPT ![s] = "play"]
      /\ UNCHANGED <<online, room, group, registry, ended, events, targets, heard, misled, commands>>
  BY DEF Greet
<1>2. WorldOK' /\ HistoryOK'
  BY <1>1 DEF IInv, WorldOK, HistoryOK
<1>3. /\ events[s] = <<>> /\ targets[s] \in SUBSET (Players \cup Sessions)
      /\ targets' = [targets EXCEPT ![s] = targets[s]]
  BY <1>1 DEF IInv, Phases, ThreadsOK
<1>4. "play" \in Labels \ {"collect", "tell"} /\ online \subseteq online'
  BY <1>1 DEF Labels
<1> QED BY <1>1, <1>2, <1>3, <1>4, QuietInv

LEMMA LookInv == ASSUME IInv, NEW s \in Sessions, Look(s) PROVE IInv'
<1> DEFINE seen == {p \in online : room[p] = room[Owner[s]]}
<1>1. /\ Command(s) /\ pc' = [pc EXCEPT ![s] = "looked"] /\ targets' = [targets EXCEPT ![s] = seen]
      /\ UNCHANGED <<room, group, events, heard, misled>>
  BY DEF Look
<1>2. /\ pc[s] = "play" /\ events[s] = <<>> /\ commands' \in 0..MaxCommands
      /\ UNCHANGED <<online, registry, ended>>
  BY <1>1, CommandIs
<1>3. WorldOK' /\ HistoryOK'
  BY <1>1, <1>2 DEF IInv, WorldOK, HistoryOK
<1>4. seen \in SUBSET (Players \cup Sessions)
  BY DEF IInv, WorldOK
<1>5. "looked" \in Labels \ {"collect", "tell"} /\ online \subseteq online'
  BY <1>2 DEF Labels
<1> HIDE DEF seen
<1> QED BY <1>1, <1>2, <1>3, <1>4, <1>5, QuietInv

LEMMA LookReplyInv == ASSUME IInv, NEW s \in Sessions, LookReply(s) PROVE IInv'
<1> DEFINE known == [p \in Players |-> CASE p = Owner[s] -> "unknown"
                                         [] p \in targets[s] -> "here"
                                         [] OTHER -> "gone"]
<1>1. /\ pc[s] = "looked" /\ pc' = [pc EXCEPT ![s] = "play"]
      /\ heard' = [heard EXCEPT ![s] = known] /\ targets' = [targets EXCEPT ![s] = {}]
      /\ UNCHANGED <<online, room, group, registry, ended, events, misled, commands>>
  BY DEF LookReply
<1>2. known \in [Players -> {"unknown", "here", "gone"}]
  OBVIOUS
<1> HIDE DEF known
<1>3. WorldOK' /\ HistoryOK'
  BY <1>1, <1>2 DEF IInv, WorldOK, HistoryOK
<1>4. events[s] = <<>>
  BY <1>1 DEF IInv, Phases
<1>5. "play" \in Labels \ {"collect", "tell"} /\ online \subseteq online'
      /\ {} \in SUBSET (Players \cup Sessions)
  BY <1>1 DEF Labels
<1> QED BY <1>1, <1>3, <1>4, <1>5, QuietInv

LEMMA RegisterInv == ASSUME IInv, NEW s \in Sessions, Register(s) PROVE IInv'
<1>1. /\ pc[s] = "register" /\ pc' = [pc EXCEPT ![s] = "greet"]
      /\ registry' = [registry EXCEPT ![Owner[s]] = s] /\ Raise(s, <<>>)
      /\ UNCHANGED <<online, room, group, ended, targets, heard, misled, commands>>
  BY DEF Register
<1>2. WorldOK' /\ HistoryOK'
  BY <1>1 DEF IInv, WorldOK, HistoryOK
<1>3. "greet" \in Labels \ {"tell"} /\ <<>> \in Seq(EventType)
  BY DEF Labels
<1> QED BY <1>1, <1>2, <1>3, RaisedInv

LEMMA UnregisterInv == ASSUME IInv, NEW s \in Sessions, Unregister(s) PROVE IInv'
<1> DEFINE l == IF events[s] = <<>> THEN "done" ELSE "collect"
<1>1. /\ pc[s] = "unregister" /\ pc' = [pc EXCEPT ![s] = l]
      /\ registry' = [registry EXCEPT ![Owner[s]] = None] /\ Raise(s, events[s])
      /\ UNCHANGED <<online, room, group, ended, targets, heard, misled, commands>>
  BY DEF Unregister
<1>2. WorldOK' /\ HistoryOK'
  BY <1>1 DEF IInv, WorldOK, HistoryOK
<1>3. /\ l \in Labels \ {"tell"} /\ events[s] \in Seq(EventType)
      /\ l = "collect" <=> events[s] # <<>> /\ l # "unregister"
  BY DEF Labels, IInv, ThreadsOK
<1> HIDE DEF l
<1> QED BY <1>1, <1>2, <1>3, RaisedInv

LEMMA DisconnectInv == ASSUME IInv, NEW s \in Sessions, Disconnect(s) PROVE IInv'
<1> DEFINE p == Owner[s]
           new == <<Event("leave", "room", room[p], p)>> \o GroupEvent(p, p)
<1>1. /\ pc[s] = "play" /\ pc' = [pc EXCEPT ![s] = "unregister"] /\ Raise(s, new)
      /\ online' = online \ {p} /\ group' = [group EXCEPT ![p] = None] /\ ended' = ended \cup {s}
      /\ heard' = [heard EXCEPT ![s] = [q \in Players |-> "unknown"]] /\ misled' = misled \ {s}
      /\ UNCHANGED <<room, registry, targets, commands>>
  BY DEF Disconnect, Forget
<1>2. p \in Players /\ room[p] \in Rooms \cup Groups \cup {None}
  BY BroadcastAssumption DEF IInv, WorldOK
<1>3. Event("leave", "room", room[p], p) \in EventType
  BY <1>2, EventIs DEF Kinds
<1>4. new \in Seq(EventType)
  <2>1. GroupEvent(p, p) \in Seq(EventType)
    BY <1>2, GroupEventIs DEF IInv
  <2>2. <<Event("leave", "room", room[p], p)>> \in Seq(EventType)
    BY <1>3, OneOrTwo
  <2> QED BY <2>1, <2>2, ConcatProperties
<1> HIDE DEF new, p
<1>5. WorldOK'
  BY <1>1 DEF IInv, WorldOK
<1>6. HistoryOK'
  BY <1>1 DEF IInv, HistoryOK
<1>7. "unregister" \in Labels \ {"tell"}
  BY DEF Labels
<1> QED BY <1>1, <1>4, <1>5, <1>6, <1>7, RaisedInv

\* A command that tells somebody something.
LEMMA TellsInv ==
  ASSUME IInv, NEW s \in Sessions, NEW new \in Seq(EventType), new # <<>>, Tells(s, new),
         WorldOK', HistoryOK', targets' = targets
  PROVE  IInv'
<1>1. pc' = [pc EXCEPT ![s] = "collect"] /\ Raise(s, new)
  BY DEF Tells
<1>2. "collect" \in Labels \ {"tell"}
  BY DEF Labels
<1> QED BY <1>1, <1>2, RaisedInv

LEMMA MoveInv == ASSUME IInv, NEW s \in Sessions, NEW r \in Rooms, Move(s, r) PROVE IInv'
<1> DEFINE p == Owner[s]
           new == <<Event("leave", "room", room[p], p), Event("enter", "room", r, p)>>
<1>1. /\ Command(s) /\ room' = [room EXCEPT ![p] = r] /\ Tells(s, new)
      /\ heard' = [heard EXCEPT ![s] = [q \in Players |-> "unknown"]]
      /\ misled' = misled \cup Unsettled(s) /\ UNCHANGED <<group, targets>>
  BY DEF Move
<1>2. /\ commands' \in 0..MaxCommands /\ p \in Players /\ room[p] \in Rooms
      /\ UNCHANGED <<online, registry, ended>>
  BY <1>1, CommandIs
<1>3. new \in Seq(EventType) /\ new # <<>>
  <2>1. room[p] \in Rooms \cup Groups \cup {None} /\ r \in Rooms \cup Groups \cup {None}
    BY <1>2
  <2>2. Event("leave", "room", room[p], p) \in EventType /\ Event("enter", "room", r, p) \in EventType
    BY <1>2, <2>1, EventIs DEF Kinds
  <2> QED BY <2>2, OneOrTwo
<1> HIDE DEF new, p
<1>4. WorldOK'
  BY <1>1, <1>2 DEF IInv, WorldOK
<1>5. HistoryOK'
  BY <1>1, <1>2 DEF IInv, HistoryOK, Unsettled
<1> QED BY <1>1, <1>3, <1>4, <1>5, TellsInv

LEMMA ChatInv == ASSUME IInv, NEW s \in Sessions, Chat(s) PROVE IInv'
<1> DEFINE p == Owner[s]
<1>1. /\ Command(s) /\ UNCHANGED <<room, group, targets, heard, misled>>
      /\ \/ Tells(s, <<Event("chat", "all", None, None)>>)
         \/ Tells(s, <<Event("chat", "room", room[p], None)>>)
         \/ Tells(s, <<Event("chat", "group", group[p], None)>>)
  BY DEF Chat
<1>2. /\ commands' \in 0..MaxCommands /\ p \in Players /\ room[p] \in Rooms
      /\ group[p] \in Groups \cup {None} /\ UNCHANGED <<online, registry, ended>>
  BY <1>1, CommandIs
<1>3. WorldOK' /\ HistoryOK'
  BY <1>1, <1>2 DEF IInv, WorldOK, HistoryOK
<1>4. ASSUME NEW to \in {"all", "room", "group"}, NEW at \in Rooms \cup Groups \cup {None},
             Tells(s, <<Event("chat", to, at, None)>>)
      PROVE  IInv'
  <2>1. Event("chat", to, at, None) \in EventType
    BY EventIs DEF Kinds
  <2>2. <<Event("chat", to, at, None)>> \in Seq(EventType) /\ <<Event("chat", to, at, None)>> # <<>>
    BY <2>1, OneOrTwo
  <2>3. targets' = targets
    BY <1>1
  <2> QED BY <1>3, <1>4, <2>2, <2>3, TellsInv
<1>5. /\ None \in Rooms \cup Groups \cup {None} /\ room[p] \in Rooms \cup Groups \cup {None}
      /\ group[p] \in Rooms \cup Groups \cup {None}
  BY <1>2
<1> QED BY <1>1, <1>4, <1>5

LEMMA JoinGroupInv == ASSUME IInv, NEW s \in Sessions, NEW g \in Groups, JoinGroup(s, g) PROVE IInv'
<1> DEFINE p == Owner[s]
           new == <<Event("group", "group", g, p)>>
<1>1. /\ Command(s) /\ group' = [group EXCEPT ![p] = g] /\ Tells(s, new)
      /\ UNCHANGED <<room, targets, heard, misled>>
  BY DEF JoinGroup
<1>2. commands' \in 0..MaxCommands /\ p \in Players /\ UNCHANGED <<online, registry, ended>>
  BY <1>1, CommandIs
<1>3. new \in Seq(EventType) /\ new # <<>>
  <2>1. Event("group", "group", g, p) \in EventType
    BY <1>2, EventIs DEF Kinds
  <2> QED BY <2>1, OneOrTwo
<1> HIDE DEF new, p
<1>4. WorldOK' /\ HistoryOK'
  BY <1>1, <1>2 DEF IInv, WorldOK, HistoryOK
<1> QED BY <1>1, <1>3, <1>4, TellsInv

LEMMA LeaveGroupInv == ASSUME IInv, NEW s \in Sessions, LeaveGroup(s) PROVE IInv'
<1> DEFINE p == Owner[s]
<1>1. /\ Command(s) /\ group[p] # None /\ group' = [group EXCEPT ![p] = None]
      /\ Tells(s, GroupEvent(p, None)) /\ UNCHANGED <<room, targets, heard, misled>>
  BY DEF LeaveGroup
<1>2. commands' \in 0..MaxCommands /\ p \in Players /\ UNCHANGED <<online, registry, ended>>
  BY <1>1, CommandIs
<1>3. GroupEvent(p, None) \in Seq(EventType) /\ GroupEvent(p, None) # <<>>
  BY <1>1, <1>2, GroupEventIs DEF IInv
<1> HIDE DEF p
<1>4. WorldOK' /\ HistoryOK'
  BY <1>1, <1>2 DEF IInv, WorldOK, HistoryOK
<1> QED BY <1>1, <1>3, <1>4, TellsInv

\* Who tells has an event to tell.
LEMMA NowIs ==
  ASSUME IInv, NEW s \in Sessions, pc[s] \in {"collect", "tell"}
  PROVE  /\ events[s] \in Seq(EventType) /\ events[s] # <<>> /\ 1 \in DOMAIN events[s]
         /\ Now(s) = events[s][1] /\ Now(s) \in EventType
         /\ Now(s).owed \subseteq Audience(Now(s), online, room, group, registry) \ ended
<1>1. events[s] \in Seq(EventType) /\ events[s] # <<>>
  BY DEF IInv, ThreadsOK, Phases
<1>2. 1 \in DOMAIN events[s] /\ Head(events[s]) = events[s][1] /\ events[s][1] \in EventType
  BY <1>1, FirstIs
<1>3. Now(s) = events[s][1]
  BY <1>2 DEF Now
<1>4. events[s][1].owed \subseteq Audience(events[s][1], online, room, group, registry) \ ended
  BY <1>2 DEF IInv, Owing
<1> QED BY <1>1, <1>2, <1>3, <1>4

\* The audience that is collected has all who are owed the event.
LEMMA CollectInv == ASSUME IInv, NEW s \in Sessions, Collect(s) PROVE IInv'
<1> DEFINE e == Now(s)
           audience == CASE e.to = "all" -> Registered
                         [] e.to = "room" -> {p \in online \ {e.except} : room[p] = e.at}
                         [] e.to = "group" -> {p \in Players \ {e.except} : group[p] = e.at}
<1>1. /\ pc[s] = "collect" /\ pc' = [pc EXCEPT ![s] = "tell"]
      /\ targets' = [targets EXCEPT ![s] = audience]
      /\ UNCHANGED <<online, room, group, registry, ended, events, heard, misled, commands>>
  BY DEF Collect
<1>2. /\ events[s] # <<>> /\ e \in EventType
      /\ e.owed \subseteq Audience(e, online, room, group, registry) \ ended
  BY <1>1, NowIs
<1>3. e.to \in {"all", "room", "group"} /\ e.owed \subseteq Sessions
  BY <1>2 DEF EventType
<1>4. Owner \in [Sessions -> Players] /\ online \subseteq Players
  BY BroadcastAssumption DEF IInv, WorldOK
<1> HIDE DEF e
<1>5. IF e.to = "all" THEN e.owed \subseteq audience /\ audience \subseteq Sessions
      ELSE audience \subseteq Players /\ \A t \in e.owed : Owner[t] \in audience
  <2>1. CASE e.to = "all"
    BY <1>2, <2>1 DEF Audience, Registered
  <2>2. CASE e.to = "room"
    BY <1>2, <1>4, <2>2 DEF Audience
  <2>3. CASE e.to = "group"
    BY <1>2, <1>4, <2>3 DEF Audience
  <2> QED BY <1>3, <2>1, <2>2, <2>3
<1> HIDE DEF audience
<1>6. /\ pc' \in [Sessions -> Labels] /\ pc'[s] = "tell"
      /\ \A t \in Sessions \ {s} : pc'[t] = pc[t]
  BY <1>1 DEF IInv, ThreadsOK, Labels
<1>7. /\ targets' \in [Sessions -> SUBSET (Players \cup Sessions)] /\ targets'[s] = audience
      /\ \A t \in Sessions \ {s} : targets'[t] = targets[t]
  BY <1>1, <1>5 DEF IInv, ThreadsOK
<1>8. WorldOK' /\ HistoryOK'
  BY <1>1 DEF IInv, WorldOK, HistoryOK
<1>9. ThreadsOK'
  BY <1>1, <1>6, <1>7 DEF IInv, ThreadsOK
<1>10. Phases'
  BY <1>1, <1>2, <1>6 DEF IInv, Phases
<1>11. Owing'
  BY <1>1 DEF IInv, Owing, Audience
<1>12. Told'
  <2> SUFFICES ASSUME NEW t \in Sessions, pc'[t] = "tell"
               PROVE  IF Now(t).to = "all"
                      THEN Now(t).owed \subseteq targets'[t] /\ targets'[t] \subseteq Sessions
                      ELSE targets'[t] \subseteq Players /\ \A u \in Now(t).owed : Owner[u] \in targets'[t]
    BY <1>1 DEF Told, Now
  <2>1. CASE t = s
    BY <1>5, <1>7, <2>1 DEF e
  <2>2. CASE t # s
    BY <1>6, <1>7, <2>2 DEF IInv, Told
  <2> QED BY <2>1, <2>2
<1> QED BY <1>8, <1>9, <1>10, <1>11, <1>12 DEF IInv

\* What a client has been sent it is owed no more.
LEMMA LearnIs ==
  ASSUME IInv, NEW s \in Sessions, NEW t \in Sessions, pc[s] = "tell", Learn(s, t)
  PROVE  /\ heard' \in [Sessions -> [Players -> {"unknown", "here", "gone"}]]
         /\ misled' \subseteq Sessions \cup Players
         /\ DOMAIN events' = Sessions /\ events'[s] \in Seq(EventType) /\ events'[s] # <<>>
         /\ Says(s, events[s])
         /\ \A i \in DOMAIN events[s] : events'[s][i].owed \subseteq events[s][i].owed
         /\ events'[s][1].owed = events[s][1].owed \ {t}
         /\ \A u \in Sessions \ {s} : events'[u] = events[u]
<1> DEFINE first == [events[s][1] EXCEPT !.owed = events[s][1].owed \ {t}]
<1>1. events[s] \in Seq(EventType) /\ events[s] # <<>> /\ 1 \in DOMAIN events[s]
      /\ events[s][1] \in EventType /\ DOMAIN events = Sessions
  BY NowIs DEF IInv, ThreadsOK
<1>2. /\ first \in EventType /\ first.kind = events[s][1].kind
      /\ first.to = events[s][1].to /\ first.at = events[s][1].at
      /\ first.except = events[s][1].except /\ first.owed = events[s][1].owed \ {t}
  BY <1>1 DEF EventType
<1>3. events' = [events EXCEPT ![s] = [events[s] EXCEPT ![1] = first]]
  BY DEF Learn
<1> HIDE DEF first
<1>4. DOMAIN events' = Sessions /\ events'[s] = [events[s] EXCEPT ![1] = first]
      /\ \A u \in Sessions \ {s} : events'[u] = events[u]
  BY <1>1, <1>3
<1>5. /\ DOMAIN events'[s] = DOMAIN events[s] /\ events'[s][1] = first
      /\ \A i \in DOMAIN events[s] \ {1} : events'[s][i] = events[s][i]
  BY <1>1, <1>4
<1>6. events'[s] \in Seq(EventType) /\ events'[s] # <<>>
  <2>1. [events[s] EXCEPT ![1] = first] \in Seq(EventType)
    BY <1>1, <1>2
  <2>2. events'[s] # <<>>
    BY <1>1, <1>5
  <2> QED BY <1>4, <2>1, <2>2
<1>7. heard' \in [Sessions -> [Players -> {"unknown", "here", "gone"}]]
  <2>1. CASE heard' = heard
    BY <2>1 DEF IInv, HistoryOK
  <2>2. CASE heard' = [heard EXCEPT ![t][Owner[s]] = IF Now(s).kind = "enter" THEN "here" ELSE "gone"]
    BY <2>2, BroadcastAssumption DEF IInv, HistoryOK
  <2> QED BY <2>1, <2>2 DEF Learn
<1>8. misled' \subseteq Sessions \cup Players
  <2>1. misled' \subseteq misled \cup {t}
    BY DEF Learn
  <2> QED BY <2>1 DEF IInv, HistoryOK
<1>9. Says(s, events[s]) /\ \A i \in DOMAIN events[s] : events'[s][i].owed \subseteq events[s][i].owed
  BY <1>1, <1>2, <1>5 DEF Says
<1> QED BY <1>2, <1>4, <1>5, <1>6, <1>7, <1>8, <1>9

\* One name is looked up: who has it and is owed the event gets it.
LEMMA TellInv == ASSUME IInv, NEW s \in Sessions, Tell(s) PROVE IInv'
<1>1. pc[s] = "tell" /\ UNCHANGED <<online, room, group, registry, pc, ended, commands>>
  BY DEF Tell
<1> DEFINE found(x) == IF Now(s).to = "all" THEN x ELSE registry[x]
<1>2. PICK x \in targets[s] :
        /\ targets' = [targets EXCEPT ![s] = @ \ {x}]
        /\ IF found(x) = None \/ found(x) \in ended
           THEN UNCHANGED <<events, heard, misled>> ELSE Learn(s, found(x))
  BY DEF Tell
<1> DEFINE t == found(x)
<1>3. /\ Now(s) = events[s][1] /\ Now(s) \in EventType /\ 1 \in DOMAIN events[s]
      /\ events[s] \in Seq(EventType) /\ events[s] # <<>>
      /\ Now(s).owed \subseteq Audience(Now(s), online, room, group, registry) \ ended
  BY <1>1, NowIs
<1>4. Now(s).to \in {"all", "room", "group"} /\ Now(s).owed \subseteq Sessions
  BY <1>3 DEF EventType
<1>5. IF Now(s).to = "all" THEN Now(s).owed \subseteq targets[s] /\ targets[s] \subseteq Sessions
      ELSE targets[s] \subseteq Players /\ \A u \in Now(s).owed : Owner[u] \in targets[s]
  BY <1>1 DEF IInv, Told
<1>6. t \in Sessions \cup {None}
  BY <1>5 DEF IInv, WorldOK
\* Who is still owed the event is another, and is found under another name.
<1>7. \A u \in Now(s).owed : u # t => IF Now(s).to = "all" THEN u # x ELSE Owner[u] # x
  BY <1>3 DEF Audience
<1>8. t = None \/ t \in ended => t \notin Now(s).owed
  BY <1>3, <1>4, BroadcastAssumption
<1> HIDE DEF t, found
<1>9. /\ heard' \in [Sessions -> [Players -> {"unknown", "here", "gone"}]]
      /\ misled' \subseteq Sessions \cup Players
      /\ DOMAIN events' = Sessions /\ events'[s] \in Seq(EventType) /\ events'[s] # <<>>
      /\ Says(s, events[s])
      /\ \A i \in DOMAIN events[s] : events'[s][i].owed \subseteq events[s][i].owed
      /\ events'[s][1].owed = events[s][1].owed \ {t}
      /\ \A u \in Sessions \ {s} : events'[u] = events[u]
  <2>1. CASE t = None \/ t \in ended
    <3>1. UNCHANGED <<events, heard, misled>>
      BY <1>2, <2>1 DEF t
    <3>2. events[s][1].owed = events[s][1].owed \ {t}
      BY <1>3, <1>8, <2>1
    <3> QED BY <1>3, <3>1, <3>2 DEF IInv, HistoryOK, ThreadsOK, Says
  <2>2. CASE ~(t = None \/ t \in ended)
    <3>1. Learn(s, t) /\ t \in Sessions
      BY <1>2, <1>6, <2>2 DEF t
    <3> QED BY <1>1, <3>1, LearnIs
  <2> QED BY <2>1, <2>2
<1>10. /\ targets' \in [Sessions -> SUBSET (Players \cup Sessions)] /\ targets'[s] = targets[s] \ {x}
       /\ \A u \in Sessions \ {s} : targets'[u] = targets[u]
  BY <1>2 DEF IInv, ThreadsOK
<1>11. WorldOK' /\ HistoryOK'
  BY <1>1, <1>9 DEF IInv, WorldOK, HistoryOK
<1>12. ThreadsOK'
  BY <1>1, <1>9, <1>10 DEF IInv, ThreadsOK
<1>13. Phases'
  <2> SUFFICES ASSUME NEW u \in Sessions
               PROVE  pc[u] \in {"collect", "tell"} <=> events'[u] # <<>> /\ pc[u] # "unregister"
    BY <1>1 DEF Phases
  <2> QED BY <1>1, <1>9 DEF IInv, Phases
<1>14. Owing'
  <2> SUFFICES ASSUME NEW u \in Sessions, NEW i \in DOMAIN events'[u]
               PROVE  events'[u][i].owed
                        \subseteq Audience(events'[u][i], online, room, group, registry) \ ended
    BY <1>1 DEF Owing, Audience
  <2>1. CASE u # s
    BY <1>9, <2>1 DEF IInv, Owing
  <2>2. CASE u = s
    <3>1. i \in DOMAIN events[s]
      BY <1>9, <2>2 DEF Says
    <3>2. events[s][i].owed \subseteq Audience(events[s][i], online, room, group, registry) \ ended
      BY <3>1 DEF IInv, Owing
    <3>3. Audience(events'[s][i], online, room, group, registry)
            = Audience(events[s][i], online, room, group, registry)
      BY <1>9, <3>1 DEF Audience, Says
    <3>4. events'[s][i].owed \subseteq events[s][i].owed
      BY <1>9, <3>1
    <3> QED BY <2>2, <3>2, <3>3, <3>4
  <2> QED BY <2>1, <2>2
<1>15. Told'
  <2> SUFFICES ASSUME NEW u \in Sessions, pc[u] = "tell"
               PROVE  IF Head(events'[u]).to = "all"
                      THEN Head(events'[u]).owed \subseteq targets'[u] /\ targets'[u] \subseteq Sessions
                      ELSE targets'[u] \subseteq Players
                           /\ \A v \in Head(events'[u]).owed : Owner[v] \in targets'[u]
    BY <1>1 DEF Told, Now
  <2>1. CASE u # s
    BY <1>9, <1>10, <2>1 DEF IInv, Told, Now
  <2>2. CASE u = s
    <3>1. Head(events'[s]) = events'[s][1]
      BY <1>9, FirstIs
    <3>2. Head(events'[s]).to = Now(s).to /\ Head(events'[s]).owed = Now(s).owed \ {t}
      BY <1>3, <1>9, <3>1 DEF Says
    <3> QED BY <1>5, <1>7, <1>10, <2>2, <3>2
  <2> QED BY <2>1, <2>2
<1> QED BY <1>11, <1>12, <1>13, <1>14, <1>15 DEF IInv

\* The next event comes up as it was owed all along.
LEMMA FinishInv == ASSUME IInv, NEW s \in Sessions, Finish(s) PROVE IInv'
<1> DEFINE rest == Tail(events[s])
           l == CASE rest # <<>> -> "collect"
                  [] rest = <<>> /\ s \in ended -> "done"
                  [] OTHER -> "play"
<1>1. /\ pc[s] = "tell" /\ events' = [events EXCEPT ![s] = rest] /\ pc' = [pc EXCEPT ![s] = l]
      /\ UNCHANGED <<online, room, group, registry, ended, targets, heard, misled, commands>>
  BY DEF Finish
<1>2. events[s] \in Seq(EventType) /\ events[s] # <<>> /\ DOMAIN events = Sessions
  BY <1>1, NowIs DEF IInv, ThreadsOK
<1>3. /\ rest \in Seq(EventType)
      /\ \A i \in DOMAIN rest : i + 1 \in DOMAIN events[s] /\ rest[i] = events[s][i + 1]
  BY <1>2, FirstIs
<1>4. /\ l \in Labels \ {"tell"} /\ (l \in {"collect", "tell"} <=> rest # <<>> /\ l # "unregister")
  BY DEF Labels
<1> HIDE DEF rest, l
<1>5. /\ DOMAIN events' = Sessions /\ events'[s] = rest
      /\ \A u \in Sessions \ {s} : events'[u] = events[u]
  BY <1>1, <1>2
<1>6. pc' \in [Sessions -> Labels] /\ pc'[s] = l /\ \A u \in Sessions \ {s} : pc'[u] = pc[u]
  BY <1>1, <1>4 DEF IInv, ThreadsOK
<1>7. WorldOK' /\ HistoryOK'
  BY <1>1 DEF IInv, WorldOK, HistoryOK
<1>8. ThreadsOK'
  BY <1>1, <1>3, <1>5, <1>6 DEF IInv, ThreadsOK
<1>9. Phases'
  BY <1>4, <1>5, <1>6 DEF IInv, Phases
<1>10. Owing'
  <2> SUFFICES ASSUME NEW u \in Sessions, NEW i \in DOMAIN events'[u]
               PROVE  events'[u][i].owed
                        \subseteq Audience(events'[u][i], online, room, group, registry) \ ended
    BY <1>1 DEF Owing, Audience
  <2>1. CASE u # s
    BY <1>5, <2>1 DEF IInv, Owing
  <2>2. CASE u = s
    <3>1. i + 1 \in DOMAIN events[s] /\ events'[u][i] = events[s][i + 1]
      BY <1>3, <1>5, <2>2
    <3> QED BY <3>1 DEF IInv, Owing
  <2> QED BY <2>1, <2>2
<1>11. Told'
  BY <1>1, <1>4, <1>5, <1>6 DEF IInv, Told, Now
<1> QED BY <1>7, <1>8, <1>9, <1>10, <1>11 DEF IInv

LEMMA NextInv == IInv /\ [Next]_vars => IInv'
<1> SUFFICES ASSUME IInv, [Next]_vars PROVE IInv'
  OBVIOUS
<1>1. CASE UNCHANGED vars
  <2>1. WorldOK' /\ HistoryOK' /\ ThreadsOK'
    BY <1>1 DEF vars, IInv, WorldOK, HistoryOK, ThreadsOK
  <2>2. Phases' /\ Told'
    BY <1>1 DEF vars, IInv, Phases, Told, Now
  <2>3. Owing'
    BY <1>1 DEF vars, IInv, Owing, Audience
  <2> QED BY <2>1, <2>2, <2>3 DEF IInv
<1>2. ASSUME NEW s \in Sessions, Login(s) \/ Disconnect(s) PROVE IInv'
  BY <1>2, LoginInv, DisconnectInv
<1>3. ASSUME NEW s \in Sessions, Progress(s) PROVE IInv'
  BY <1>3, RegisterInv, GreetInv, UnregisterInv, LookReplyInv, CollectInv, TellInv, FinishInv
     DEF Progress
<1>4. ASSUME NEW s \in Sessions,
             (\E r \in Rooms : Move(s, r)) \/ (\E g \in Groups : JoinGroup(s, g))
      PROVE  IInv'
  BY <1>4, MoveInv, JoinGroupInv
<1>5. ASSUME NEW s \in Sessions, Chat(s) \/ LeaveGroup(s) \/ Look(s) PROVE IInv'
  BY <1>5, ChatInv, LeaveGroupInv, LookInv
<1> QED BY <1>1, <1>2, <1>3, <1>4, <1>5 DEF Next

LEMMA Invariant == Spec => []IInv
BY InitInv, NextInv, PTL DEF Spec

\* Every variable of Broadcast keeps its type, and a thread is telling exactly
\* when it has events to tell.
THEOREM TypeCorrect == Spec => []TypeOK
<1>1. IInv => TypeOK
  <2> SUFFICES ASSUME IInv PROVE TypeOK
    OBVIOUS
  <2>1. ASSUME NEW s \in Sessions
        PROVE  /\ targets[s] \subseteq Players \cup Sessions
               /\ pc[s] \in {"collect", "tell"} <=> events[s] # <<>> /\ pc[s] # "unregister"
               /\ \A i \in DOMAIN events[s] : events[s][i].kind \in Kinds
    <3>1. targets[s] \subseteq Players \cup Sessions
      BY DEF IInv, ThreadsOK
    <3>2. pc[s] \in {"collect", "tell"} <=> events[s] # <<>> /\ pc[s] # "unregister"
      BY DEF IInv, Phases
    <3>3. events[s] \in Seq(EventType)
      BY DEF IInv, ThreadsOK
    <3>4. \A i \in DOMAIN events[s] : events[s][i] \in EventType
      BY <3>3
    <3> QED BY <3>1, <3>2, <3>4 DEF EventType
  <2> QED BY <2>1 DEF IInv, WorldOK, HistoryOK, ThreadsOK, TypeOK
<1> QED BY <1>1, Invariant, PTL

\* broadcast_to_room, broadcast_to_group and CHAT GLOBAL reach whoever is in the
\* audience from the command on until the telling is over, although the names
\* are looked up one by one with no lock held, for any number of sessions and
\* of events that overlap.
THEOREM EventTheorem == Spec => []EventReaches
<1>1. IInv => EventReaches
  <2> SUFFICES ASSUME IInv, NEW s \in Sessions, pc[s] = "tell", targets[s] = {}
               PROVE  Now(s).owed = {}
    BY DEF EventReaches
  <2>1. Now(s).to = "all" => Now(s).owed \subseteq {}
    BY DEF IInv, Told
  <2>2. Now(s).to # "all" => \A t \in Now(s).owed : Owner[t] \in {}
    BY DEF IInv, Told
  <2> QED BY <2>1, <2>2
<1> QED BY <1>1, Invariant, PTL
-----------------------------------------------------------------------------
(* What clients know of their room *)

\* A session is in the game from its login until its disconnect.
Playing(s) == pc[s] # "new" /\ s \notin ended

Lives ==
  /\ \A s \in ended : pc[s] \in {"unregister", "collect", "tell", "done"}
  /\ \A s \in Sessions : pc[s] \in {"unregister", "done"} => s \in ended
  /\ \A s \in Registered : pc[s] \notin {"new", "register"} /\ (s \in ended => pc[s] = "unregister")
  /\ \A s \in Sessions : Playing(s) => Owner[s] \in online
  /\ \A s, t \in Sessions : Playing(s) /\ Playing(t) /\ Owner[s] = Owner[t] => s = t

\* A player nobody was misled about has one session that is at work.
Alone ==
  \A s, t \in Sessions : pc[s] \notin {"new", "done"} /\ pc[t] \notin {"new", "done"}
     /\ Owner[s] = Owner[t] /\ Owner[s] \notin misled => s = t

Presence(e) == e.kind \in {"enter", "leave"}

\* Where the players are agrees with an event of p that is still to be told.
Agrees(e, p, on, in, mis) ==
  Presence(e) => /\ e.to = "room" /\ e.except = p
                 /\ p \notin mis => (e.kind = "enter" <=> p \in on /\ in[p] = e.at)

Current ==
  \A s \in Sessions : \A i \in DOMAIN events[s] : Agrees(events[s][i], Owner[s], online, room, misled)

\* Of a thread with these events at this place: the name will be looked up for
\* the first of them, or one of the others is about that room.
Flying(es, l, names, q) == l = "tell" /\ Presence(Head(es)) /\ q \in names
Ahead(es, l, r) == \E i \in DOMAIN es : Presence(es[i]) /\ es[i].at = r /\ (l = "tell" => i > 1)

\* Who is told of somebody who comes or goes is still there, or misled.
Aimed ==
  \A s, u \in Sessions :
    Playing(s) /\ s \notin misled /\ Flying(events[u], pc[u], targets[u], Owner[s])
      => room[Owner[s]] = Head(events[u]).at

\* A client that is not registered has heard nothing.
Fresh == \A s \in Sessions : pc[s] = "register" => \A p \in Players : heard[s][p] = "unknown"

\* News of p are on their way to s.
Coming(s, p) ==
  \E u \in Sessions : Owner[u] = p /\ \/ Flying(events[u], pc[u], targets[u], Owner[s])
                                      \/ Ahead(events[u], pc[u], room[Owner[s]])

Together(s, p) == p \in online /\ room[p] = room[Owner[s]]

\* What s has heard, and what it has seen and not said yet, is how it is, or
\* news are on their way.
Knows(s, p) ==
  \/ Coming(s, p)
  \/ /\ heard[s][p] # (IF Together(s, p) THEN "gone" ELSE "here")
     /\ pc[s] = "looked" => (p \in targets[s] <=> Together(s, p))

Informed ==
  \A s \in Registered \ misled : Playing(s) => \A p \in Players \ (misled \cup {Owner[s]}) : Knows(s, p)

KInv == IInv /\ Lives /\ Alone /\ Current /\ Aimed /\ Fresh /\ Informed

\* A step that leaves a thread as far as it is.
Steady(u) ==
  /\ \A q \in Players : Flying(events'[u], pc'[u], targets'[u], q)
                          <=> Flying(events[u], pc[u], targets[u], q)
  /\ \A q \in Players : Flying(events'[u], pc'[u], targets'[u], q)
                          => Head(events'[u]).at = Head(events[u]).at
  /\ \A r \in Rooms : Ahead(events'[u], pc'[u], r) <=> Ahead(events[u], pc[u], r)

LEMMA SteadyIs ==
  ASSUME IInv, IInv', NEW u \in Sessions, Says(u, events[u]), pc'[u] = pc[u], targets'[u] = targets[u]
  PROVE  Steady(u)
<1>1. /\ DOMAIN events'[u] = DOMAIN events[u]
      /\ \A i \in DOMAIN events[u] : /\ events'[u][i].kind = events[u][i].kind
                                     /\ events'[u][i].at = events[u][i].at
  BY DEF Says
<1>2. \A r : Ahead(events'[u], pc'[u], r) <=> Ahead(events[u], pc[u], r)
  BY <1>1 DEF Ahead, Presence
<1>3. pc[u] = "tell" => /\ 1 \in DOMAIN events[u] /\ Head(events[u]) = events[u][1]
                        /\ Head(events'[u]) = events'[u][1]
  <2> SUFFICES ASSUME pc[u] = "tell"
               PROVE  /\ 1 \in DOMAIN events[u] /\ Head(events[u]) = events[u][1]
                      /\ Head(events'[u]) = events'[u][1]
    OBVIOUS
  <2>1. events[u] \in Seq(EventType) /\ events[u] # <<>>
    BY DEF IInv, ThreadsOK, Phases
  <2>2. events'[u] \in Seq(EventType) /\ events'[u] # <<>>
    BY DEF IInv, ThreadsOK, Phases
  <2> QED BY <2>1, <2>2, FirstIs
<1>4. \A q : Flying(events'[u], pc'[u], targets'[u], q) <=> Flying(events[u], pc[u], targets[u], q)
  BY <1>1, <1>3 DEF Flying, Presence
<1>5. \A q : Flying(events'[u], pc'[u], targets'[u], q) => Head(events'[u]).at = Head(events[u]).at
  BY <1>1, <1>3 DEF Flying
<1> QED BY <1>2, <1>4, <1>5 DEF Steady

\* A thread that has no events is steady where it has none after the step.
LEMMA Nothing ==
  ASSUME NEW es, es = <<>>, NEW l, NEW r
  PROVE  ~Ahead(es, l, r)
BY DEF Ahead

LEMMA OwnerRoom ==
  ASSUME WorldOK, NEW s \in Sessions
  PROVE  Owner[s] \in Players /\ room[Owner[s]] \in Rooms
BY BroadcastAssumption DEF WorldOK

\* News that are on their way stay so as long as nobody moves.
LEMMA ComingStays ==
  ASSUME IInv, NEW s \in Sessions, NEW p \in Players, Coming(s, p), room' = room,
         \A u \in Sessions : Owner[u] = p => Steady(u)
  PROVE  Coming(s, p)'
<1>1. Owner[s] \in Players /\ room[Owner[s]] \in Rooms
  BY OwnerRoom DEF IInv
<1>2. PICK u \in Sessions : Owner[u] = p /\ \/ Flying(events[u], pc[u], targets[u], Owner[s])
                                            \/ Ahead(events[u], pc[u], room[Owner[s]])
  BY DEF Coming
<1>3. Steady(u)
  BY <1>2
<1>4. \/ Flying(events'[u], pc'[u], targets'[u], Owner[s])
      \/ Ahead(events'[u], pc'[u], room'[Owner[s]])
  BY <1>1, <1>2, <1>3 DEF Steady
<1> QED BY <1>2, <1>4 DEF Coming

\* A client knows as much as before when nothing happens to it or the player.
LEMMA KnowsStays ==
  ASSUME IInv, NEW s \in Sessions, NEW p \in Players, Knows(s, p), room' = room,
         p \in online' <=> p \in online, heard'[s][p] = heard[s][p],
         pc'[s] = "looked" => pc[s] = "looked" /\ targets'[s] = targets[s],
         \A u \in Sessions : Owner[u] = p => Steady(u)
  PROVE  Knows(s, p)'
<1>1. CASE Coming(s, p)
  BY <1>1, ComingStays DEF Knows
<1>2. CASE ~Coming(s, p)
  <2>1. /\ heard[s][p] # (IF Together(s, p) THEN "gone" ELSE "here")
        /\ pc[s] = "looked" => (p \in targets[s] <=> Together(s, p))
    BY <1>2 DEF Knows
  <2>2. Together(s, p)' <=> Together(s, p)
    BY DEF Together
  <2> QED BY <2>1, <2>2 DEF Knows
<1> QED BY <1>1, <1>2

\* A thread goes on from one place to another in the course of its life.
LEMMA LivesStay ==
  ASSUME KInv, NEW s \in Sessions, NEW l, pc' = [pc EXCEPT ![s] = l], l \notin {"new", "register"},
         pc[s] \notin {"new", "register", "done"}, online' = online, ended' = ended,
         \A p \in Players : registry'[p] \in {registry[p], None},
         \A p \in Players : p \in misled => p \in misled',
         l \in {"unregister", "done"} => s \in ended,
         s \in ended => l \in {"collect", "tell", "done"} /\ registry'[Owner[s]] # s
  PROVE  Lives' /\ Alone'
<1>1. Lives /\ Alone /\ pc \in [Sessions -> Labels] /\ ended \subseteq Sessions
  BY DEF KInv, IInv, ThreadsOK, WorldOK
<1>2. pc'[s] = l /\ \A t \in Sessions \ {s} : pc'[t] = pc[t]
  BY <1>1
<1>3. \A t \in Sessions : Owner[t] \in Players /\ None # t
  BY BroadcastAssumption
<1>4. \A t \in Sessions : registry'[Owner[t]] = t => registry[Owner[t]] = t
  BY <1>3
<1>5. Lives'
  <2>1. \A t \in ended' : pc'[t] \in {"unregister", "collect", "tell", "done"}
    BY <1>1, <1>2 DEF Lives
  <2>2. \A t \in Sessions : pc'[t] \in {"unregister", "done"} => t \in ended'
    BY <1>1, <1>2 DEF Lives
  <2>3. ASSUME NEW t \in Sessions, registry'[Owner[t]] = t
        PROVE  pc'[t] \notin {"new", "register"} /\ (t \in ended' => pc'[t] = "unregister")
    <3>1. CASE t = s
      BY <1>2, <2>3, <3>1
    <3>2. CASE t # s
      BY <1>1, <1>2, <1>4, <2>3, <3>2 DEF Lives, Registered
    <3> QED BY <3>1, <3>2
  <2>4. \A t \in Sessions : Playing(t)' <=> Playing(t)
    BY <1>2 DEF Playing
  <2>5. \A t \in Sessions : Playing(t)' => Owner[t] \in online'
    BY <1>1, <2>4 DEF Lives
  <2>6. \A t, u \in Sessions : Playing(t)' /\ Playing(u)' /\ Owner[t] = Owner[u] => t = u
    BY <1>1, <2>4 DEF Lives
  <2> QED BY <2>1, <2>2, <2>3, <2>5, <2>6 DEF Lives, Registered
<1>6. Alone'
  <2> SUFFICES ASSUME NEW t \in Sessions, NEW u \in Sessions, pc'[t] \notin {"new", "done"},
                      pc'[u] \notin {"new", "done"}, Owner[t] = Owner[u], Owner[t] \notin misled'
               PROVE  t = u
    BY DEF Alone
  <2>1. pc[t] \notin {"new", "done"} /\ pc[u] \notin {"new", "done"} /\ Owner[t] \notin misled
    BY <1>2, <1>3
  <2> QED BY <1>1, <2>1 DEF Alone
<1> QED BY <1>5, <1>6

\* The events of others agree with the players as long as those stay.
LEMMA CurrentStays ==
  ASSUME KInv, NEW s \in Sessions, online' = online, room' = room,
         \A p \in Players : p \in misled => p \in misled',
         \A u \in Sessions \ {s} : Says(u, events[u]),
         \A i \in DOMAIN events'[s] : Agrees(events'[s][i], Owner[s], online', room', misled')
  PROVE  Current'
<1> SUFFICES ASSUME NEW u \in Sessions, NEW i \in DOMAIN events'[u]
             PROVE  Agrees(events'[u][i], Owner[u], online', room', misled')
  BY DEF Current
<1>1. CASE u = s
  BY <1>1
<1>2. CASE u # s
  <2>1. /\ i \in DOMAIN events[u] /\ events'[u][i].kind = events[u][i].kind
        /\ events'[u][i].to = events[u][i].to /\ events'[u][i].at = events[u][i].at
        /\ events'[u][i].except = events[u][i].except
    BY <1>2 DEF Says
  <2>2. Agrees(events[u][i], Owner[u], online, room, misled)
    BY <2>1 DEF KInv, Current
  <2>3. Owner[u] \in Players
    BY BroadcastAssumption
  <2> QED BY <2>1, <2>2, <2>3 DEF Agrees, Presence
<1> QED BY <1>1, <1>2

\* The same of the events of the thread itself, when it has only some of them.
LEMMA FewerAgree ==
  ASSUME KInv, NEW s \in Sessions, online' = online, room' = room,
         \A p \in Players : p \in misled => p \in misled',
         \A i \in DOMAIN events'[s] : \E j \in DOMAIN events[s] :
           /\ events'[s][i].kind = events[s][j].kind /\ events'[s][i].to = events[s][j].to
           /\ events'[s][i].at = events[s][j].at /\ events'[s][i].except = events[s][j].except
  PROVE  \A i \in DOMAIN events'[s] : Agrees(events'[s][i], Owner[s], online', room', misled')
<1> SUFFICES ASSUME NEW i \in DOMAIN events'[s]
             PROVE  Agrees(events'[s][i], Owner[s], online', room', misled')
  OBVIOUS
<1>1. PICK j \in DOMAIN events[s] :
        /\ events'[s][i].kind = events[s][j].kind /\ events'[s][i].to = events[s][j].to
        /\ events'[s][i].at = events[s][j].at /\ events'[s][i].except = events[s][j].except
  OBVIOUS
<1>2. Agrees(events[s][j], Owner[s], online, room, misled)
  BY DEF KInv, Current
<1>3. Owner[s] \in Players
  BY BroadcastAssumption
<1> QED BY <1>1, <1>2, <1>3 DEF Agrees, Presence

\* A step that nobody hears of and that changes no news: neither is anybody
\* misled by it, nor does anybody know less.
LEMMA PlainStep ==
  ASSUME KInv, IInv', NEW s \in Sessions, NEW l, pc' = [pc EXCEPT ![s] = l],
         l \notin {"new", "register", "looked"}, pc[s] \notin {"new", "register", "done"},
         online' = online, room' = room, ended' = ended, heard' = heard, misled' = misled,
         \A p \in Players : registry'[p] \in {registry[p], None},
         l \in {"unregister", "done"} => s \in ended,
         s \in ended => l \in {"collect", "tell", "done"} /\ registry'[Owner[s]] # s,
         \A u \in Sessions : Steady(u), \A u \in Sessions \ {s} : Says(u, events[u]),
         \A u \in Sessions \ {s} : targets'[u] = targets[u],
         \A i \in DOMAIN events'[s] : Agrees(events'[s][i], Owner[s], online', room', misled')
  PROVE  KInv'
<1>1. pc'[s] = l /\ \A t \in Sessions \ {s} : pc'[t] = pc[t]
  BY DEF KInv, IInv, ThreadsOK
<1>2. Lives' /\ Alone'
  BY LivesStay
<1>3. Current'
  BY CurrentStays
<1>4. \A t \in Sessions : Owner[t] \in Players /\ None # t
  BY BroadcastAssumption
<1>5. \A t \in Sessions : Playing(t)' <=> Playing(t)
  BY <1>1 DEF Playing
<1>6. Aimed'
  <2> SUFFICES ASSUME NEW t \in Sessions, NEW u \in Sessions, Playing(t), t \notin misled,
                      Flying(events'[u], pc'[u], targets'[u], Owner[t])
               PROVE  room[Owner[t]] = Head(events'[u]).at
    BY <1>5 DEF Aimed
  <2>1. Flying(events[u], pc[u], targets[u], Owner[t]) /\ Head(events'[u]).at = Head(events[u]).at
    BY <1>4 DEF Steady
  <2> QED BY <2>1 DEF KInv, Aimed
<1>7. Fresh'
  BY <1>1 DEF KInv, Fresh
<1>8. Informed'
  <2> SUFFICES ASSUME NEW t \in Sessions, registry'[Owner[t]] = t, t \notin misled, Playing(t),
                      NEW p \in Players \ (misled \cup {Owner[t]})
               PROVE  Knows(t, p)'
    BY <1>5 DEF Informed, Registered
  <2>1. registry[Owner[t]] = t
    BY <1>4
  <2>2. Knows(t, p) /\ IInv
    BY <2>1 DEF KInv, Informed, Registered
  <2>3. pc'[t] = "looked" => pc[t] = "looked" /\ targets'[t] = targets[t]
    BY <1>1
  <2> QED BY <2>2, <2>3, KnowsStays
<1> QED BY <1>2, <1>3, <1>6, <1>7, <1>8 DEF KInv

\* A thread that is not about to tell anything has no news.
LEMMA IdleIs ==
  ASSUME IInv, NEW s \in Sessions, pc[s] \notin {"unregister", "collect", "tell"}
  PROVE  /\ events[s] = <<>>
         /\ \A q : ~Flying(events[s], pc[s], targets[s], q)
         /\ \A r : ~Ahead(events[s], pc[s], r)
<1>1. events[s] = <<>>
  BY DEF IInv, Phases
<1>2. \A q : ~Flying(events[s], pc[s], targets[s], q)
  BY DEF Flying
<1> QED BY <1>1, <1>2, Nothing

\* What a thread does leaves the others as far as they are.
LEMMA OthersSteady ==
  ASSUME IInv, IInv', NEW s \in Sessions, NEW l, pc' = [pc EXCEPT ![s] = l],
         \A u \in Sessions \ {s} : Says(u, events[u]) /\ targets'[u] = targets[u]
  PROVE  \A u \in Sessions \ {s} : Steady(u)
<1>1. \A u \in Sessions \ {s} : pc'[u] = pc[u]
  BY DEF IInv, ThreadsOK
<1> QED BY <1>1, SteadyIs

LEMMA SameSays == ASSUME NEW u, events'[u] = events[u] PROVE Says(u, events[u])
BY DEF Says

LEMMA GreetKnows == ASSUME KInv, NEW s \in Sessions, Greet(s) PROVE KInv'
<1>1. /\ pc[s] = "greet" /\ pc' = [pc EXCEPT ![s] = "play"]
      /\ UNCHANGED <<online, room, group, registry, ended, events, targets, heard, misled, commands>>
  BY DEF Greet
<1>2. IInv /\ IInv' /\ s \notin ended
  BY <1>1, GreetInv DEF KInv, Lives
<1>3. \A u \in Sessions : Says(u, events[u])
  BY <1>1, SameSays
<1>4. \A u \in Sessions \ {s} : Steady(u)
  BY <1>1, <1>2, <1>3, OthersSteady
<1>5. pc'[s] = "play"
  BY <1>1, <1>2 DEF IInv, ThreadsOK
<1>6. Steady(s)
  BY <1>1, <1>2, <1>5, IdleIs DEF Steady, Flying, Ahead
<1>7. \A i \in DOMAIN events'[s] : Agrees(events'[s][i], Owner[s], online', room', misled')
  BY <1>1 DEF KInv, Current
<1>8. /\ "play" \notin {"new", "register", "looked"} /\ pc[s] \notin {"new", "register", "done"}
      /\ \A p \in Players : registry'[p] \in {registry[p], None}
      /\ \A u \in Sessions : Steady(u) /\ targets'[u] = targets[u]
  BY <1>1, <1>4, <1>6
<1> QED BY <1>1, <1>2, <1>3, <1>7, <1>8, PlainStep

LEMMA UnregisterKnows == ASSUME KInv, NEW s \in Sessions, Unregister(s) PROVE KInv'
<1> DEFINE l == IF events[s] = <<>> THEN "done" ELSE "collect"
<1>1. /\ pc[s] = "unregister" /\ pc' = [pc EXCEPT ![s] = l]
      /\ registry' = [registry EXCEPT ![Owner[s]] = None] /\ Raise(s, events[s])
      /\ UNCHANGED <<online, room, group, ended, targets, heard, misled, commands>>
  BY DEF Unregister
<1>2. l \in {"collect", "done"}
  OBVIOUS
<1> HIDE DEF l
<1>3. IInv /\ IInv' /\ s \in ended
  BY <1>1, UnregisterInv DEF KInv, Lives
<1>4. \A u \in Sessions : Says(u, events[u])
  <2>1. ThreadsOK /\ events[s] \in Seq(EventType)
    BY <1>3 DEF IInv, ThreadsOK
  <2> QED BY <1>1, <2>1, RaiseIs
<1>5. \A u \in Sessions \ {s} : Steady(u)
  BY <1>1, <1>3, <1>4, OthersSteady
<1>6. pc'[s] = l
  BY <1>1, <1>3 DEF IInv, ThreadsOK
<1>7. Steady(s)
  <2>1. \A q : /\ ~Flying(events'[s], pc'[s], targets'[s], q)
               /\ ~Flying(events[s], pc[s], targets[s], q)
    BY <1>1, <1>2, <1>6 DEF Flying
  <2>2. \A r : Ahead(events'[s], pc'[s], r) <=> Ahead(events[s], pc[s], r)
    BY <1>1, <1>2, <1>4, <1>6 DEF Ahead, Says, Presence
  <2> QED BY <2>1, <2>2 DEF Steady
<1>8. \A i \in DOMAIN events'[s] : Agrees(events'[s][i], Owner[s], online', room', misled')
  <2>1. \A i \in DOMAIN events'[s] : \E j \in DOMAIN events[s] :
           /\ events'[s][i].kind = events[s][j].kind /\ events'[s][i].to = events[s][j].to
           /\ events'[s][i].at = events[s][j].at /\ events'[s][i].except = events[s][j].except
    BY <1>4 DEF Says
  <2> QED BY <1>1, <2>1, FewerAgree
<1>9. /\ \A p \in Players : registry'[p] \in {registry[p], None}
      /\ registry'[Owner[s]] # s
  <2>1. DOMAIN registry = Players /\ Owner[s] \in Players /\ None # s
    BY <1>3, BroadcastAssumption DEF IInv, WorldOK
  <2> QED BY <1>1, <2>1
<1>10. /\ l \notin {"new", "register", "looked"} /\ pc[s] \notin {"new", "register", "done"}
       /\ l \in {"collect", "tell", "done"}
       /\ \A u \in Sessions : Steady(u) /\ targets'[u] = targets[u]
  BY <1>1, <1>2, <1>5, <1>7
<1> QED BY <1>1, <1>3, <1>4, <1>8, <1>9, <1>10, PlainStep

\* What is said in a room, in a group or to all is no news of anybody.
LEMMA ChatterKnows ==
  ASSUME KInv, IInv', NEW s \in Sessions, NEW new \in Seq(EventType), Command(s), Tells(s, new),
         \A i \in DOMAIN new : ~Presence(new[i]), UNCHANGED <<room, targets, heard, misled>>
  PROVE  KInv'
<1>1. /\ pc[s] = "play" /\ pc' = [pc EXCEPT ![s] = "collect"] /\ Raise(s, new)
      /\ UNCHANGED <<online, registry, ended, room, targets, heard, misled>>
  BY DEF Command, Tells
<1>2. IInv /\ s \notin ended /\ ThreadsOK
  BY <1>1 DEF KInv, Lives, IInv
<1>3. Says(s, new) /\ \A u \in Sessions \ {s} : Says(u, events[u])
  BY <1>1, <1>2, RaiseIs
<1>4. \A u \in Sessions \ {s} : Steady(u)
  BY <1>1, <1>2, <1>3, OthersSteady
<1>5. pc'[s] = "collect"
  BY <1>1, <1>2 DEF ThreadsOK
<1>6. \A i \in DOMAIN events'[s] : ~Presence(events'[s][i])
  BY <1>3 DEF Says, Presence
<1>7. Steady(s)
  <2>1. \A q : ~Flying(events'[s], pc'[s], targets'[s], q)
    BY <1>5 DEF Flying
  <2>2. \A r : ~Ahead(events'[s], pc'[s], r)
    BY <1>6 DEF Ahead
  <2> QED BY <1>1, <1>2, <2>1, <2>2, IdleIs DEF Steady
<1>8. \A i \in DOMAIN events'[s] : Agrees(events'[s][i], Owner[s], online', room', misled')
  BY <1>6 DEF Agrees
<1>9. /\ "collect" \notin {"new", "register", "looked"} /\ pc[s] \notin {"new", "register", "done"}
      /\ \A p \in Players : registry'[p] \in {registry[p], None}
      /\ \A u \in Sessions : Steady(u) /\ targets'[u] = targets[u]
  BY <1>1, <1>4, <1>7
<1> QED BY <1>1, <1>2, <1>3, <1>8, <1>9, PlainStep

LEMMA ChatKnows == ASSUME KInv, NEW s \in Sessions, Chat(s) PROVE KInv'
<1>1. /\ Command(s) /\ UNCHANGED <<room, targets, heard, misled>>
      /\ \/ Tells(s, <<Event("chat", "all", None, None)>>)
         \/ Tells(s, <<Event("chat", "room", room[Owner[s]], None)>>)
         \/ Tells(s, <<Event("chat", "group", group[Owner[s]], None)>>)
  BY DEF Chat
<1>2. IInv /\ IInv'
  BY ChatInv DEF KInv
<1>3. ASSUME NEW to \in {"all", "room", "group"}, NEW at \in Rooms \cup Groups \cup {None},
             Tells(s, <<Event("chat", to, at, None)>>)
      PROVE  KInv'
  <2> DEFINE e == Event("chat", to, at, None)
  <2>1. e \in EventType /\ ~Presence(e)
    <3>1. e \in EventType
      BY EventIs DEF Kinds
    <3> QED BY <3>1 DEF Event, Presence
  <2>2. Tells(s, <<e>>)
    BY <1>3
  <2> HIDE DEF e
  <2>3. <<e>> \in Seq(EventType) /\ \A i \in DOMAIN <<e>> : ~Presence(<<e>>[i])
    BY <2>1
  <2> QED BY <1>1, <1>2, <2>2, <2>3, ChatterKnows
<1>4. /\ None \in Rooms \cup Groups \cup {None}
      /\ room[Owner[s]] \in Rooms \cup Groups \cup {None}
      /\ group[Owner[s]] \in Rooms \cup Groups \cup {None}
  BY <1>1, <1>2, CommandIs
<1> QED BY <1>1, <1>3, <1>4

LEMMA GroupKnows ==
  ASSUME KInv, NEW s \in Sessions, LeaveGroup(s) \/ \E g \in Groups : JoinGroup(s, g) PROVE KInv'
<1>1. IInv /\ IInv'
  BY LeaveGroupInv, JoinGroupInv DEF KInv
<1>2. Owner[s] \in Players /\ WorldOK
  BY <1>1, OwnerRoom DEF IInv
<1>3. \A at, except : ~Presence(Event("group", "group", at, except))
  BY DEF Presence, Event
<1>4. CASE LeaveGroup(s)
  <2> DEFINE new == GroupEvent(Owner[s], None)
  <2>1. Command(s) /\ Tells(s, new) /\ UNCHANGED <<room, targets, heard, misled>>
    BY <1>4 DEF LeaveGroup
  <2>2. new \in Seq(EventType)
    BY <1>2, GroupEventIs
  <2>3. \A i \in DOMAIN new : ~Presence(new[i])
    BY <1>3 DEF GroupEvent
  <2> QED BY <1>1, <2>1, <2>2, <2>3, ChatterKnows
<1>5. ASSUME NEW g \in Groups, JoinGroup(s, g) PROVE KInv'
  <2> DEFINE e == Event("group", "group", g, Owner[s])
  <2>1. Command(s) /\ Tells(s, <<e>>) /\ UNCHANGED <<room, targets, heard, misled>>
    BY <1>5 DEF JoinGroup
  <2>2. e \in EventType /\ ~Presence(e)
    <3>1. e \in EventType
      BY <1>2, EventIs DEF Kinds
    <3> QED BY <1>3, <3>1
  <2> HIDE DEF e
  <2>3. <<e>> \in Seq(EventType) /\ \A i \in DOMAIN <<e>> : ~Presence(<<e>>[i])
    BY <2>2
  <2> QED BY <1>1, <2>1, <2>3, ChatterKnows
<1> QED BY <1>4, <1>5

LEMMA FinishKnows == ASSUME KInv, NEW s \in Sessions, Finish(s) PROVE KInv'
<1> DEFINE rest == Tail(events[s])
           l == CASE rest # <<>> -> "collect"
                  [] rest = <<>> /\ s \in ended -> "done"
                  [] OTHER -> "play"
<1>1. /\ pc[s] = "tell" /\ targets[s] = {} /\ events' = [events EXCEPT ![s] = rest]
      /\ pc' = [pc EXCEPT ![s] = l]
      /\ UNCHANGED <<online, room, group, registry, ended, targets, heard, misled, commands>>
  BY DEF Finish
<1>2. IInv /\ IInv'
  BY FinishInv DEF KInv
<1>3. events[s] \in Seq(EventType) /\ events[s] # <<>> /\ DOMAIN events = Sessions
  BY <1>1, <1>2, NowIs DEF IInv, ThreadsOK
<1>4. /\ DOMAIN rest \subseteq Nat /\ 1 \in DOMAIN events[s]
      /\ \A i \in DOMAIN rest : i + 1 \in DOMAIN events[s] /\ rest[i] = events[s][i + 1]
  BY <1>3, FirstIs
<1>5. \A j \in DOMAIN events[s] : j > 1 => j - 1 \in DOMAIN rest /\ rest[j - 1] = events[s][j]
  <2>1. /\ Len(rest) = Len(events[s]) - 1 /\ rest \in Seq(EventType)
        /\ \A i \in 1..Len(rest) : rest[i] = events[s][i + 1]
    BY <1>3, HeadTailProperties
  <2>2. DOMAIN events[s] = 1..Len(events[s]) /\ DOMAIN rest = 1..Len(rest) /\ Len(events[s]) \in Nat
    BY <1>3, <2>1
  <2> HIDE DEF rest
  <2> QED BY <2>1, <2>2
<1>6. /\ l \in {"collect", "done", "play"} /\ (l = "done" => s \in ended)
      /\ s \in ended => l \in {"collect", "tell", "done"}
  OBVIOUS
<1> HIDE DEF rest, l
<1>7. /\ events'[s] = rest /\ pc'[s] = l
      /\ \A u \in Sessions \ {s} : events'[u] = events[u]
  BY <1>1, <1>2, <1>3 DEF IInv, ThreadsOK
<1>8. \A u \in Sessions \ {s} : Says(u, events[u])
  BY <1>7, SameSays
<1>9. \A u \in Sessions \ {s} : Steady(u)
  BY <1>1, <1>2, <1>8, OthersSteady
<1>10. Steady(s)
  <2>1. \A q : /\ ~Flying(events'[s], pc'[s], targets'[s], q)
               /\ ~Flying(events[s], pc[s], targets[s], q)
    BY <1>1, <1>6, <1>7 DEF Flying
  <2>2. ASSUME NEW r, Ahead(events[s], pc[s], r) PROVE Ahead(rest, l, r)
    <3>1. PICK j \in DOMAIN events[s] : Presence(events[s][j]) /\ events[s][j].at = r /\ j > 1
      BY <1>1, <2>2 DEF Ahead
    <3>2. j - 1 \in DOMAIN rest /\ rest[j - 1] = events[s][j]
      BY <1>5, <3>1
    <3> QED BY <1>6, <3>1, <3>2 DEF Ahead
  <2>3. ASSUME NEW r, Ahead(rest, l, r) PROVE Ahead(events[s], pc[s], r)
    <3>1. PICK i \in DOMAIN rest : Presence(rest[i]) /\ rest[i].at = r
      BY <2>3 DEF Ahead
    <3>2. i \in Nat /\ i + 1 \in DOMAIN events[s] /\ rest[i] = events[s][i + 1]
      BY <1>4, <3>1
    <3>3. i # 0
      BY <1>3, <1>4, <3>2 DEF rest
    <3> QED BY <3>1, <3>2, <3>3 DEF Ahead
  <2> QED BY <1>7, <2>1, <2>2, <2>3 DEF Steady
<1>11. \A i \in DOMAIN events'[s] : Agrees(events'[s][i], Owner[s], online', room', misled')
  <2>1. \A i \in DOMAIN events'[s] : \E j \in DOMAIN events[s] :
           /\ events'[s][i].kind = events[s][j].kind /\ events'[s][i].to = events[s][j].to
           /\ events'[s][i].at = events[s][j].at /\ events'[s][i].except = events[s][j].except
    BY <1>4, <1>7
  <2> QED BY <1>1, <2>1, FewerAgree
<1>12. s \in ended => registry'[Owner[s]] # s
  BY <1>1 DEF KInv, Lives, Registered
<1>13. /\ l \notin {"new", "register", "looked"} /\ pc[s] \notin {"new", "register", "done"}
       /\ l \in {"unregister", "done"} => s \in ended
       /\ \A p \in Players : registry'[p] \in {registry[p], None}
       /\ \A u \in Sessions : Steady(u) /\ targets'[u] = targets[u]
  BY <1>1, <1>6, <1>9, <1>10
<1> QED BY <1>1, <1>2, <1>6, <1>8, <1>11, <1>12, <1>13, PlainStep

\* A step after which a session knows what it did, and others too.
LEMMA OthersKnow ==
  ASSUME KInv, NEW s \in Sessions, NEW l, pc' = [pc EXCEPT ![s] = l], l \notin {"new", "register"},
         pc[s] \notin {"new", "register", "done"}, online' = online, room' = room, ended' = ended,
         registry' = registry, misled' = misled, \A u \in Sessions : Steady(u),
         \A u \in Sessions \ {s} : targets'[u] = targets[u] /\ heard'[u] = heard[u],
         \A p \in Players \ {Owner[s]} : Knows(s, p) => Knows(s, p)'
  PROVE  Informed'
<1>1. pc'[s] = l /\ \A t \in Sessions \ {s} : pc'[t] = pc[t]
  BY DEF KInv, IInv, ThreadsOK
<1>2. \A t \in Sessions : Playing(t)' <=> Playing(t)
  BY <1>1 DEF Playing
<1> SUFFICES ASSUME NEW t \in Sessions, registry[Owner[t]] = t, t \notin misled, Playing(t),
                    NEW p \in Players \ (misled \cup {Owner[t]})
             PROVE  Knows(t, p)'
  BY <1>2 DEF Informed, Registered
<1>3. Knows(t, p) /\ IInv
  BY DEF KInv, Informed, Registered
<1>4. CASE t = s
  BY <1>3, <1>4
<1>5. CASE t # s
  <2>1. pc'[t] = pc[t] /\ targets'[t] = targets[t] /\ heard'[t][p] = heard[t][p]
    BY <1>1, <1>5
  <2> QED BY <1>3, <2>1, KnowsStays
<1> QED BY <1>4, <1>5

\* What is on its way is for the same rooms as before.
LEMMA AimedStays ==
  ASSUME KInv, room' = room, \A u \in Sessions : Steady(u),
         \A t \in Sessions : Playing(t)' /\ t \notin misled' => Playing(t) /\ t \notin misled
  PROVE  Aimed'
<1> SUFFICES ASSUME NEW t \in Sessions, NEW u \in Sessions, Playing(t)', t \notin misled',
                    Flying(events'[u], pc'[u], targets'[u], Owner[t])
             PROVE  room'[Owner[t]] = Head(events'[u]).at
  BY DEF Aimed
<1>1. Owner[t] \in Players
  BY BroadcastAssumption
<1>2. Flying(events[u], pc[u], targets[u], Owner[t]) /\ Head(events'[u]).at = Head(events[u]).at
  BY <1>1 DEF Steady
<1> QED BY <1>2 DEF KInv, Aimed

LEMMA LookKnows == ASSUME KInv, NEW s \in Sessions, Look(s) PROVE KInv'
<1> DEFINE seen == {p \in online : room[p] = room[Owner[s]]}
<1>1. /\ pc[s] = "play" /\ pc' = [pc EXCEPT ![s] = "looked"] /\ targets' = [targets EXCEPT ![s] = seen]
      /\ UNCHANGED <<online, room, group, registry, ended, events, heard, misled>>
  BY DEF Look, Command
<1> HIDE DEF seen
<1>2. IInv /\ IInv' /\ s \notin ended
  BY <1>1, LookInv DEF KInv, Lives
<1>3. /\ pc'[s] = "looked" /\ targets'[s] = seen
      /\ \A u \in Sessions \ {s} : pc'[u] = pc[u] /\ targets'[u] = targets[u]
  BY <1>1, <1>2 DEF IInv, ThreadsOK
<1>4. \A u \in Sessions : Says(u, events[u])
  BY <1>1, SameSays
<1>5. \A u \in Sessions : Steady(u)
  <2>1. \A u \in Sessions \ {s} : Steady(u)
    BY <1>1, <1>2, <1>3, <1>4, OthersSteady
  <2>2. Steady(s)
    BY <1>1, <1>2, <1>3, IdleIs DEF Steady, Flying, Ahead
  <2> QED BY <2>1, <2>2
<1>6. Lives' /\ Alone'
  BY <1>1, <1>2, LivesStay
<1>7. Current'
  BY <1>1 DEF KInv, Current
<1>8. \A t \in Sessions : Playing(t)' => Playing(t)
  BY <1>1, <1>2 DEF Playing
<1>9. Aimed'
  BY <1>1, <1>5, <1>8, AimedStays
<1>10. Fresh'
  BY <1>1, <1>3 DEF KInv, Fresh
<1>11. ASSUME NEW p \in Players, Knows(s, p) PROVE Knows(s, p)'
  <2>1. CASE Coming(s, p)
    <3>1. Coming(s, p)'
      BY <1>1, <1>2, <1>5, <2>1, ComingStays
    <3> QED BY <3>1 DEF Knows
  <2>2. CASE ~Coming(s, p)
    <3>1. heard'[s][p] # (IF Together(s, p)' THEN "gone" ELSE "here")
      BY <1>1, <1>11, <2>2 DEF Knows, Together
    <3>2. p \in targets'[s] <=> Together(s, p)'
      BY <1>1, <1>3 DEF seen, Together
    <3> QED BY <3>1, <3>2 DEF Knows
  <2> QED BY <2>1, <2>2
<1>12. Informed'
  BY <1>1, <1>3, <1>5, <1>11, OthersKnow
<1> QED BY <1>2, <1>6, <1>7, <1>9, <1>10, <1>12 DEF KInv

LEMMA LookReplyKnows == ASSUME KInv, NEW s \in Sessions, LookReply(s) PROVE KInv'
<1> DEFINE known == [p \in Players |-> CASE p = Owner[s] -> "unknown"
                                         [] p \in targets[s] -> "here"
                                         [] OTHER -> "gone"]
<1>1. /\ pc[s] = "looked" /\ pc' = [pc EXCEPT ![s] = "play"]
      /\ heard' = [heard EXCEPT ![s] = known] /\ targets' = [targets EXCEPT ![s] = {}]
      /\ UNCHANGED <<online, room, group, registry, ended, events, misled, commands>>
  BY DEF LookReply
<1>2. \A p \in Players \ {Owner[s]} : known[p] = IF p \in targets[s] THEN "here" ELSE "gone"
  OBVIOUS
<1> HIDE DEF known
<1>3. IInv /\ IInv' /\ s \notin ended
  BY <1>1, LookReplyInv DEF KInv, Lives
<1>4. /\ pc'[s] = "play" /\ heard'[s] = known
      /\ \A u \in Sessions \ {s} : /\ pc'[u] = pc[u] /\ targets'[u] = targets[u]
                                   /\ heard'[u] = heard[u]
  BY <1>1, <1>3 DEF IInv, ThreadsOK, HistoryOK
<1>5. \A u \in Sessions : Says(u, events[u])
  BY <1>1, SameSays
<1>6. \A u \in Sessions : Steady(u)
  <2>1. \A u \in Sessions \ {s} : Steady(u)
    BY <1>1, <1>3, <1>4, <1>5, OthersSteady
  <2>2. Steady(s)
    BY <1>1, <1>3, <1>4, IdleIs DEF Steady, Flying, Ahead
  <2> QED BY <2>1, <2>2
<1>7. Lives' /\ Alone'
  BY <1>1, <1>3, LivesStay
<1>8. Current'
  BY <1>1 DEF KInv, Current
<1>9. \A t \in Sessions : Playing(t)' => Playing(t)
  BY <1>1, <1>3 DEF Playing
<1>10. Aimed'
  BY <1>1, <1>6, <1>9, AimedStays
<1>11. Fresh'
  BY <1>1, <1>4 DEF KInv, Fresh
<1>12. ASSUME NEW p \in Players \ {Owner[s]}, Knows(s, p) PROVE Knows(s, p)'
  <2>1. CASE Coming(s, p)
    <3>1. Coming(s, p)'
      BY <1>1, <1>3, <1>6, <2>1, ComingStays
    <3> QED BY <3>1 DEF Knows
  <2>2. CASE ~Coming(s, p)
    <3>1. p \in targets[s] <=> Together(s, p)
      BY <1>1, <1>12, <2>2 DEF Knows
    <3>2. Together(s, p)' <=> Together(s, p)
      BY <1>1 DEF Together
    <3>3. heard'[s][p] # (IF Together(s, p)' THEN "gone" ELSE "here")
      BY <1>2, <1>4, <3>1, <3>2
    <3> QED BY <1>4, <3>3 DEF Knows
  <2> QED BY <2>1, <2>2
<1>13. Informed'
  BY <1>1, <1>4, <1>6, <1>12, OthersKnow
<1> QED BY <1>3, <1>7, <1>8, <1>10, <1>11, <1>13 DEF KInv

\* From the registration on a client is told, and it has heard nothing before.
LEMMA RegisterKnows == ASSUME KInv, NEW s \in Sessions, Register(s) PROVE KInv'
<1>1. /\ pc[s] = "register" /\ pc' = [pc EXCEPT ![s] = "greet"]
      /\ registry' = [registry EXCEPT ![Owner[s]] = s] /\ Raise(s, <<>>)
      /\ UNCHANGED <<online, room, group, ended, targets, heard, misled, commands>>
  BY DEF Register
<1>2. IInv /\ IInv' /\ s \notin ended
  BY <1>1, RegisterInv DEF KInv, Lives
<1>3. pc'[s] = "greet" /\ \A u \in Sessions \ {s} : pc'[u] = pc[u]
  BY <1>1, <1>2 DEF IInv, ThreadsOK
<1>4. events[s] = <<>>
  BY <1>1, <1>2, IdleIs
<1>5. events'[s] = <<>> /\ \A u \in Sessions : Says(u, events[u])
  <2>1. ThreadsOK /\ <<>> \in Seq(EventType)
    BY <1>2 DEF IInv
  <2> QED BY <1>1, <1>4, <2>1, RaiseIs
<1>6. \A u \in Sessions : Steady(u)
  <2>1. \A u \in Sessions \ {s} : Steady(u)
    BY <1>1, <1>2, <1>5, OthersSteady
  <2>2. Steady(s)
    BY <1>1, <1>3, <1>4, <1>5, Nothing DEF Steady, Flying
  <2> QED BY <2>1, <2>2
<1>7. \A t \in Sessions : Owner[t] \in Players
  BY BroadcastAssumption
<1>8. \A t \in Sessions \ {s} : registry'[Owner[t]] = t => registry[Owner[t]] = t
  BY <1>1, <1>2, <1>7 DEF IInv, WorldOK
<1>9. \A t \in Sessions : Playing(t)' <=> Playing(t)
  BY <1>1, <1>3 DEF Playing
<1>10. Lives'
  <2>1. \A t \in ended' : pc'[t] \in {"unregister", "collect", "tell", "done"}
    BY <1>1, <1>2, <1>3 DEF KInv, IInv, WorldOK, Lives
  <2>2. \A t \in Sessions : pc'[t] \in {"unregister", "done"} => t \in ended'
    BY <1>1, <1>3 DEF KInv, Lives
  <2>3. \A t \in Registered' : pc'[t] \notin {"new", "register"} /\ (t \in ended' => pc'[t] = "unregister")
    BY <1>1, <1>2, <1>3, <1>8 DEF KInv, Lives, Registered
  <2>4. \A t \in Sessions : Playing(t)' => Owner[t] \in online'
    BY <1>1, <1>9 DEF KInv, Lives
  <2>5. \A t, u \in Sessions : Playing(t)' /\ Playing(u)' /\ Owner[t] = Owner[u] => t = u
    BY <1>9 DEF KInv, Lives
  <2> QED BY <2>1, <2>2, <2>3, <2>4, <2>5 DEF Lives
<1>11. Alone'
  <2>1. \A t \in Sessions : pc'[t] \notin {"new", "done"} <=> pc[t] \notin {"new", "done"}
    BY <1>1, <1>3
  <2> QED BY <1>1, <2>1 DEF KInv, Alone
<1>12. Current'
  <2>1. \A i \in DOMAIN events'[s] : Agrees(events'[s][i], Owner[s], online', room', misled')
    BY <1>5
  <2> QED BY <1>1, <1>5, <2>1, CurrentStays
<1>13. Aimed'
  BY <1>1, <1>6, <1>9, AimedStays
<1>14. Fresh'
  BY <1>1, <1>3 DEF KInv, Fresh
<1>15. Informed'
  <2> SUFFICES ASSUME NEW t \in Sessions, registry'[Owner[t]] = t, t \notin misled, Playing(t),
                      NEW p \in Players \ (misled \cup {Owner[t]})
               PROVE  Knows(t, p)'
    BY <1>1, <1>9 DEF Informed, Registered
  <2>1. CASE t = s
    <3>1. heard'[s][p] = "unknown"
      BY <1>1 DEF KInv, Fresh
    <3> QED BY <1>3, <2>1, <3>1 DEF Knows
  <2>2. CASE t # s
    <3>1. Knows(t, p)
      BY <1>8, <2>2 DEF KInv, Informed, Registered
    <3>2. pc'[t] = pc[t] /\ targets'[t] = targets[t] /\ heard'[t][p] = heard[t][p]
      BY <1>1, <1>3, <2>2
    <3> QED BY <1>1, <1>2, <1>6, <3>1, <3>2, KnowsStays
  <2> QED BY <2>1, <2>2
<1> QED BY <1>2, <1>10, <1>11, <1>12, <1>13, <1>14, <1>15 DEF KInv

\* Who has news is at work.
LEMMA NewsIsWork ==
  ASSUME IInv, NEW u \in Sessions
  PROVE  /\ \A i \in DOMAIN events[u] : pc[u] \notin {"new", "done", "play"}
         /\ \A r : Ahead(events[u], pc[u], r) => pc[u] \notin {"new", "done", "play"}
         /\ \A q : Flying(events[u], pc[u], targets[u], q) => pc[u] \notin {"new", "done", "play"}
<1>1. pc[u] \in {"new", "done", "play"} => events[u] = <<>>
  BY DEF IInv, Phases
<1>2. \A r : Ahead(events[u], pc[u], r) => pc[u] \notin {"new", "done", "play"}
  BY <1>1, Nothing
<1>3. \A q : Flying(events[u], pc[u], targets[u], q) => pc[u] \notin {"new", "done", "play"}
  BY DEF Flying
<1> QED BY <1>1, <1>2, <1>3

\* News of a player who can give a command are not on their way any more.
LEMMA NotComing ==
  ASSUME KInv, NEW s \in Sessions, pc[s] = "play", Owner[s] \notin misled, NEW t \in Sessions
  PROVE  ~Coming(t, Owner[s])
<1> SUFFICES ASSUME Coming(t, Owner[s]) PROVE FALSE
  OBVIOUS
<1>1. PICK u \in Sessions : /\ Owner[u] = Owner[s]
                            /\ \/ Flying(events[u], pc[u], targets[u], Owner[t])
                               \/ Ahead(events[u], pc[u], room[Owner[t]])
  BY DEF Coming
<1>2. IInv /\ Alone
  BY DEF KInv
<1>3. pc[u] \notin {"new", "done", "play"}
  BY <1>1, <1>2, NewsIsWork
<1>4. u = s
  BY <1>1, <1>2, <1>3 DEF Alone
<1> QED BY <1>3, <1>4

LEMMA LoginKnows == ASSUME KInv, NEW s \in Sessions, Login(s) PROVE KInv'
<1> DEFINE p0 == Owner[s]
<1>1. /\ pc[s] = "new" /\ p0 \notin online /\ online' = online \cup {p0}
      /\ pc' = [pc EXCEPT ![s] = "register"]
      /\ heard' = [o \in Sessions |-> [q \in Players |->
                    IF o = s \/ q = p0 THEN "unknown" ELSE heard[o][q]]]
      /\ UNCHANGED <<room, group, registry, ended, events, targets, commands>>
  BY DEF Login
<1>2. /\ misled \subseteq misled' /\ Unsettled(s) \subseteq misled'
      /\ {o \in Sessions : pc[o] = "looked"} \subseteq misled'
      /\ \A u \in Sessions : Owner[u] = p0 /\ pc[u] \notin {"new", "done"} => p0 \in misled'
  BY DEF Login
<1>3. IInv /\ IInv' /\ s \notin ended /\ registry[p0] # s
  BY <1>1, LoginInv DEF KInv, Lives, Registered
<1>4. pc'[s] = "register" /\ \A u \in Sessions \ {s} : pc'[u] = pc[u]
  BY <1>1, <1>3 DEF IInv, ThreadsOK
<1>5. \A u \in Sessions : Says(u, events[u])
  BY <1>1, SameSays
<1>6. \A u \in Sessions : Steady(u)
  <2>1. \A u \in Sessions \ {s} : Steady(u)
    BY <1>1, <1>3, <1>5, OthersSteady
  <2>2. Steady(s)
    BY <1>1, <1>3, <1>4, IdleIs DEF Steady, Flying, Ahead
  <2> QED BY <2>1, <2>2
<1>7. \A t \in Sessions : Owner[t] \in Players
  BY BroadcastAssumption
<1>8. \A t \in Sessions \ {s} : Playing(t)' <=> Playing(t)
  BY <1>1, <1>4 DEF Playing
<1>9. Lives'
  <2>1. \A t \in ended' : pc'[t] \in {"unregister", "collect", "tell", "done"}
    BY <1>1, <1>3, <1>4 DEF KInv, IInv, WorldOK, Lives
  <2>2. \A t \in Sessions : pc'[t] \in {"unregister", "done"} => t \in ended'
    BY <1>1, <1>4 DEF KInv, Lives
  <2>3. \A t \in Registered' : pc'[t] \notin {"new", "register"} /\ (t \in ended' => pc'[t] = "unregister")
    BY <1>1, <1>3, <1>4 DEF KInv, Lives, Registered
  <2>4. \A t \in Sessions : Playing(t)' => Owner[t] \in online'
    BY <1>1, <1>8 DEF KInv, Lives
  <2>5. \A t \in Sessions \ {s} : Playing(t) => Owner[t] # p0
    BY <1>1 DEF KInv, Lives
  <2>6. \A t, u \in Sessions : Playing(t)' /\ Playing(u)' /\ Owner[t] = Owner[u] => t = u
    BY <1>8, <2>5 DEF KInv, Lives
  <2> QED BY <2>1, <2>2, <2>3, <2>4, <2>6 DEF Lives
<1>10. Alone'
  <2> SUFFICES ASSUME NEW t \in Sessions, NEW u \in Sessions, pc'[t] \notin {"new", "done"},
                      pc'[u] \notin {"new", "done"}, Owner[t] = Owner[u], Owner[t] \notin misled',
                      t # u
               PROVE  FALSE
    BY DEF Alone
  <2>1. CASE t # s /\ u # s
    BY <1>2, <1>4, <2>1 DEF KInv, Alone
  <2>2. CASE t = s \/ u = s
    BY <1>2, <1>4, <2>2
  <2> QED BY <2>1, <2>2
<1>11. Current'
  <2> SUFFICES ASSUME NEW u \in Sessions, NEW i \in DOMAIN events[u]
               PROVE  Agrees(events[u][i], Owner[u], online', room, misled')
    BY <1>1 DEF Current
  <2>1. Agrees(events[u][i], Owner[u], online, room, misled)
    BY DEF KInv, Current
  <2>2. Owner[u] = p0 => p0 \in misled'
    BY <1>2, <1>3, NewsIsWork
  <2> QED BY <1>1, <1>2, <2>1, <2>2 DEF Agrees
<1>12. Aimed'
  <2> SUFFICES ASSUME NEW t \in Sessions, NEW u \in Sessions, Playing(t)', t \notin misled',
                      Flying(events'[u], pc'[u], targets'[u], Owner[t])
               PROVE  room'[Owner[t]] = Head(events'[u]).at
    BY DEF Aimed
  <2>1. Flying(events[u], pc[u], targets[u], Owner[t]) /\ Head(events'[u]).at = Head(events[u]).at
    BY <1>6, <1>7 DEF Steady
  <2>2. t # s
    <3>1. Flying(events[u], pc[u], targets[u], p0) => InFlight(p0, u)
      BY DEF Flying, InFlight, Presence, Now
    <3>2. InFlight(p0, u) => s \in Unsettled(s)
      BY DEF Unsettled
    <3> QED BY <1>2, <2>1, <3>1, <3>2
  <2> QED BY <1>1, <1>2, <1>8, <2>1, <2>2 DEF KInv, Aimed
<1>13. Fresh'
  BY <1>1, <1>4 DEF KInv, Fresh
<1>14. Informed'
  <2> SUFFICES ASSUME NEW t \in Sessions, registry[Owner[t]] = t, t \notin misled', Playing(t)',
                      NEW p \in Players \ (misled' \cup {Owner[t]})
               PROVE  Knows(t, p)'
    BY <1>1 DEF Informed, Registered
  <2>1. t # s /\ pc[t] # "looked"
    BY <1>2, <1>3
  <2>2. pc'[t] # "looked"
    BY <1>4, <2>1
  <2>3. CASE p = p0
    <3>1. heard'[t][p] = "unknown"
      BY <1>1, <2>3
    <3> QED BY <2>2, <3>1 DEF Knows
  <2>4. CASE p # p0
    <3>1. Knows(t, p)
      BY <1>2, <1>8, <2>1 DEF KInv, Informed, Registered
    <3>2. heard'[t][p] = heard[t][p] /\ (p \in online' <=> p \in online)
      BY <1>1, <2>1, <2>4
    <3> QED BY <1>1, <1>3, <1>6, <2>2, <3>1, <3>2, KnowsStays
  <2> QED BY <2>3, <2>4
<1> QED BY <1>3, <1>9, <1>10, <1>11, <1>12, <1>13, <1>14 DEF KInv

LEMMA OneAndOne ==
  ASSUME NEW S, NEW a \in S, NEW b \in S
  PROVE  /\ <<a>> \o <<b>> \in Seq(S) /\ DOMAIN (<<a>> \o <<b>>) = {1, 2}
         /\ (<<a>> \o <<b>>)[1] = a /\ (<<a>> \o <<b>>)[2] = b
<1>1. <<a>> \in Seq(S) /\ <<b>> \in Seq(S) /\ Len(<<a>>) = 1 /\ Len(<<b>>) = 1
      /\ <<a>>[1] = a /\ <<b>>[1] = b
  OBVIOUS
<1>2. /\ <<a>> \o <<b>> \in Seq(S) /\ Len(<<a>> \o <<b>>) = 2
      /\ \A i \in 1..2 : (<<a>> \o <<b>>)[i] = IF i <= 1 THEN <<a>>[i] ELSE <<b>>[i - 1]
  BY <1>1, ConcatProperties
<1>3. DOMAIN (<<a>> \o <<b>>) = {1, 2}
  BY <1>2
<1> QED BY <1>1, <1>2, <1>3

LEMMA DisconnectKnows == ASSUME KInv, NEW s \in Sessions, Disconnect(s) PROVE KInv'
<1> DEFINE p0 == Owner[s]
           new == <<Event("leave", "room", room[p0], p0)>> \o GroupEvent(p0, p0)
<1>1. /\ pc[s] = "play" /\ pc' = [pc EXCEPT ![s] = "unregister"] /\ Raise(s, new)
      /\ online' = online \ {p0} /\ ended' = ended \cup {s}
      /\ heard' = [heard EXCEPT ![s] = [q \in Players |-> "unknown"]] /\ misled' = misled \ {s}
      /\ UNCHANGED <<room, registry, targets>>
  BY DEF Disconnect, Forget
<1>2. IInv /\ IInv' /\ s \notin ended
  BY <1>1, DisconnectInv DEF KInv, Lives
<1>3. \A t \in Sessions : Owner[t] \in Players /\ Owner[t] \notin Sessions
  BY BroadcastAssumption
<1>4. p0 \in Players /\ room[p0] \in Rooms /\ WorldOK
  BY <1>2, OwnerRoom DEF IInv
<1>5. /\ new \in Seq(EventType) /\ 1 \in DOMAIN new
      /\ new[1] = Event("leave", "room", room[p0], p0)
      /\ \A i \in DOMAIN new \ {1} : new[i].kind = "group"
  <2> DEFINE e == Event("leave", "room", room[p0], p0)
             g == Event("group", "group", group[p0], p0)
  <2>1. e \in EventType
    BY <1>4, EventIs DEF Kinds
  <2>2. CASE group[p0] = None
    <3>1. new = <<e>>
      BY <2>2 DEF GroupEvent
    <3> HIDE DEF e, new
    <3>2. <<e>> \in Seq(EventType) /\ DOMAIN <<e>> = {1} /\ <<e>>[1] = e
      BY <2>1
    <3> QED BY <3>1, <3>2 DEF e
  <2>3. CASE group[p0] # None
    <3>1. g \in EventType /\ g.kind = "group"
      <4>1. group[p0] \in Rooms \cup Groups \cup {None} /\ "group" \in Kinds
        BY <1>4 DEF WorldOK, Kinds
      <4>2. g \in EventType
        BY <1>4, <4>1, EventIs
      <4> QED BY <4>2 DEF Event
    <3>2. new = <<e>> \o <<g>>
      BY <2>3 DEF GroupEvent
    <3> HIDE DEF e, g, new
    <3>3. /\ new \in Seq(EventType) /\ DOMAIN new = {1, 2} /\ new[1] = e /\ new[2] = g
      BY <2>1, <3>1, <3>2, OneAndOne
    <3> QED BY <3>1, <3>3 DEF e
  <2> QED BY <2>2, <2>3
<1> HIDE DEF new
<1>6. Says(s, new) /\ \A u \in Sessions \ {s} : Says(u, events[u])
  <2>1. ThreadsOK
    BY <1>2 DEF IInv
  <2> QED BY <1>1, <1>5, <2>1, RaiseIs
<1>7. \A u \in Sessions \ {s} : Steady(u)
  BY <1>1, <1>2, <1>6, OthersSteady
<1>8. pc'[s] = "unregister" /\ \A u \in Sessions \ {s} : pc'[u] = pc[u]
  BY <1>1, <1>2 DEF IInv, ThreadsOK
<1>9. /\ 1 \in DOMAIN events'[s] /\ events'[s][1].kind = "leave" /\ events'[s][1].to = "room"
      /\ events'[s][1].at = room[p0] /\ events'[s][1].except = p0
      /\ \A i \in DOMAIN events'[s] \ {1} : events'[s][i].kind = "group"
  BY <1>5, <1>6 DEF Says, Event
<1>10. Ahead(events'[s], pc'[s], room[p0])
  BY <1>8, <1>9 DEF Ahead, Presence
<1>11. \A t \in Sessions : Playing(t)' => t # s /\ Playing(t)
  BY <1>1, <1>8 DEF Playing
<1>12. Lives'
  <2>1. \A t \in ended' : pc'[t] \in {"unregister", "collect", "tell", "done"}
    BY <1>1, <1>2, <1>8 DEF KInv, IInv, WorldOK, Lives
  <2>2. \A t \in Sessions : pc'[t] \in {"unregister", "done"} => t \in ended'
    BY <1>1, <1>8 DEF KInv, Lives
  <2>3. \A t \in Registered' : pc'[t] \notin {"new", "register"} /\ (t \in ended' => pc'[t] = "unregister")
    BY <1>1, <1>8 DEF KInv, Lives, Registered
  <2>4. Playing(s)
    BY <1>1, <1>2 DEF Playing
  <2>5. \A t \in Sessions : Playing(t)' => Owner[t] \in online'
    BY <1>1, <1>11, <2>4 DEF KInv, Lives
  <2>6. \A t, u \in Sessions : Playing(t)' /\ Playing(u)' /\ Owner[t] = Owner[u] => t = u
    BY <1>11 DEF KInv, Lives
  <2> QED BY <2>1, <2>2, <2>3, <2>5, <2>6 DEF Lives
<1>13. \A p \in Players : p \in misled' <=> p \in misled
  BY <1>1, BroadcastAssumption
<1>14. Alone'
  <2>1. \A t \in Sessions : pc'[t] \notin {"new", "done"} <=> pc[t] \notin {"new", "done"}
    BY <1>1, <1>8
  <2> QED BY <1>3, <1>13, <2>1 DEF KInv, Alone
<1>15. Current'
  <2> SUFFICES ASSUME NEW u \in Sessions, NEW i \in DOMAIN events'[u]
               PROVE  Agrees(events'[u][i], Owner[u], online', room', misled')
    BY DEF Current
  <2>1. CASE u = s
    BY <1>1, <1>9, <2>1 DEF Agrees, Presence
  <2>2. CASE u # s
    <3>1. /\ i \in DOMAIN events[u] /\ events'[u][i].kind = events[u][i].kind
          /\ events'[u][i].to = events[u][i].to /\ events'[u][i].at = events[u][i].at
          /\ events'[u][i].except = events[u][i].except
      BY <1>6, <2>2 DEF Says
    <3>2. Agrees(events[u][i], Owner[u], online, room, misled)
      BY <3>1 DEF KInv, Current
    <3>3. pc[u] \notin {"new", "done"}
      BY <1>2, <3>1, NewsIsWork
    <3>4. Owner[u] \notin misled => Owner[u] # p0
      BY <1>1, <2>2, <3>3 DEF KInv, Alone
    <3>5. /\ Owner[u] \notin misled' => Owner[u] \notin misled
          /\ Owner[u] # p0 => (Owner[u] \in online' <=> Owner[u] \in online)
      BY <1>1, <1>3, <1>13
    <3> QED BY <1>1, <3>1, <3>2, <3>4, <3>5 DEF Agrees, Presence
  <2> QED BY <2>1, <2>2
<1>16. Aimed'
  <2> SUFFICES ASSUME NEW t \in Sessions, NEW u \in Sessions, Playing(t)', t \notin misled',
                      Flying(events'[u], pc'[u], targets'[u], Owner[t])
               PROVE  room'[Owner[t]] = Head(events'[u]).at
    BY DEF Aimed
  <2>1. u # s
    BY <1>8 DEF Flying
  <2>2. Flying(events[u], pc[u], targets[u], Owner[t]) /\ Head(events'[u]).at = Head(events[u]).at
    BY <1>3, <1>7, <2>1 DEF Steady
  <2>3. Playing(t) /\ t \notin misled
    BY <1>1, <1>11
  <2> QED BY <1>1, <2>2, <2>3 DEF KInv, Aimed
<1>17. Fresh'
  BY <1>1, <1>8 DEF KInv, Fresh
<1>18. Informed'
  <2> SUFFICES ASSUME NEW t \in Sessions, registry[Owner[t]] = t, t \notin misled', Playing(t)',
                      NEW p \in Players \ (misled' \cup {Owner[t]})
               PROVE  Knows(t, p)'
    BY <1>1 DEF Informed, Registered
  <2>1. t # s /\ Playing(t) /\ t \notin misled /\ p \notin misled
    BY <1>1, <1>11, <1>13
  <2>2. Knows(t, p)
    BY <2>1 DEF KInv, Informed, Registered
  <2>3. pc'[t] = pc[t] /\ targets'[t] = targets[t] /\ heard'[t][p] = heard[t][p]
    BY <1>1, <1>8, <2>1
  <2>4. CASE p # p0
    <3>1. \A u \in Sessions : Owner[u] = p => Steady(u)
      BY <1>7, <2>4
    <3>2. p \in online' <=> p \in online
      BY <1>1, <2>4
    <3> QED BY <1>1, <1>2, <2>2, <2>3, <3>1, <3>2, KnowsStays
  <2>5. CASE p = p0 /\ room[Owner[t]] = room[p0]
    <3>1. Coming(t, p)'
      BY <1>1, <1>10, <2>5 DEF Coming
    <3> QED BY <3>1 DEF Knows
  <2>6. CASE p = p0 /\ room[Owner[t]] # room[p0]
    <3>1. ~Coming(t, p)
      BY <1>1, <2>1, <2>6, NotComing
    <3>2. ~Together(t, p) /\ ~Together(t, p)'
      BY <1>1, <2>6 DEF Together
    <3> QED BY <2>2, <2>3, <3>1, <3>2 DEF Knows
  <2> QED BY <2>4, <2>5, <2>6
<1> QED BY <1>2, <1>12, <1>14, <1>15, <1>16, <1>17, <1>18 DEF KInv

LEMMA MoveKnows == ASSUME KInv, NEW s \in Sessions, NEW r \in Rooms, Move(s, r) PROVE KInv'
<1> DEFINE p0 == Owner[s]
           e == Event("leave", "room", room[p0], p0)
           f == Event("enter", "room", r, p0)
<1>1. /\ pc[s] = "play" /\ r # room[p0] /\ room' = [room EXCEPT ![p0] = r]
      /\ pc' = [pc EXCEPT ![s] = "collect"] /\ Raise(s, <<e, f>>)
      /\ heard' = [heard EXCEPT ![s] = [q \in Players |-> "unknown"]]
      /\ misled' = misled \cup Unsettled(s)
      /\ UNCHANGED <<online, registry, ended, targets>>
  BY DEF Move, Command, Tells
<1>2. IInv /\ IInv' /\ s \notin ended
  BY <1>1, MoveInv DEF KInv, Lives
<1>3. \A t \in Sessions : Owner[t] \in Players /\ Owner[t] \notin Sessions
  BY BroadcastAssumption
<1>4. p0 \in Players /\ room[p0] \in Rooms /\ WorldOK /\ room \in [Players -> Rooms]
  BY <1>2, OwnerRoom DEF IInv, WorldOK
<1>5. e \in EventType /\ f \in EventType
  BY <1>4, EventIs DEF Kinds
<1>6. /\ e.kind = "leave" /\ e.to = "room" /\ e.at = room[p0] /\ e.except = p0
      /\ f.kind = "enter" /\ f.to = "room" /\ f.at = r /\ f.except = p0
  BY DEF Event
<1> HIDE DEF e, f
<1>7. <<e, f>> \in Seq(EventType) /\ DOMAIN <<e, f>> = {1, 2} /\ <<e, f>>[1] = e /\ <<e, f>>[2] = f
  BY <1>5
<1>8. Says(s, <<e, f>>) /\ \A u \in Sessions \ {s} : Says(u, events[u])
  <2>1. ThreadsOK
    BY <1>2 DEF IInv
  <2> QED BY <1>1, <1>7, <2>1, RaiseIs
<1>9. \A u \in Sessions \ {s} : Steady(u)
  BY <1>1, <1>2, <1>8, OthersSteady
<1>10. pc'[s] = "collect" /\ \A u \in Sessions \ {s} : pc'[u] = pc[u]
  BY <1>1, <1>2 DEF IInv, ThreadsOK
<1>11. /\ DOMAIN events'[s] = {1, 2}
       /\ events'[s][1].kind = "leave" /\ events'[s][1].to = "room"
       /\ events'[s][1].at = room[p0] /\ events'[s][1].except = p0
       /\ events'[s][2].kind = "enter" /\ events'[s][2].to = "room"
       /\ events'[s][2].at = r /\ events'[s][2].except = p0
  BY <1>6, <1>7, <1>8 DEF Says
<1>12. Ahead(events'[s], pc'[s], room[p0]) /\ Ahead(events'[s], pc'[s], r)
  BY <1>10, <1>11 DEF Ahead, Presence
<1>13. room'[p0] = r /\ \A p \in Players \ {p0} : room'[p] = room[p]
  BY <1>1, <1>4
<1>14. /\ \A p \in Players : p \in misled' <=> p \in misled
       /\ \A t \in Sessions : t \notin misled' => t \notin misled
  BY <1>1, BroadcastAssumption DEF Unsettled
<1>15. Lives' /\ Alone'
  BY <1>1, <1>2, <1>14, LivesStay
<1>16. \A t \in Sessions : Playing(t)' <=> Playing(t)
  BY <1>1, <1>10 DEF Playing
<1>17. \A t \in Sessions : Playing(t) /\ t # s => Owner[t] # p0
  BY <1>1, <1>2 DEF KInv, Lives, Playing
<1>18. Current'
  <2> SUFFICES ASSUME NEW u \in Sessions, NEW i \in DOMAIN events'[u]
               PROVE  Agrees(events'[u][i], Owner[u], online', room', misled')
    BY DEF Current
  <2>1. CASE u = s
    <3>1. p0 \in online
      BY <1>1, <1>2 DEF KInv, Lives, Playing
    <3> QED BY <1>1, <1>11, <1>13, <2>1, <3>1 DEF Agrees, Presence
  <2>2. CASE u # s
    <3>1. /\ i \in DOMAIN events[u] /\ events'[u][i].kind = events[u][i].kind
          /\ events'[u][i].to = events[u][i].to /\ events'[u][i].at = events[u][i].at
          /\ events'[u][i].except = events[u][i].except
      BY <1>8, <2>2 DEF Says
    <3>2. Agrees(events[u][i], Owner[u], online, room, misled)
      BY <3>1 DEF KInv, Current
    <3>3. pc[u] \notin {"new", "done"}
      BY <1>2, <3>1, NewsIsWork
    <3>4. Owner[u] \notin misled => Owner[u] # p0
      BY <1>1, <2>2, <3>3 DEF KInv, Alone
    <3>5. /\ Owner[u] \notin misled' => Owner[u] \notin misled
          /\ Owner[u] # p0 => room'[Owner[u]] = room[Owner[u]]
      BY <1>3, <1>13, <1>14
    <3> QED BY <1>1, <3>1, <3>2, <3>4, <3>5 DEF Agrees, Presence
  <2> QED BY <2>1, <2>2
<1>19. Aimed'
  <2> SUFFICES ASSUME NEW t \in Sessions, NEW u \in Sessions, Playing(t), t \notin misled',
                      Flying(events'[u], pc'[u], targets'[u], Owner[t])
               PROVE  room'[Owner[t]] = Head(events'[u]).at
    BY <1>16 DEF Aimed
  <2>1. u # s
    BY <1>10 DEF Flying
  <2>2. Flying(events[u], pc[u], targets[u], Owner[t]) /\ Head(events'[u]).at = Head(events[u]).at
    BY <1>3, <1>9, <2>1 DEF Steady
  <2>3. t # s
    <3>1. Flying(events[u], pc[u], targets[u], p0) => InFlight(p0, u)
      BY DEF Flying, InFlight, Presence, Now
    <3>2. InFlight(p0, u) => s \in Unsettled(s)
      BY DEF Unsettled
    <3> QED BY <1>1, <2>2, <3>1, <3>2
  <2>4. t \notin misled /\ room'[Owner[t]] = room[Owner[t]]
    BY <1>3, <1>13, <1>14, <1>17, <2>3
  <2> QED BY <2>2, <2>4 DEF KInv, Aimed
<1>20. Fresh'
  BY <1>1, <1>10 DEF KInv, Fresh
<1>21. Informed'
  <2> SUFFICES ASSUME NEW t \in Sessions, registry[Owner[t]] = t, t \notin misled', Playing(t),
                      NEW p \in Players \ (misled' \cup {Owner[t]})
               PROVE  Knows(t, p)'
    BY <1>1, <1>16 DEF Informed, Registered
  <2>1. CASE t = s
    <3>1. heard'[t][p] = "unknown"
      BY <1>1, <1>2, <2>1 DEF IInv, HistoryOK
    <3> QED BY <1>10, <2>1, <3>1 DEF Knows
  <2>2. CASE t # s
    <3>1. Knows(t, p) /\ Owner[t] # p0
      BY <1>14, <1>17, <2>2 DEF KInv, Informed, Registered
    <3>2. pc'[t] = pc[t] /\ targets'[t] = targets[t] /\ heard'[t][p] = heard[t][p]
          /\ room'[Owner[t]] = room[Owner[t]]
      BY <1>1, <1>3, <1>10, <1>13, <2>2, <3>1
    <3>3. CASE p # p0
      <4>1. Together(t, p)' <=> Together(t, p)
        BY <1>1, <1>13, <3>2, <3>3 DEF Together
      <4>2. Coming(t, p) => Coming(t, p)'
        <5> SUFFICES ASSUME Coming(t, p) PROVE Coming(t, p)'
          OBVIOUS
        <5>1. PICK u \in Sessions : Owner[u] = p /\ \/ Flying(events[u], pc[u], targets[u], Owner[t])
                                                    \/ Ahead(events[u], pc[u], room[Owner[t]])
          BY DEF Coming
        <5>2. Steady(u)
          BY <1>9, <3>3, <5>1
        <5>3. room[Owner[t]] \in Rooms /\ Owner[t] \in Players
          BY <1>3, <1>4
        <5>4. \/ Flying(events'[u], pc'[u], targets'[u], Owner[t])
              \/ Ahead(events'[u], pc'[u], room'[Owner[t]])
          BY <3>2, <5>1, <5>2, <5>3 DEF Steady
        <5> QED BY <5>1, <5>4 DEF Coming
      <4> QED BY <3>1, <3>2, <4>1, <4>2 DEF Knows
    <3>4. CASE p = p0 /\ room[Owner[t]] \in {room[p0], r}
      <4>1. Coming(t, p)'
        BY <1>12, <3>2, <3>4 DEF Coming
      <4> QED BY <4>1 DEF Knows
    <3>5. CASE p = p0 /\ room[Owner[t]] \notin {room[p0], r}
      <4>1. ~Coming(t, p)
        BY <1>1, <1>14, <3>5, NotComing
      <4>2. ~Together(t, p) /\ ~Together(t, p)'
        BY <1>13, <3>2, <3>5 DEF Together
      <4> QED BY <3>1, <3>2, <4>1, <4>2 DEF Knows
    <3> QED BY <3>3, <3>4, <3>5
  <2> QED BY <2>1, <2>2
<1> QED BY <1>2, <1>15, <1>18, <1>19, <1>20, <1>21 DEF KInv

\* Whoever is in the room an event is about when the audience is collected will
\* be told.
LEMMA CollectKnows == ASSUME KInv, NEW s \in Sessions, Collect(s) PROVE KInv'
<1> DEFINE p0 == Owner[s]
           e == Now(s)
           audience == CASE e.to = "all" -> Registered
                         [] e.to = "room" -> {p \in online \ {e.except} : room[p] = e.at}
                         [] e.to = "group" -> {p \in Players \ {e.except} : group[p] = e.at}
<1>1. /\ pc[s] = "collect" /\ pc' = [pc EXCEPT ![s] = "tell"]
      /\ targets' = [targets EXCEPT ![s] = audience]
      /\ UNCHANGED <<online, room, group, registry, ended, events, heard, misled, commands>>
  BY DEF Collect
<1>2. IInv /\ IInv' /\ WorldOK
  BY CollectInv DEF KInv, IInv
<1>3. 1 \in DOMAIN events[s] /\ e = events[s][1]
  BY <1>1, <1>2, NowIs
<1>4. Agrees(e, p0, online, room, misled)
  BY <1>3 DEF KInv, Current
<1>5. Presence(e) => audience = {p \in online \ {p0} : room[p] = e.at}
  BY <1>4 DEF Agrees
<1>6. Head(events[s]) = e
  BY DEF Now
<1> HIDE DEF audience, e
<1>7. /\ pc'[s] = "tell" /\ targets'[s] = audience
      /\ \A u \in Sessions \ {s} : pc'[u] = pc[u] /\ targets'[u] = targets[u]
  BY <1>1, <1>2 DEF IInv, ThreadsOK
<1>8. \A u \in Sessions : Says(u, events[u])
  BY <1>1, SameSays
<1>9. \A u \in Sessions \ {s} : Steady(u)
  BY <1>1, <1>2, <1>7, <1>8, OthersSteady
<1>10. s \in ended => registry[p0] # s
  BY <1>1 DEF KInv, Lives, Registered
<1>11. Lives' /\ Alone'
  BY <1>1, <1>10, LivesStay
<1>12. Current'
  BY <1>1 DEF KInv, Current
<1>13. \A t \in Sessions : Playing(t)' <=> Playing(t)
  BY <1>1, <1>7 DEF Playing
<1>14. \A t \in Sessions : Owner[t] \in Players /\ room[Owner[t]] \in Rooms
  BY <1>2, OwnerRoom
<1>15. Aimed'
  <2> SUFFICES ASSUME NEW t \in Sessions, NEW u \in Sessions, Playing(t), t \notin misled,
                      Flying(events'[u], pc'[u], targets'[u], Owner[t])
               PROVE  room[Owner[t]] = Head(events'[u]).at
    BY <1>1, <1>13 DEF Aimed
  <2>1. CASE u = s
    <3>1. Presence(e) /\ Owner[t] \in audience /\ Head(events'[u]) = e
      BY <1>1, <1>6, <1>7, <2>1 DEF Flying
    <3> QED BY <1>5, <3>1
  <2>2. CASE u # s
    <3>1. Flying(events[u], pc[u], targets[u], Owner[t]) /\ Head(events'[u]).at = Head(events[u]).at
      BY <1>9, <1>14, <2>2 DEF Steady
    <3> QED BY <3>1 DEF KInv, Aimed
  <2> QED BY <2>1, <2>2
<1>16. Fresh'
  BY <1>1, <1>7 DEF KInv, Fresh
<1>17. Informed'
  <2> SUFFICES ASSUME NEW t \in Sessions, registry[Owner[t]] = t, t \notin misled, Playing(t),
                      NEW p \in Players \ (misled \cup {Owner[t]})
               PROVE  Knows(t, p)'
    BY <1>1, <1>13 DEF Informed, Registered
  <2>1. Knows(t, p) /\ Owner[t] \in online
    BY DEF KInv, Informed, Registered, Lives
  <2>2. Coming(t, p) => Coming(t, p)'
    <3> SUFFICES ASSUME Coming(t, p) PROVE Coming(t, p)'
      OBVIOUS
    <3>1. PICK u \in Sessions : Owner[u] = p /\ \/ Flying(events[u], pc[u], targets[u], Owner[t])
                                                \/ Ahead(events[u], pc[u], room[Owner[t]])
      BY DEF Coming
    <3>2. \/ Flying(events'[u], pc'[u], targets'[u], Owner[t])
          \/ Ahead(events'[u], pc'[u], room[Owner[t]])
      <4>1. CASE u # s
        BY <1>9, <1>14, <3>1, <4>1 DEF Steady
      <4>2. CASE u = s
        <5>1. PICK i \in DOMAIN events[s] : Presence(events[s][i]) /\ events[s][i].at = room[Owner[t]]
          BY <1>1, <3>1, <4>2 DEF Flying, Ahead
        <5>2. CASE i = 1
          <6>1. Presence(e) /\ e.at = room[Owner[t]]
            BY <1>3, <5>1, <5>2
          <6>2. Owner[t] \in audience
            BY <1>5, <2>1, <3>1, <4>2, <6>1
          <6> QED BY <1>1, <1>6, <1>7, <4>2, <6>1, <6>2 DEF Flying
        <5>3. CASE i # 1
          <6>1. i > 1
            <7>1. events[s] \in Seq(EventType)
              BY <1>2 DEF IInv, ThreadsOK
            <7> QED BY <5>3, <7>1
          <6> QED BY <1>1, <4>2, <5>1, <6>1 DEF Ahead
        <5> QED BY <5>2, <5>3
      <4> QED BY <4>1, <4>2
    <3> QED BY <1>1, <3>1, <3>2 DEF Coming
  <2>3. Together(t, p)' <=> Together(t, p)
    BY <1>1 DEF Together
  <2>4. pc'[t] = "looked" => pc[t] = "looked" /\ targets'[t] = targets[t]
    BY <1>7
  <2> QED BY <1>1, <2>1, <2>2, <2>3, <2>4 DEF Knows
<1> QED BY <1>2, <1>11, <1>12, <1>15, <1>16, <1>17 DEF KInv

\* What is told of a player is how it is, for the room it is told in.
LEMMA TellKnows == ASSUME KInv, NEW s \in Sessions, Tell(s) PROVE KInv'
<1> DEFINE p0 == Owner[s]
           e == Now(s)
           found(x) == IF e.to = "all" THEN x ELSE registry[x]
<1>1. /\ pc[s] = "tell" /\ UNCHANGED <<online, room, group, registry, pc, ended, commands>>
  BY DEF Tell
<1>2. PICK x \in targets[s] :
        /\ targets' = [targets EXCEPT ![s] = @ \ {x}]
        /\ IF found(x) = None \/ found(x) \in ended
           THEN UNCHANGED <<events, heard, misled>> ELSE Learn(s, found(x))
  BY DEF Tell
<1> DEFINE t == found(x)
           learned == ~(t = None \/ t \in ended)
<1>3. IInv /\ IInv' /\ WorldOK
  BY TellInv DEF KInv, IInv
<1>4. 1 \in DOMAIN events[s] /\ e = events[s][1] /\ e = Head(events[s])
  BY <1>1, <1>3, NowIs DEF Now
<1>5. Agrees(e, p0, online, room, misled)
  BY <1>4 DEF KInv, Current
<1>6. IF e.to = "all" THEN targets[s] \subseteq Sessions ELSE targets[s] \subseteq Players
  BY <1>1, <1>3 DEF IInv, Told
<1>7. t \in Sessions \cup {None}
  BY <1>3, <1>6 DEF WorldOK
<1>8. Presence(e) => t = registry[x] /\ x \in Players /\ (t # None => Owner[t] = x)
  BY <1>3, <1>5, <1>6 DEF Agrees, WorldOK
<1>9. IF learned THEN t \in Sessions /\ Learn(s, t) ELSE UNCHANGED <<events, heard, misled>>
  BY <1>2, <1>7
<1> HIDE DEF e, t, learned
<1>10. /\ Says(s, events[s]) /\ \A u \in Sessions \ {s} : Says(u, events[u])
  <2>1. CASE learned
    BY <1>1, <1>3, <1>9, <2>1, LearnIs, SameSays
  <2>2. CASE ~learned
    BY <1>9, <2>2, SameSays
  <2> QED BY <2>1, <2>2
<1>11. /\ misled \subseteq misled' /\ \A p \in Players : p \in misled' => p \in misled
       /\ Presence(e) /\ learned /\ p0 # Owner[t] =>
            /\ heard' = [heard EXCEPT ![t][p0] = IF e.kind = "enter" THEN "here" ELSE "gone"]
            /\ pc[t] = "looked" => t \in misled'
       /\ ~(Presence(e) /\ learned /\ p0 # Owner[t]) => heard' = heard
  <2>1. CASE learned
    <3>1. Learn(s, t) /\ t \in Sessions
      BY <1>9, <2>1
    <3>2. /\ Presence(e) /\ p0 # Owner[t] =>
               /\ heard' = [heard EXCEPT ![t][p0] = IF e.kind = "enter" THEN "here" ELSE "gone"]
               /\ misled' = misled \cup IF pc[t] = "looked" THEN {t} ELSE {}
          /\ ~(Presence(e) /\ p0 # Owner[t]) => heard' = heard /\ misled' = misled
      BY <3>1 DEF Learn, e, Presence
    <3>3. \A p \in Players : p # t
      BY <3>1, BroadcastAssumption
    <3> QED BY <2>1, <3>2, <3>3
  <2>2. CASE ~learned
    BY <1>9, <2>2
  <2> QED BY <2>1, <2>2
<1>12. heard \in [Sessions -> [Players -> {"unknown", "here", "gone"}]] /\ \A o \in Sessions : Owner[o] \in Players
  BY <1>3, BroadcastAssumption DEF IInv, HistoryOK
\* What is heard is of this player, and by the session the name is looked up for ...
<1>13. ASSUME NEW o \in Sessions, NEW p \in Players, heard'[o][p] # heard[o][p]
       PROVE  Presence(e) /\ p = p0 /\ Owner[o] = x /\ registry[x] = o
  <2>1. Presence(e) /\ learned /\ p0 # Owner[t]
    BY <1>11, <1>13
  <2>2. t \in Sessions
    BY <1>9, <2>1
  <2>3. o = t /\ p = p0
    BY <1>11, <1>12, <1>13, <2>1, <2>2
  <2>4. t # None
    BY <2>2, BroadcastAssumption
  <2> QED BY <1>8, <2>1, <2>3, <2>4
\* ... and it is heard.
<1>14. ASSUME NEW o \in Sessions, Presence(e), Owner[o] = x, registry[x] = o, o \notin ended, x # p0
       PROVE  /\ heard'[o][p0] = IF e.kind = "enter" THEN "here" ELSE "gone"
              /\ pc[o] = "looked" => o \in misled'
  <2>1. t = o /\ learned
    BY <1>8, <1>14, BroadcastAssumption DEF learned
  <2> QED BY <1>11, <1>12, <1>14, <2>1
<1>15. /\ targets'[s] = targets[s] \ {x}
       /\ \A u \in Sessions \ {s} : targets'[u] = targets[u]
  BY <1>2, <1>3 DEF IInv, ThreadsOK
<1>16. pc' = [pc EXCEPT ![s] = "tell"]
  BY <1>1, <1>3 DEF IInv, ThreadsOK
<1>17. \A u \in Sessions \ {s} : Steady(u)
  BY <1>3, <1>10, <1>15, <1>16, OthersSteady
<1>18. /\ Head(events'[s]).at = e.at /\ Head(events'[s]).kind = e.kind
  <2>1. events'[s] \in Seq(EventType) /\ events'[s] # <<>>
    BY <1>1, <1>3 DEF IInv, ThreadsOK, Phases
  <2>2. Head(events'[s]) = events'[s][1]
    BY <2>1, FirstIs
  <2> QED BY <1>4, <1>10, <2>2 DEF Says
<1>19. /\ \A q : Flying(events'[s], pc'[s], targets'[s], q)
                   <=> Flying(events[s], pc[s], targets[s], q) /\ q # x
       /\ \A q : Flying(events[s], pc[s], targets[s], q) <=> Presence(e) /\ q \in targets[s]
       /\ \A r : Ahead(events'[s], pc'[s], r) <=> Ahead(events[s], pc[s], r)
  <2>1. \A q : Flying(events[s], pc[s], targets[s], q) <=> Presence(e) /\ q \in targets[s]
    BY <1>1, <1>4 DEF Flying
  <2>2. \A q : Flying(events'[s], pc'[s], targets'[s], q) <=> Presence(e) /\ q \in targets[s] \ {x}
    BY <1>1, <1>15, <1>18 DEF Flying, Presence
  <2>3. \A r : Ahead(events'[s], pc'[s], r) <=> Ahead(events[s], pc[s], r)
    BY <1>1, <1>10 DEF Ahead, Says, Presence
  <2> QED BY <2>1, <2>2, <2>3
<1>20. Lives' /\ Alone'
  <2>1. s \in ended => registry[p0] # s
    BY <1>1 DEF KInv, Lives, Registered
  <2> QED BY <1>1, <1>11, <1>16, <2>1, LivesStay
<1>21. Current'
  <2>1. \A i \in DOMAIN events'[s] : Agrees(events'[s][i], Owner[s], online', room', misled')
    <3>1. \A i \in DOMAIN events'[s] : \E j \in DOMAIN events[s] :
             /\ events'[s][i].kind = events[s][j].kind /\ events'[s][i].to = events[s][j].to
             /\ events'[s][i].at = events[s][j].at /\ events'[s][i].except = events[s][j].except
      BY <1>10 DEF Says
    <3> QED BY <1>1, <1>11, <3>1, FewerAgree
  <2> QED BY <1>1, <1>10, <1>11, <2>1, CurrentStays
<1>22. \A o \in Sessions : Playing(o)' <=> Playing(o)
  BY <1>1 DEF Playing
<1>23. Aimed'
  <2> SUFFICES ASSUME NEW o \in Sessions, NEW u \in Sessions, Playing(o), o \notin misled',
                      Flying(events'[u], pc'[u], targets'[u], Owner[o])
               PROVE  room[Owner[o]] = Head(events'[u]).at
    BY <1>1, <1>22 DEF Aimed
  <2>1. Flying(events[u], pc[u], targets[u], Owner[o]) /\ Head(events'[u]).at = Head(events[u]).at
    <3>1. CASE u = s
      BY <1>4, <1>18, <1>19, <3>1
    <3>2. CASE u # s
      BY <1>12, <1>17, <3>2 DEF Steady
    <3> QED BY <3>1, <3>2
  <2> QED BY <1>11, <2>1 DEF KInv, Aimed
<1>24. Fresh'
  <2> SUFFICES ASSUME NEW o \in Sessions, pc[o] = "register", NEW p \in Players
               PROVE  heard'[o][p] = "unknown"
    BY <1>1 DEF Fresh
  <2>1. heard[o][p] = "unknown"
    BY DEF KInv, Fresh
  <2>2. registry[Owner[o]] # o
    BY DEF KInv, Lives, Registered
  <2> QED BY <1>13, <2>1, <2>2
<1>25. Informed'
  <2> SUFFICES ASSUME NEW o \in Sessions, registry[Owner[o]] = o, o \notin misled', Playing(o),
                      NEW p \in Players \ (misled' \cup {Owner[o]})
               PROVE  Knows(o, p)'
    BY <1>1, <1>22 DEF Informed, Registered
  <2>1. Knows(o, p) /\ o \notin misled /\ p \notin misled
    BY <1>11 DEF KInv, Informed, Registered
  <2>2. pc'[o] = "looked" => pc[o] = "looked" /\ targets'[o] = targets[o]
    BY <1>1, <1>15
  <2>3. Together(o, p)' <=> Together(o, p)
    BY <1>1 DEF Together
  <2>4. CASE p = p0 /\ x = Owner[o] /\ Presence(e)
    <3>1. Flying(events[s], pc[s], targets[s], Owner[o])
      BY <1>19, <2>4
    <3>2. room[Owner[o]] = e.at
      BY <1>4, <2>1, <3>1 DEF KInv, Aimed
    <3>3. e.kind = "enter" <=> Together(o, p)
      BY <1>5, <2>1, <2>4, <3>2 DEF Agrees, Together
    <3>4. o \notin ended
      BY DEF Playing
    <3>5. heard'[o][p] = (IF e.kind = "enter" THEN "here" ELSE "gone") /\ pc[o] # "looked"
      BY <1>14, <2>4, <3>4
    <3>6. heard'[o][p] # (IF Together(o, p)' THEN "gone" ELSE "here") /\ pc'[o] # "looked"
      BY <1>1, <2>3, <3>3, <3>5
    <3> QED BY <3>6 DEF Knows
  <2>5. CASE ~(p = p0 /\ x = Owner[o] /\ Presence(e))
    <3>1. heard'[o][p] = heard[o][p]
      BY <1>13, <2>5
    <3>2. Coming(o, p) => Coming(o, p)'
      <4> SUFFICES ASSUME Coming(o, p) PROVE Coming(o, p)'
        OBVIOUS
      <4>1. PICK u \in Sessions : Owner[u] = p /\ \/ Flying(events[u], pc[u], targets[u], Owner[o])
                                                  \/ Ahead(events[u], pc[u], room[Owner[o]])
        BY DEF Coming
      <4>2. \/ Flying(events'[u], pc'[u], targets'[u], Owner[o])
            \/ Ahead(events'[u], pc'[u], room[Owner[o]])
        <5>1. CASE u # s
          <6>1. room[Owner[o]] \in Rooms
            BY <1>3, OwnerRoom
          <6> QED BY <1>12, <1>17, <4>1, <5>1, <6>1 DEF Steady
        <5>2. CASE u = s
          BY <1>19, <2>5, <4>1, <5>2
        <5> QED BY <5>1, <5>2
      <4> QED BY <1>1, <4>1, <4>2 DEF Coming
    <3> QED BY <2>1, <2>2, <2>3, <3>1, <3>2 DEF Knows
  <2> QED BY <2>4, <2>5
<1> QED BY <1>3, <1>20, <1>21, <1>23, <1>24, <1>25 DEF KInv

LEMMA InitKnows == Init => KInv
<1> SUFFICES ASSUME Init PROVE KInv
  OBVIOUS
<1>1. /\ ended = {} /\ \A s \in Sessions : pc[s] = "new" /\ events[s] = <<>>
      /\ \A p \in Players : registry[p] = None
  BY DEF Init
<1>2. \A s \in Sessions : Owner[s] \in Players /\ None # s
  BY BroadcastAssumption
<1>3. Registered = {}
  BY <1>1, <1>2 DEF Registered
<1>4. Lives /\ Alone /\ Aimed /\ Fresh /\ Informed
  BY <1>1, <1>3 DEF Lives, Playing, Alone, Aimed, Fresh, Informed
<1>5. Current
  BY <1>1 DEF Current
<1> QED BY <1>4, <1>5, InitInv DEF KInv

LEMMA NextKnows == KInv /\ [Next]_vars => KInv'
<1> SUFFICES ASSUME KInv, [Next]_vars PROVE KInv'
  OBVIOUS
<1>1. CASE UNCHANGED vars
  <2>1. IInv'
    BY <1>1, NextInv DEF KInv
  <2>2. Lives' /\ Alone' /\ Fresh'
    BY <1>1 DEF vars, KInv, Lives, Registered, Playing, Alone, Fresh
  <2>3. Current' /\ Aimed'
    BY <1>1 DEF vars, KInv, Current, Aimed, Playing
  <2>4. Informed'
    BY <1>1 DEF vars, KInv, Informed, Registered, Playing, Knows, Coming, Together
  <2> QED BY <2>1, <2>2, <2>3, <2>4 DEF KInv
<1>2. ASSUME NEW s \in Sessions, Login(s) \/ Disconnect(s) PROVE KInv'
  BY <1>2, LoginKnows, DisconnectKnows
<1>3. ASSUME NEW s \in Sessions, Progress(s) PROVE KInv'
  BY <1>3, RegisterKnows, GreetKnows, UnregisterKnows, LookReplyKnows, CollectKnows, TellKnows,
     FinishKnows DEF Progress
<1>4. ASSUME NEW s \in Sessions,
             (\E r \in Rooms : Move(s, r)) \/ (\E g \in Groups : JoinGroup(s, g))
      PROVE  KInv'
  BY <1>4, MoveKnows, GroupKnows
<1>5. ASSUME NEW s \in Sessions, Chat(s) \/ LeaveGroup(s) \/ Look(s) PROVE KInv'
  BY <1>5, ChatKnows, GroupKnows, LookKnows
<1> QED BY <1>1, <1>2, <1>3, <1>4, <1>5 DEF Next

\* Except where an event was on its way while the client or the player in
\* question moved on, PRESENCE_ENTER, PRESENCE_LEAVE and LOOK tell a client of
\* any number of sessions in any rooms who is with it, although World is read
\* under its lock and the messages are sent after it.
THEOREM OnlookersTheorem == Spec => []OnlookersKnow
<1>1. KInv => OnlookersKnow
  <2> SUFFICES ASSUME KInv, AtRest, NEW s \in Registered \ misled,
                      NEW p \in Players \ (misled \cup {Owner[s]})
               PROVE  IF p \in online /\ room[p] = room[Owner[s]]
                      THEN heard[s][p] # "gone" ELSE heard[s][p] # "here"
    BY DEF OnlookersKnow
  <2>1. s \in Sessions /\ IInv
    BY DEF KInv, Registered
  <2>2. Playing(s)
    BY <2>1 DEF KInv, Lives, Playing, AtRest
  <2>3. Knows(s, p)
    BY <2>2 DEF KInv, Informed
  <2>4. ~Coming(s, p)
    <3> SUFFICES ASSUME Coming(s, p) PROVE FALSE
      OBVIOUS
    <3>1. PICK u \in Sessions : \/ Flying(events[u], pc[u], targets[u], Owner[s])
                                \/ Ahead(events[u], pc[u], room[Owner[s]])
      BY DEF Coming
    <3> QED BY <2>1, <3>1, NewsIsWork DEF AtRest
  <2> QED BY <2>3, <2>4 DEF Knows, Together
<1>2. Spec => []KInv
  BY InitKnows, NextKnows, PTL DEF Spec
<1> QED BY <1>1, <1>2, PTL
=============================================================================
