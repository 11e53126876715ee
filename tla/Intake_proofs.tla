---------------------------- MODULE Intake_proofs ----------------------------
(***************************************************************************)
(* Whatever a client sends, in whatever pieces, the server takes it line   *)
(* by line and closes for a reason, with a buffer that is bounded: for any *)
(* limit, size of a recv and number of bytes on their way.  What is behind *)
(* it is that a thread that waits in recv has looked for a newline and at  *)
(* the limit, and that the first newline of the buffer is the first of all *)
(* that has been sent and not taken.                                       *)
(*                                                                         *)
(* And the abuse monitor warns when it should, for any windows: what it    *)
(* keeps is in order, so that what is too old is in front, and for each    *)
(* age as much as has happened.                                            *)
(***************************************************************************)
EXTENDS Intake, SequenceTheorems, FiniteSetTheorems, WellFoundedInduction, TLAPS

\* What the monitor keeps, and what was said and is remembered of it.
MonitorOK(ts, said, rec) ==
  /\ DOMAIN ts = Kinds /\ \A k \in Kinds : ts[k] \in Seq(0..Window[k] + 1)
  /\ said \in [Kinds -> {"nothing", "normal", "warned"}]
  /\ DOMAIN rec = Kinds /\ \A k \in Kinds : rec[k] \in [0..Window[k] -> 0..Burst[k]]

Types ==
  /\ net \in Seq(Bytes) /\ buffer \in Seq(Bytes) /\ line \in Seq(Bytes)
  /\ {ended, timed, connected} \subseteq BOOLEAN
  /\ pc \in {"closed", "loop", "recv", "handle"}
  /\ MonitorOK(times, told, recent)

\* Who waits in recv has found no line and no more than the limit, and does so
\* for a time only if a message has begun.
Waiting == pc = "recv" =>
  connected /\ Ends = {} /\ Len(buffer) <= Limit /\ (timed => buffer # <<>>)

Serving == pc = "handle" => connected

IInv == Types /\ Waiting /\ Serving /\ BufferBounded
-----------------------------------------------------------------------------
(* The operators *)

\* A set of naturals that is not empty has a least member, and Min is it.
LEMMA MinIs ==
  ASSUME NEW T \in SUBSET Nat, T # {}
  PROVE  Min(T) \in T /\ \A y \in T : Min(T) <= y
<1> DEFINE R == OpToRel(<, Nat)
<1>1. \A y, z \in Nat : <<y, z>> \in R <=> y < z
  BY DEF OpToRel
<1>2. IsWellFoundedOn(R, Nat)
  BY NatLessThanWellFounded
<1> HIDE DEF R
<1>3. PICK x \in T : \A y \in T : <<y, x>> \notin R
  BY <1>2, WFMin
<1>4. ASSUME NEW y \in T PROVE x <= y
  <2>1. x \in Nat /\ y \in Nat
    OBVIOUS
  <2>2. ~(y < x)
    BY <1>1, <1>3, <2>1
  <2> QED BY <2>1, <2>2
<1> QED BY <1>4 DEF Min

LEMMA NoBytes == \A S : <<>> \in Seq(S) /\ Len(<<>>) = 0
OBVIOUS

LEMMA Associative ==
  \A s, t, u \in Seq(Bytes) : (s \o t) \o u = s \o (t \o u)
BY ConcatAssociative

\* The first line of the buffer.
LEMMA FirstEnd ==
  ASSUME buffer \in Seq(Bytes), Ends # {}
  PROVE  /\ Min(Ends) \in 1..Len(buffer) /\ buffer[Min(Ends)] = Newline
         /\ \A i \in 1..Min(Ends) - 1 : buffer[i] # Newline
<1>1. Ends \in SUBSET Nat /\ DOMAIN buffer = 1..Len(buffer)
  BY DEF Ends
<1>2. Min(Ends) \in Ends /\ \A y \in Ends : Min(Ends) <= y
  BY <1>1, MinIs
<1>3. Min(Ends) \in 1..Len(buffer) /\ buffer[Min(Ends)] = Newline
  BY <1>1, <1>2 DEF Ends
<1>4. ASSUME NEW i \in 1..Min(Ends) - 1 PROVE buffer[i] # Newline
  <2>1. i \notin Ends /\ i \in DOMAIN buffer
    BY <1>1, <1>2, <1>3
  <2> QED BY <2>1 DEF Ends
<1> QED BY <1>3, <1>4

\* What is kept of a window: never less than the entry just added.
LEMMA KeptType ==
  ASSUME NEW w \in Nat, NEW ts \in Seq(0..w + 1)
  PROVE  Kept(Append(ts, 0), w) \in Seq(0..w + 1)
<1> DEFINE new == Append(ts, 0)
           young == {i \in DOMAIN new : new[i] <= w}
<1>1. new \in Seq(0..w + 1) /\ Len(new) = Len(ts) + 1 /\ new[Len(new)] = 0
  <2>1. 0 \in 0..w + 1
    OBVIOUS
  <2> QED BY <2>1, AppendProperties
<1>2. Len(new) \in young
  BY <1>1
<1>3. young \in SUBSET Nat /\ \A i \in young : i \in 1..Len(new)
  BY <1>1
<1>4. Min(young) \in 1..Len(new)
  BY <1>2, <1>3, MinIs
<1> HIDE DEF new, young
<1>5. SubSeq(new, Min(young), Len(new)) \in Seq(0..w + 1)
  BY <1>1, <1>4, SubSeqProperties
<1> QED BY <1>5 DEF Kept, new, young

LEMMA RecordType ==
  ASSUME NEW k \in Kinds, NEW ts, NEW said, NEW rec, MonitorOK(ts, said, rec),
         Record(k, ts, said, rec)
  PROVE  MonitorOK(times, told, recent)'
<1>1. Window[k] \in Nat /\ ts[k] \in Seq(0..Window[k] + 1)
  BY IntakeAssumption DEF MonitorOK
<1> DEFINE kept == Kept(Append(ts[k], 0), Window[k])
<1>2. kept \in Seq(0..Window[k] + 1)
  BY <1>1, KeptType
<1>3. /\ rec[k][0] < Burst[k]
      /\ times' = [ts EXCEPT ![k] = kept]
      /\ told' = [said EXCEPT ![k] = IF Len(kept) > Threshold[k] THEN "warned" ELSE "normal"]
      /\ recent' = [rec EXCEPT ![k][0] = @ + 1]
  BY DEF Record
<1> HIDE DEF kept
<1>4. DOMAIN times' = Kinds /\ \A j \in Kinds : times'[j] \in Seq(0..Window[j] + 1)
  BY <1>2, <1>3 DEF MonitorOK
<1>5. told' \in [Kinds -> {"nothing", "normal", "warned"}]
  BY <1>3 DEF MonitorOK
<1>6. DOMAIN recent' = Kinds /\ \A j \in Kinds : recent'[j] \in [0..Window[j] -> 0..Burst[j]]
  <2>1. rec[k] \in [0..Window[k] -> 0..Burst[k]] /\ 0 \in 0..Window[k] /\ Burst[k] \in Nat
    BY <1>1, IntakeAssumption DEF MonitorOK
  <2>2. rec[k][0] + 1 \in 0..Burst[k]
    <3>1. rec[k][0] < Burst[k]
      BY <1>3
    <3>2. rec[k][0] \in 0..Burst[k]
      BY <2>1
    <3> QED BY <2>1, <3>1, <3>2
  <2>3. [rec[k] EXCEPT ![0] = @ + 1] \in [0..Window[k] -> 0..Burst[k]]
    BY <2>1, <2>2
  <2> DEFINE bumped == [rec[k] EXCEPT ![0] = @ + 1]
  <2>4. recent' = [rec EXCEPT ![k] = bumped]
    BY <1>3
  <2>5. DOMAIN rec = Kinds /\ \A j \in Kinds : rec[j] \in [0..Window[j] -> 0..Burst[j]]
    BY DEF MonitorOK
  <2> HIDE DEF bumped
  <2>6. DOMAIN recent' = Kinds
    BY <2>4, <2>5
  <2>7. \A j \in Kinds : recent'[j] = IF j = k THEN bumped ELSE rec[j]
    BY <2>4, <2>5
  <2> QED BY <2>3, <2>5, <2>6, <2>7 DEF bumped
<1> QED BY <1>4, <1>5, <1>6 DEF MonitorOK

LEMMA Older ==
  \A w \in Nat : \A age \in 0..w + 1 : (IF age > w THEN age ELSE age + 1) \in 0..w + 1
OBVIOUS

LEMMA TickType == ASSUME MonitorOK(times, told, recent), Tick PROVE MonitorOK(times, told, recent)'
<1>1. ASSUME NEW k \in Kinds
      PROVE  [i \in DOMAIN times[k] |->
                IF times[k][i] > Window[k] THEN times[k][i] ELSE times[k][i] + 1]
               \in Seq(0..Window[k] + 1)
  <2>1. times[k] \in Seq(0..Window[k] + 1) /\ Window[k] \in Nat
    BY IntakeAssumption DEF MonitorOK
  <2>2. DOMAIN times[k] = 1..Len(times[k]) /\ Len(times[k]) \in Nat
    BY <2>1
  <2>3. ASSUME NEW i \in 1..Len(times[k])
        PROVE  (IF times[k][i] > Window[k] THEN times[k][i] ELSE times[k][i] + 1)
                 \in 0..Window[k] + 1
    <3>1. times[k][i] \in 0..Window[k] + 1
      BY <2>1, ElementOfSeq
    <3> QED BY <2>1, <3>1, Older
  <2> QED BY <2>2, <2>3, IsASeq
<1>2. DOMAIN times' = Kinds /\ \A k \in Kinds : times'[k] \in Seq(0..Window[k] + 1)
  BY <1>1 DEF Tick
<1>3. told' \in [Kinds -> {"nothing", "normal", "warned"}]
  BY DEF Tick
<1>4. ASSUME NEW k \in Kinds
      PROVE  [age \in 0..Window[k] |-> IF age = 0 THEN 0 ELSE recent[k][age - 1]]
               \in [0..Window[k] -> 0..Burst[k]]
  <2>1. recent[k] \in [0..Window[k] -> 0..Burst[k]] /\ Window[k] \in Nat /\ Burst[k] \in Nat
    BY IntakeAssumption DEF MonitorOK
  <2> QED BY <2>1
<1>5. DOMAIN recent' = Kinds /\ \A k \in Kinds : recent'[k] \in [0..Window[k] -> 0..Burst[k]]
  BY <1>4 DEF Tick
<1> QED BY <1>2, <1>3, <1>5 DEF MonitorOK
-----------------------------------------------------------------------------
(* The invariant *)

LEMMA InitInv == Init => IInv
<1> SUFFICES ASSUME Init PROVE IInv
  OBVIOUS
<1>1. MonitorOK(times, told, recent)
  <2>1. ASSUME NEW k \in Kinds PROVE None[k] \in [0..Window[k] -> 0..Burst[k]]
    BY IntakeAssumption DEF None
  <2>2. DOMAIN None = Kinds
    BY DEF None
  <2> QED BY <2>1, <2>2 DEF Init, MonitorOK
<1>2. net = <<>> /\ buffer = <<>> /\ line = <<>> /\ pc = "closed"
      /\ ended = TRUE /\ timed = FALSE /\ connected = FALSE
  BY DEF Init
<1>3. Types
  BY <1>1, <1>2, NoBytes DEF Types
<1>4. Waiting /\ Serving
  BY <1>2 DEF Waiting, Serving
<1>5. BufferBounded
  BY <1>2, NoBytes, IntakeAssumption DEF BufferBounded
<1> QED BY <1>3, <1>4, <1>5 DEF IInv

\* A connection that is shut has nothing more to wait for.
LEMMA ShutInv == ASSUME IInv, Shut PROVE IInv'
<1>1. /\ net' = <<>> /\ buffer' = <<>> /\ pc' = "closed" /\ connected' = FALSE /\ ended' = TRUE
      /\ UNCHANGED <<timed, line, times, told, recent>>
  BY DEF Shut, monitor
<1>2. Types'
  BY <1>1, NoBytes DEF IInv, Types, MonitorOK
<1>3. Waiting' /\ Serving'
  BY <1>1 DEF Waiting, Serving
<1>4. BufferBounded'
  BY <1>1, NoBytes, IntakeAssumption DEF BufferBounded
<1> QED BY <1>2, <1>3, <1>4 DEF IInv

\* The line that was taken, and what is left.
LEMMA TakeLineIs ==
  ASSUME buffer \in Seq(Bytes), TakeLine
  PROVE  /\ Min(Ends) \in 1..Len(buffer)
         /\ line' = F!Stripped(SubSeq(buffer, 1, Min(Ends) - 1))
         /\ line' \in Seq(Bytes)
         /\ buffer' = SubSeq(buffer, Min(Ends) + 1, Len(buffer))
         /\ buffer' \in Seq(Bytes) /\ Len(buffer') <= Len(buffer)
<1> DEFINE n == Min(Ends)
           l == SubSeq(buffer, 1, n - 1)
<1>1. n \in 1..Len(buffer)
  BY FirstEnd DEF TakeLine
<1>2. /\ line' = IF l # <<>> /\ Last(l) = Return THEN Front(l) ELSE l
      /\ buffer' = SubSeq(buffer, n + 1, Len(buffer))
  BY DEF TakeLine
<1> HIDE DEF n
<1>3. l \in Seq(Bytes)
  BY <1>1, SubSeqProperties
<1>4. SubSeq(buffer, n + 1, Len(buffer)) \in Seq(Bytes)
      /\ Len(SubSeq(buffer, n + 1, Len(buffer))) <= Len(buffer)
  BY <1>1, SubSeqProperties
<1> HIDE DEF l
<1>5. line' = F!Stripped(l)
  BY <1>2 DEF F!Stripped, Last, Front
<1>6. Len(l) \in Nat /\ \A i \in 1..Len(l) - 1 : l[i] \in Bytes
  BY <1>3
<1>7. SubSeq(l, 1, Len(l) - 1) \in Seq(Bytes)
  BY <1>6, SubSeqProperties
<1>8. line' \in Seq(Bytes)
  BY <1>3, <1>5, <1>7 DEF F!Stripped
<1> QED BY <1>1, <1>2, <1>4, <1>5, <1>8 DEF n, l

\* What recv does: bytes go from one end of the way to the other.
LEMMA ReceiveIs ==
  ASSUME net \in Seq(Bytes), buffer \in Seq(Bytes), Receive
  PROVE  /\ net' \in Seq(Bytes) /\ buffer' \in Seq(Bytes)
         /\ buffer' \o net' = buffer \o net
         /\ Len(buffer') <= Len(buffer) + Chunk
<1>1. PICK n \in 1..Chunk : /\ n <= Len(net) /\ buffer' = buffer \o SubSeq(net, 1, n)
                            /\ net' = SubSeq(net, n + 1, Len(net))
  BY DEF Receive
<1> DEFINE got == SubSeq(net, 1, n)
           left == SubSeq(net, n + 1, Len(net))
<1>2. n \in Nat /\ n <= Chunk /\ Chunk \in Nat /\ n \in 1..Len(net)
  BY <1>1, IntakeAssumption
<1>3. got \in Seq(Bytes) /\ Len(got) = n
  BY <1>2, SubSeqProperties
<1>4. left \in Seq(Bytes)
  BY <1>2, SubSeqProperties
<1>5. got \o left = net
  <2>1. got \o left = SubSeq(net, 1, Len(net))
    BY <1>2, ConcatAdjacentSubSeq
  <2> QED BY <2>1, SubSeqFull
<1>6. buffer' = buffer \o got /\ net' = left
  BY <1>1
<1> HIDE DEF got, left
<1>7. (buffer \o got) \o left = buffer \o net
  <2>1. buffer \in Seq(Bytes) /\ got \in Seq(Bytes) /\ left \in Seq(Bytes)
    BY <1>3, <1>4
  <2>2. (buffer \o got) \o left = buffer \o (got \o left)
    BY <2>1, Associative
  <2> QED BY <1>5, <2>2
<1>8. buffer \o got \in Seq(Bytes) /\ Len(buffer \o got) = Len(buffer) + n
  BY <1>3, ConcatProperties
<1> QED BY <1>2, <1>4, <1>6, <1>7, <1>8

LEMMA NextInv == IInv /\ [Next]_vars => IInv'
<1> SUFFICES ASSUME IInv, [Next]_vars PROVE IInv'
  OBVIOUS
<1> USE DEF conn, monitor
<1>0. /\ net \in Seq(Bytes) /\ buffer \in Seq(Bytes) /\ MonitorOK(times, told, recent)
      /\ Len(buffer) \in Nat /\ Limit \in Nat /\ Chunk \in Nat
  BY IntakeAssumption DEF IInv, Types
<1>1. CASE UNCHANGED vars
  BY <1>1 DEF vars, IInv, Types, MonitorOK, Waiting, Ends, Serving, BufferBounded
<1>2. CASE Tick
  <2>1. MonitorOK(times, told, recent)' /\ UNCHANGED conn
    BY <1>0, <1>2, TickType DEF Tick
  <2> QED BY <2>1 DEF IInv, Types, Waiting, Ends, Serving, BufferBounded
<1>3. CASE End
  <2>1. net' \in {net, <<>>} /\ ended' = TRUE
        /\ UNCHANGED <<buffer, timed, connected, pc, line, monitor>>
    BY <1>3 DEF End
  <2>2. net' \in Seq(Bytes)
    BY <1>0, <2>1, NoBytes
  <2> QED BY <2>1, <2>2 DEF IInv, Types, MonitorOK, Waiting, Ends, Serving, BufferBounded
<1>4. ASSUME NEW b \in Bytes, Send(b) PROVE IInv'
  <2>1. net' \in Seq(Bytes) /\ UNCHANGED <<ended, buffer, timed, connected, pc, line, monitor>>
    BY <1>0, <1>4 DEF Send
  <2> QED BY <2>1 DEF IInv, Types, MonitorOK, Waiting, Ends, Serving, BufferBounded
<1>5. CASE Accept
  <2> DEFINE ts == [times EXCEPT !["command"] = <<>>]
             said == [told EXCEPT !["command"] = "nothing"]
             rec == [recent EXCEPT !["command"] = None["command"]]
  <2>1. None["command"] \in [0..Window["command"] -> 0..Burst["command"]]
    BY IntakeAssumption DEF None, Kinds
  <2>2. MonitorOK(ts, said, rec)
    <3>1. DOMAIN ts = Kinds /\ \A k \in Kinds : ts[k] \in Seq(0..Window[k] + 1)
      BY <1>0, NoBytes DEF MonitorOK
    <3>2. said \in [Kinds -> {"nothing", "normal", "warned"}]
      BY <1>0 DEF MonitorOK
    <3>3. DOMAIN rec = Kinds /\ \A k \in Kinds : rec[k] \in [0..Window[k] -> 0..Burst[k]]
      BY <1>0, <2>1 DEF MonitorOK
    <3> QED BY <3>1, <3>2, <3>3 DEF MonitorOK
  <2>3. Record("connect", ts, said, rec) /\ "connect" \in Kinds
    BY <1>5 DEF Accept, Kinds
  <2> HIDE DEF ts, said, rec
  <2>4. MonitorOK(times, told, recent)'
    BY <2>2, <2>3, RecordType
  <2>5. /\ net' = <<>> /\ ended' = FALSE /\ buffer' = <<>> /\ timed' = FALSE
        /\ connected' = TRUE /\ pc' = "loop" /\ line' = <<>>
    BY <1>5 DEF Accept
  <2>6. Types'
    BY <2>4, <2>5, NoBytes DEF Types
  <2>7. Waiting' /\ Serving'
    BY <2>5 DEF Waiting, Serving
  <2>8. BufferBounded'
    BY <1>0, <2>5, NoBytes DEF BufferBounded
  <2> QED BY <2>6, <2>7, <2>8 DEF IInv
<1>6. CASE Leave \/ TooLong \/ ReceiveEnd \/ ReceiveTimeout
  BY <1>6, ShutInv DEF Leave, TooLong, ReceiveEnd, ReceiveTimeout
<1>7. CASE TakeLine
  <2>1. /\ connected /\ pc' = "handle"
        /\ UNCHANGED <<net, ended, timed, connected, monitor>>
    BY <1>7 DEF TakeLine
  <2>2. line' \in Seq(Bytes) /\ buffer' \in Seq(Bytes) /\ Len(buffer') <= Len(buffer)
    BY <1>0, <1>7, TakeLineIs
  <2>3. Len(buffer') <= Limit + Chunk
    BY <1>0, <2>2 DEF IInv, BufferBounded
  <2> QED BY <2>1, <2>2, <2>3 DEF IInv, Types, MonitorOK, Waiting, Serving, BufferBounded
<1>8. CASE SetTimeout
  BY <1>8 DEF SetTimeout, IInv, Types, MonitorOK, Waiting, Ends, Serving, BufferBounded
<1>9. CASE Receive
  <2>1. net' \in Seq(Bytes) /\ buffer' \in Seq(Bytes) /\ Len(buffer') <= Len(buffer) + Chunk
    BY <1>0, <1>9, ReceiveIs
  <2>2. pc = "recv" /\ pc' = "loop" /\ UNCHANGED <<ended, timed, connected, line, monitor>>
    BY <1>9 DEF Receive
  <2>3. Len(buffer') <= Limit + Chunk
    BY <1>0, <2>1, <2>2 DEF IInv, Waiting
  <2> QED BY <2>1, <2>2, <2>3 DEF IInv, Types, MonitorOK, Waiting, Serving, BufferBounded
<1>10. CASE HandleBlank
  BY <1>10 DEF HandleBlank, IInv, Types, MonitorOK, Waiting, Serving, BufferBounded
<1>11. CASE HandleCommand
  <2>1. MonitorOK(times, told, recent)'
    BY <1>0, <1>11, RecordType DEF HandleCommand, Kinds
  <2>2. pc' = "loop" /\ connected' \in BOOLEAN /\ UNCHANGED <<net, ended, buffer, timed, line>>
    BY <1>11 DEF HandleCommand
  <2> QED BY <2>1, <2>2 DEF IInv, Types, Waiting, Serving, BufferBounded
<1> QED
  BY <1>1, <1>2, <1>3, <1>4, <1>5, <1>6, <1>7, <1>8, <1>9, <1>10, <1>11 DEF Next, Thread

LEMMA Invariant == Spec => []IInv
BY InitInv, NextInv, PTL DEF Spec

\* Every variable of Intake keeps its type, whatever the windows are.
THEOREM TypeCorrect == Spec => []TypeOK
<1>1. IInv => TypeOK
  <2> SUFFICES ASSUME IInv PROVE TypeOK
    OBVIOUS
  <2>1. ASSUME NEW k \in Kinds, NEW i \in DOMAIN times[k] PROVE times[k][i] \in 0..Window[k] + 1
    <3>1. times[k] \in Seq(0..Window[k] + 1)
      BY DEF IInv, Types, MonitorOK
    <3>2. i \in 1..Len(times[k])
      BY <3>1
    <3> QED BY <3>1, <3>2, ElementOfSeq
  <2>2. /\ told \in [Kinds -> {"nothing", "normal", "warned"}]
        /\ \A k \in Kinds : recent[k] \in [0..Window[k] -> 0..Burst[k]]
    BY DEF IInv, Types, MonitorOK
  <2> QED BY <2>1, <2>2 DEF IInv, Types, TypeOK
<1> QED BY <1>1, Invariant, PTL

\* The buffer of a client, who may send for ever without a newline, is at most
\* as long as the limit and one recv: client_loop tests the limit before it
\* waits again.
THEOREM BufferTheorem == Spec => []BufferBounded
<1>1. IInv => BufferBounded
  BY DEF IInv
<1> QED BY <1>1, Invariant, PTL
-----------------------------------------------------------------------------
(* Intake implements Framing. *)

Pending == buffer \o net

\* What has been sent and not taken starts with what is in the buffer.
LEMMA PendingIs ==
  ASSUME Types
  PROVE  /\ Pending \in Seq(Bytes) /\ Len(Pending) = Len(buffer) + Len(net)
         /\ \A i \in 1..Len(buffer) : Pending[i] = buffer[i]
         /\ net = <<>> => Pending = buffer
         /\ buffer = <<>> => Pending = net
<1>1. net \in Seq(Bytes) /\ buffer \in Seq(Bytes)
  BY DEF Types
<1>2. /\ Pending \in Seq(Bytes) /\ Len(Pending) = Len(buffer) + Len(net)
      /\ \A i \in 1..Len(buffer) + Len(net) :
           Pending[i] = IF i <= Len(buffer) THEN buffer[i] ELSE net[i - Len(buffer)]
  BY <1>1, ConcatProperties DEF Pending
<1>3. net = <<>> => Pending = buffer
  BY <1>1, ConcatEmptySeq DEF Pending
<1>4. buffer = <<>> => Pending = net
  BY <1>1, ConcatEmptySeq DEF Pending
<1>5. Len(buffer) \in Nat /\ Len(net) \in Nat
  BY <1>1
<1>6. \A i \in 1..Len(buffer) : Pending[i] = buffer[i]
  BY <1>2, <1>5
<1> QED BY <1>2, <1>3, <1>4, <1>6

\* What comes after the first part of a sequence is the second.
LEMMA AfterConcat ==
  ASSUME NEW S, NEW s \in Seq(S), NEW t \in Seq(S)
  PROVE  SubSeq(s \o t, Len(s) + 1, Len(s \o t)) = t
<1> DEFINE st == s \o t
<1>1. /\ st \in Seq(S) /\ Len(st) = Len(s) + Len(t)
      /\ \A i \in 1..Len(s) + Len(t) : st[i] = IF i <= Len(s) THEN s[i] ELSE t[i - Len(s)]
  BY ConcatProperties
<1> HIDE DEF st
<1>2. Len(s) \in Nat /\ Len(t) \in Nat
  OBVIOUS
<1> DEFINE u == SubSeq(st, Len(s) + 1, Len(st))
<1>3. /\ u \in Seq(S)
      /\ Len(u) = IF Len(s) + 1 <= Len(st) THEN Len(st) - (Len(s) + 1) + 1 ELSE 0
      /\ \A i \in 1..Len(st) - (Len(s) + 1) + 1 : u[i] = st[Len(s) + 1 + i - 1]
  <2>1. \A i \in Len(s) + 1..Len(st) : st[i] \in S
    BY <1>1, <1>2
  <2>2. Len(s) + 1 \in Int /\ Len(st) \in Int
    BY <1>1, <1>2
  <2> QED BY <2>1, <2>2, SubSeqProperties
<1> HIDE DEF u
<1>4. Len(u) = Len(t)
  BY <1>1, <1>2, <1>3
<1>5. ASSUME NEW i \in 1..Len(t) PROVE u[i] = t[i]
  <2>1. u[i] = st[Len(s) + 1 + i - 1] /\ Len(s) + 1 + i - 1 = Len(s) + i
    BY <1>1, <1>2, <1>3
  <2>2. Len(s) + i \in 1..Len(s) + Len(t) /\ ~(Len(s) + i <= Len(s)) /\ Len(s) + i - Len(s) = i
    BY <1>2
  <2>3. st[Len(s) + i] = t[i]
    BY <1>1, <2>2
  <2> QED BY <2>1, <2>3
<1>6. u = t
  BY <1>3, <1>4, <1>5, SeqEqual
<1> QED BY <1>6 DEF u, st

\* The first line of the buffer is the first of what is pending, and what is
\* left of the buffer is where the rest of it starts.
LEMMA TakeLineTakes ==
  ASSUME Types, TakeLine
  PROVE  /\ Min(Ends) \in DOMAIN Pending /\ F!IsLine(Min(Ends))
         /\ SubSeq(Pending, 1, Min(Ends) - 1) = SubSeq(buffer, 1, Min(Ends) - 1)
         /\ SubSeq(Pending, Min(Ends) + 1, Len(Pending))
              = SubSeq(buffer, Min(Ends) + 1, Len(buffer)) \o net
<1> DEFINE n == Min(Ends)
           head == SubSeq(buffer, 1, n)
           rest == SubSeq(buffer, n + 1, Len(buffer))
<1>1. net \in Seq(Bytes) /\ buffer \in Seq(Bytes) /\ Ends # {}
  BY DEF Types, TakeLine
<1>2. /\ n \in 1..Len(buffer) /\ buffer[n] = Newline
      /\ \A i \in 1..n - 1 : buffer[i] # Newline
  BY <1>1, FirstEnd
<1> HIDE DEF n
<1>3. Len(buffer) \in Nat /\ Len(net) \in Nat /\ n \in Nat
  BY <1>1, <1>2
<1>4. DOMAIN Pending = 1..Len(buffer) + Len(net)
  BY <1>1, PendingIs
<1>5. n \in DOMAIN Pending
  BY <1>2, <1>3, <1>4
<1>6. Pending[n] = Newline /\ \A i \in 1..n - 1 : Pending[i] # Newline
  BY <1>2, <1>3, PendingIs
<1>7. F!IsLine(n)
  BY <1>5, <1>6 DEF F!IsLine, Pending
<1>8. SubSeq(Pending, 1, n - 1) = SubSeq(buffer, 1, n - 1)
  <2>1. CASE n = 1
    BY <1>1, <2>1, PendingIs, SubSeqEmpty
  <2>2. CASE n # 1
    BY <1>1, <1>2, <1>3, <2>2, SubSeqOfConcat1 DEF Pending
  <2> QED BY <2>1, <2>2
<1>9. SubSeq(Pending, n + 1, Len(Pending)) = rest \o net
  <2>1. head \in Seq(Bytes) /\ Len(head) = n
    BY <1>1, <1>2, <1>3, SubSeqProperties
  <2>2. rest \in Seq(Bytes) /\ Len(rest) = Len(buffer) - n
    BY <1>1, <1>2, <1>3, SubSeqProperties
  <2>3. head \o rest = buffer
    BY <1>1, <1>2, <1>3, ConcatAdjacentSubSeq, SubSeqFull
  <2> HIDE DEF head, rest
  <2>4. (head \o rest) \o net = head \o (rest \o net)
    <3>1. net \in Seq(Bytes) /\ head \in Seq(Bytes) /\ rest \in Seq(Bytes)
      BY <1>1, <2>1, <2>2
    <3> QED BY <3>1, Associative
  <2>5. Pending = head \o (rest \o net)
    BY <2>3, <2>4 DEF Pending
  <2>6. rest \o net \in Seq(Bytes)
    BY <1>1, <2>2, ConcatProperties
  <2>7. SubSeq(Pending, Len(head) + 1, Len(Pending)) = rest \o net
    BY <2>1, <2>5, <2>6, AfterConcat
  <2> QED BY <2>1, <2>7
<1> QED BY <1>5, <1>7, <1>8, <1>9 DEF n, rest

LEMMA InitFraming == Init => F!Init
<1> SUFFICES ASSUME Init PROVE F!Init
  OBVIOUS
<1>1. net = <<>> /\ buffer = <<>> /\ ended = TRUE /\ connected = FALSE /\ pc = "closed" /\ line = <<>>
  BY DEF Init
<1>2. buffer \o net = <<>>
  BY <1>1
<1> QED BY <1>1, <1>2 DEF F!Init

\* The server has no line to take, or one that is too long.
LEMMA NoLine ==
  ASSUME Types, Ends = {}
  PROVE  \A n \in DOMAIN Pending : F!IsLine(n) => n > Len(buffer)
<1>1. buffer \in Seq(Bytes) /\ net \in Seq(Bytes)
  BY DEF Types
<1>2. \A i \in 1..Len(buffer) : buffer[i] # Newline
  BY <1>1 DEF Ends
<1> SUFFICES ASSUME NEW n \in DOMAIN Pending, F!IsLine(n) PROVE n > Len(buffer)
  OBVIOUS
<1>3. n \in Nat /\ n >= 1 /\ Len(buffer) \in Nat
  BY <1>1, PendingIs
<1>4. Pending[n] = Newline
  BY DEF F!IsLine, Pending
<1>5. n <= Len(buffer) => Pending[n] = buffer[n]
  BY <1>3, PendingIs
<1> QED BY <1>2, <1>3, <1>4, <1>5

\* A connection is closed for one of the reasons a client may expect.
LEMMA ShutIsClose ==
  ASSUME Types, pc # "closed", Shut,
         \/ ~connected
         \/ ended /\ ~\E n \in DOMAIN Pending : F!IsLine(n)
         \/ Pending # <<>> /\ ~\E n \in DOMAIN Pending : n <= Limit + 1 /\ F!IsLine(n)
  PROVE  F!Close
<1>1. /\ net' = <<>> /\ buffer' = <<>> /\ pc' = "closed" /\ connected' = FALSE /\ ended' = TRUE
      /\ line' = line
  BY DEF Shut
<1>2. (buffer \o net)' = <<>>
  BY <1>1
<1> QED BY <1>1, <1>2 DEF F!Close, Pending

\* What the server does that no client can tell.
LEMMA Unseen ==
  ASSUME UNCHANGED <<ended, line, connected>>, (pc = "closed") = (pc' = "closed"),
         Pending' = Pending
  PROVE  UNCHANGED F!vars
BY DEF F!vars, Pending

LEMMA NextFraming == IInv /\ [Next]_vars => [F!Next]_(F!vars)
<1> SUFFICES ASSUME IInv, [Next]_vars PROVE [F!Next]_(F!vars)
  OBVIOUS
<1>0. /\ Types /\ net \in Seq(Bytes) /\ buffer \in Seq(Bytes) /\ Limit \in Nat
      /\ Len(buffer) \in Nat /\ Len(net) \in Nat
  BY IntakeAssumption DEF IInv, Types
<1>1. CASE UNCHANGED vars
  BY <1>1, Unseen DEF vars, conn, Pending
<1>2. CASE Tick
  BY <1>2, Unseen DEF Tick, conn, Pending
<1>3. CASE End
  <2>1. /\ ~ended /\ ended' = TRUE /\ net' \in {net, <<>>}
        /\ buffer' = buffer /\ line' = line /\ connected' = connected /\ pc' = pc
    BY <1>3 DEF End
  <2>2. \E n \in 0..Len(Pending) : (buffer \o net)' = SubSeq(Pending, 1, n)
    <3>1. CASE net' = net
      <4>1. SubSeq(Pending, 1, Len(Pending)) = Pending
        BY <1>0, PendingIs, SubSeqFull
      <4>2. (buffer \o net)' = Pending
        BY <2>1, <3>1 DEF Pending
      <4>3. Len(Pending) \in 0..Len(Pending)
        BY <1>0, PendingIs
      <4> QED BY <4>1, <4>2, <4>3
    <3>2. CASE net' = <<>>
      <4>1. (buffer \o net)' = buffer
        BY <1>0, <2>1, <3>2, ConcatEmptySeq
      <4>2. SubSeq(Pending, 1, Len(buffer)) = buffer
        <5>1. CASE Len(buffer) = 0
          BY <1>0, <5>1, PendingIs, SubSeqEmpty, EmptySeq
        <5>2. CASE Len(buffer) # 0
          <6>1. SubSeq(Pending, 1, Len(buffer)) = SubSeq(buffer, 1, Len(buffer))
            BY <1>0, <5>2, SubSeqOfConcat1 DEF Pending
          <6> QED BY <1>0, <6>1, SubSeqFull
        <5> QED BY <5>1, <5>2
      <4>3. Len(buffer) \in 0..Len(Pending)
        BY <1>0, PendingIs
      <4> QED BY <4>1, <4>2, <4>3
    <3>3. net' = net \/ net' = <<>>
      BY <2>1
    <3> QED BY <3>1, <3>2, <3>3, Zenon
  <2>3. F!End
    BY <2>1, <2>2 DEF F!End, Pending
  <2> QED BY <2>3 DEF F!Next
<1>4. ASSUME NEW b \in Bytes, Send(b) PROVE F!Next
  <2>1. /\ pc # "closed" /\ ~ended /\ net' = Append(net, b) /\ ended' = ended /\ buffer' = buffer
        /\ line' = line /\ connected' = connected /\ pc' = pc
    BY <1>4 DEF Send
  <2>2. buffer \o Append(net, b) = Append(buffer \o net, b)
    BY <1>0
  <2>3. F!Send(b)
    BY <2>1, <2>2 DEF F!Send
  <2> QED BY <2>3 DEF F!Next
<1>5. CASE Accept
  <2>1. /\ pc = "closed" /\ net' = <<>> /\ ended' = FALSE /\ buffer' = <<>>
        /\ connected' = TRUE /\ pc' = "loop" /\ line' = <<>>
    BY <1>5 DEF Accept
  <2>2. (buffer \o net)' = <<>>
    BY <2>1
  <2>3. F!Connect
    BY <2>1, <2>2 DEF F!Connect
  <2> QED BY <2>3 DEF F!Next
<1>6. CASE Leave
  <2>1. F!Close
    BY <1>0, <1>6, ShutIsClose DEF Leave
  <2> QED BY <2>1 DEF F!Next
<1>7. CASE TakeLine
  <2>1. /\ pc = "loop" /\ connected /\ pc' = "handle" /\ net' = net
        /\ ended' = ended /\ connected' = connected
    BY <1>7 DEF TakeLine
  <2>2. /\ line' = F!Stripped(SubSeq(buffer, 1, Min(Ends) - 1))
        /\ buffer' = SubSeq(buffer, Min(Ends) + 1, Len(buffer))
    BY <1>0, <1>7, TakeLineIs
  <2>3. /\ Min(Ends) \in DOMAIN Pending /\ F!IsLine(Min(Ends))
        /\ SubSeq(Pending, 1, Min(Ends) - 1) = SubSeq(buffer, 1, Min(Ends) - 1)
        /\ SubSeq(Pending, Min(Ends) + 1, Len(Pending))
             = SubSeq(buffer, Min(Ends) + 1, Len(buffer)) \o net
    BY <1>0, <1>7, TakeLineTakes
  <2>4. (buffer \o net)' = SubSeq(Pending, Min(Ends) + 1, Len(Pending))
    BY <2>1, <2>2, <2>3
  <2>5. line' = F!Stripped(SubSeq(Pending, 1, Min(Ends) - 1))
    BY <2>2, <2>3
  <2>6. F!Take
    BY <2>1, <2>3, <2>4, <2>5 DEF F!Take, Pending
  <2> QED BY <2>6 DEF F!Next
<1>8. CASE TooLong
  <2>1. pc = "loop" /\ Ends = {} /\ Len(buffer) > Limit /\ Shut
    BY <1>8 DEF TooLong
  <2>2. ~\E n \in DOMAIN Pending : n <= Limit + 1 /\ F!IsLine(n)
    <3> SUFFICES ASSUME NEW n \in DOMAIN Pending, n <= Limit + 1, F!IsLine(n) PROVE FALSE
      OBVIOUS
    <3>1. n > Len(buffer)
      BY <1>0, <2>1, NoLine
    <3>2. n \in Nat
      BY <1>0, PendingIs
    <3> QED BY <1>0, <2>1, <3>1, <3>2
  <2>3. Pending # <<>>
    <3>1. Len(Pending) > 0
      BY <1>0, <2>1, PendingIs
    <3> QED BY <3>1, NoBytes
  <2>4. F!Close
    BY <1>0, <2>1, <2>2, <2>3, ShutIsClose
  <2> QED BY <2>4 DEF F!Next
<1>9. CASE ReceiveEnd \/ ReceiveTimeout
  <2>1. pc = "recv" /\ net = <<>> /\ Shut /\ Ends = {} /\ (timed => buffer # <<>>)
        /\ (ended \/ timed)
    BY <1>9 DEF ReceiveEnd, ReceiveTimeout, IInv, Waiting
  <2>2. Pending = buffer
    BY <1>0, <2>1, PendingIs
  <2>3. ~\E n \in DOMAIN Pending : F!IsLine(n)
    <3> SUFFICES ASSUME NEW n \in DOMAIN Pending, F!IsLine(n) PROVE FALSE
      OBVIOUS
    <3>1. n > Len(buffer)
      BY <1>0, <2>1, NoLine
    <3>2. n \in 1..Len(buffer)
      BY <1>0, <2>2
    <3> QED BY <1>0, <3>1, <3>2
  <2>4. F!Close
    <3>1. pc # "closed"
      BY <2>1
    <3>2. \/ ended /\ ~\E n \in DOMAIN Pending : F!IsLine(n)
          \/ Pending # <<>> /\ ~\E n \in DOMAIN Pending : n <= Limit + 1 /\ F!IsLine(n)
      BY <2>1, <2>2, <2>3
    <3> QED BY <1>0, <2>1, <3>1, <3>2, ShutIsClose
  <2> QED BY <2>4 DEF F!Next
<1>10. CASE SetTimeout \/ HandleBlank
  BY <1>10, Unseen DEF SetTimeout, HandleBlank, Pending
<1>11. CASE Receive
  <2>1. (buffer \o net)' = buffer \o net
    BY <1>0, <1>11, ReceiveIs
  <2>2. pc = "recv" /\ pc' = "loop" /\ UNCHANGED <<ended, connected, line>>
    BY <1>11 DEF Receive
  <2> QED BY <2>1, <2>2, Unseen DEF Pending
<1>12. CASE HandleCommand
  <2>1. /\ pc = "handle" /\ pc' = "loop" /\ Letter \in Range(line) /\ connected
        /\ connected' \in BOOLEAN /\ UNCHANGED <<net, ended, buffer, line>>
    BY <1>12 DEF HandleCommand, IInv, Serving
  <2>2. CASE connected'
    BY <2>1, <2>2, Unseen DEF Pending, IInv, Types
  <2>3. CASE ~connected'
    <3>1. line # <<>>
      BY <2>1 DEF Range
    <3>2. F!Quit
      BY <2>1, <2>3, <3>1 DEF F!Quit
    <3> QED BY <3>2 DEF F!Next
  <2> QED BY <2>2, <2>3
<1> QED
  BY <1>1, <1>2, <1>3, <1>4, <1>5, <1>6, <1>7, <1>8, <1>9, <1>10, <1>11, <1>12 DEF Next, Thread

\* A client can rely on Framing, whatever it sends and whatever the limit is:
\* read_line takes its lines in order, once and whole, and client_loop closes on
\* nobody who is idle or has a line within MAX_LINE_LENGTH to take.
THEOREM FramingTheorem == Spec => ImplementsFraming
<1>1. Init => F!Init
  BY InitFraming
<1>2. IInv /\ [Next]_vars => [F!Next]_(F!vars)
  BY NextFraming
<1> QED BY <1>1, <1>2, Invariant, PTL DEF Spec, ImplementsFraming, F!Spec
-----------------------------------------------------------------------------
(* The monitor *)

Young(ts, w) == {i \in 1..Len(ts) : ts[i] <= w}
OldestFirst(ts) == \A i, j \in 1..Len(ts) : i < j => ts[i] >= ts[j]

\* f numbers the entries of each age that the window holds: as many as there
\* have been commands, or connections, of that age.
Numbers(f, ts, rec, w) ==
  /\ \A i \in Young(ts, w) : f[i] \in 1..rec[ts[i]]
  /\ \A i, j \in Young(ts, w) : ts[i] = ts[j] /\ f[i] = f[j] => i = j
  /\ \A age \in 0..w : \A n \in 1..rec[age] : \E i \in Young(ts, w) : ts[i] = age /\ f[i] = n

\* The monitor may hold more, but only what is older than all that; and none of it
\* when something has just been counted.
CountOK(ts, said, rec, w, threshold) ==
  /\ OldestFirst(ts) /\ \E f : Numbers(f, ts, rec, w)
  /\ said # "nothing" => /\ \A i \in 1..Len(ts) : ts[i] <= w
                         /\ said = "warned" <=> Len(ts) > threshold

Counts == \A k \in Kinds : CountOK(times[k], told[k], recent[k], Window[k], Threshold[k])

LEMMA NothingCounted ==
  ASSUME NEW w \in Nat, NEW threshold
  PROVE  CountOK(<<>>, "nothing", [age \in 0..w |-> 0], w, threshold)
<1> DEFINE none == <<>>
           zero == [age \in 0..w |-> 0]
<1>1. Len(none) = 0
  OBVIOUS
<1>2. \A age \in 0..w : zero[age] = 0
  OBVIOUS
<1> HIDE DEF none, zero
<1>3. Young(none, w) = {} /\ OldestFirst(none)
  BY <1>1 DEF Young, OldestFirst
<1>4. Numbers(none, none, zero, w)
  BY <1>2, <1>3 DEF Numbers
<1>5. CountOK(none, "nothing", zero, w, threshold)
  BY <1>3, <1>4 DEF CountOK
<1> QED BY <1>5 DEF none, zero

\* What a second of the code does to the entries of a window, and to the history.
LEMMA CountOlder ==
  ASSUME NEW w \in Nat, NEW ts, NEW rec, NEW older, NEW moved, NEW said, NEW threshold,
         Len(ts) \in Nat, Len(older) = Len(ts), \A i \in 1..Len(ts) : ts[i] \in 0..w + 1,
         \A i \in 1..Len(ts) : older[i] = IF ts[i] > w THEN ts[i] ELSE ts[i] + 1,
         \A age \in 0..w : moved[age] = IF age = 0 THEN 0 ELSE rec[age - 1],
         CountOK(ts, said, rec, w, threshold)
  PROVE  CountOK(older, "nothing", moved, w, threshold)
<1>1. OldestFirst(ts)
  BY DEF CountOK
<1>2. ASSUME NEW i \in 1..Len(older), NEW j \in 1..Len(older), i < j PROVE older[i] >= older[j]
  <2>1. ts[i] >= ts[j] /\ ts[i] \in 0..w + 1 /\ ts[j] \in 0..w + 1
    BY <1>1, <1>2 DEF OldestFirst
  <2>2. /\ older[i] = IF ts[i] > w THEN ts[i] ELSE ts[i] + 1
        /\ older[j] = IF ts[j] > w THEN ts[j] ELSE ts[j] + 1
    OBVIOUS
  <2> HIDE DEF OldestFirst
  <2> QED BY <2>1, <2>2
<1>3. PICK f : Numbers(f, ts, rec, w)
  BY DEF CountOK
<1>4. ASSUME NEW i \in 1..Len(ts)
      PROVE  older[i] <= w <=> ts[i] < w
  BY <1>4
<1>5. \A i \in Young(older, w) : i \in Young(ts, w) /\ older[i] = ts[i] + 1 /\ ts[i] \in 0..w - 1
  <2> SUFFICES ASSUME NEW i \in Young(older, w)
               PROVE  i \in Young(ts, w) /\ older[i] = ts[i] + 1 /\ ts[i] \in 0..w - 1
    OBVIOUS
  <2>1. i \in 1..Len(ts) /\ older[i] <= w
    BY DEF Young
  <2>2. ts[i] < w /\ ts[i] \in 0..w + 1
    BY <1>4, <2>1
  <2> QED BY <2>1, <2>2 DEF Young
<1>6. ASSUME NEW i \in Young(older, w) PROVE f[i] \in 1..moved[older[i]]
  <2>1. ts[i] \in 0..w - 1 /\ older[i] = ts[i] + 1
    BY <1>5
  <2>2. moved[older[i]] = rec[ts[i]]
    BY <2>1
  <2> QED BY <1>3, <1>5, <2>2 DEF Numbers
<1>7. ASSUME NEW i \in Young(older, w), NEW j \in Young(older, w), older[i] = older[j], f[i] = f[j]
      PROVE  i = j
  <2>1. ts[i] = ts[j]
    BY <1>5, <1>7
  <2> QED BY <1>3, <1>5, <1>7, <2>1 DEF Numbers
<1>8. ASSUME NEW age \in 0..w, NEW n \in 1..moved[age]
      PROVE  \E i \in Young(older, w) : older[i] = age /\ f[i] = n
  <2> DEFINE before == age - 1
  <2>1. age # 0 /\ before \in 0..w /\ n \in 1..rec[before]
    <3>1. age # 0
      OBVIOUS
    <3> QED BY <3>1
  <2> HIDE DEF before
  <2>2. PICK i \in Young(ts, w) : ts[i] = before /\ f[i] = n
    <3>1. \A a \in 0..w : \A m \in 1..rec[a] : \E i \in Young(ts, w) : ts[i] = a /\ f[i] = m
      BY <1>3, Zenon DEF Numbers
    <3> QED BY <2>1, <3>1, Zenon
  <2> USE DEF before
  <2>3. i \in 1..Len(ts) /\ ts[i] < w
    BY <2>1, <2>2 DEF Young
  <2>4. i \in Young(older, w)
    BY <1>4, <2>3 DEF Young
  <2>5. older[i] = age
    BY <1>5, <2>1, <2>2, <2>4
  <2> QED BY <2>2, <2>4, <2>5
<1>9. Numbers(f, older, moved, w)
  BY <1>6, <1>7, <1>8 DEF Numbers
<1> QED BY <1>2, <1>9 DEF CountOK, OldestFirst

\* A new entry is of age 0, and the next of its age.
LEMMA CountAdded ==
  ASSUME NEW w \in Nat, NEW ts, NEW rec, NEW more, NEW new,
         Len(ts) \in Nat, \A i \in 1..Len(ts) : ts[i] \in 0..w + 1,
         \A age \in 0..w : rec[age] \in Nat /\ more[age] = IF age = 0 THEN rec[0] + 1 ELSE rec[age],
         Len(new) = Len(ts) + 1, new[Len(new)] = 0,
         \A i \in 1..Len(ts) : new[i] = ts[i],
         OldestFirst(ts), NEW f, Numbers(f, ts, rec, w)
  PROVE  OldestFirst(new) /\ \E g : Numbers(g, new, more, w)
<1>1. 0 \in 0..w /\ rec[0] \in Nat /\ more[0] = rec[0] + 1
  OBVIOUS
<1>2. ASSUME NEW i \in 1..Len(new), NEW j \in 1..Len(new), i < j PROVE new[i] >= new[j]
  <2>1. i \in 1..Len(ts) /\ new[i] = ts[i] /\ ts[i] \in 0..w + 1
    BY <1>2
  <2>2. CASE j = Len(new)
    BY <2>1, <2>2
  <2>3. CASE j \in 1..Len(ts)
    BY <1>2, <2>1, <2>3 DEF OldestFirst
  <2> QED BY <2>2, <2>3
<1> DEFINE last == Len(new)
           g == [i \in 1..last |-> IF i = last THEN more[0] ELSE f[i]]
<1>3. Young(new, w) = Young(ts, w) \cup {last} /\ last \notin Young(ts, w)
  <2>1. \A i : i \in 1..Len(new) <=> i \in 1..Len(ts) \/ i = last
    OBVIOUS
  <2>2. new[last] <= w /\ last \notin 1..Len(ts)
    OBVIOUS
  <2> HIDE DEF last
  <2> QED BY <2>1, <2>2 DEF Young
<1>4. g[last] = more[0] /\ \A i \in Young(ts, w) : g[i] = f[i] /\ new[i] = ts[i] /\ ts[i] \in 0..w
  BY <1>1 DEF Young
<1>5. new[last] = 0 /\ last \in Nat
  BY <1>1
<1> HIDE DEF last, g
<1>6. ASSUME NEW i \in Young(new, w) PROVE g[i] \in 1..more[new[i]]
  <2>1. CASE i = last
    BY <1>1, <1>4, <1>5, <2>1
  <2>2. CASE i \in Young(ts, w)
    <3>1. ts[i] \in 0..w /\ f[i] \in 1..rec[ts[i]]
      BY <1>4, <2>2 DEF Numbers
    <3>2. rec[ts[i]] \in Nat /\ more[ts[i]] = IF ts[i] = 0 THEN rec[0] + 1 ELSE rec[ts[i]]
      BY <3>1
    <3>3. f[i] \in 1..more[ts[i]]
      BY <3>1, <3>2
    <3> QED BY <1>4, <2>2, <3>3
  <2> QED BY <1>3, <2>1, <2>2
<1>7. ASSUME NEW i \in Young(ts, w), ts[i] = 0 PROVE f[i] # more[0]
  <2>1. f[i] \in 1..rec[0]
    BY <1>7 DEF Numbers
  <2> QED BY <1>1, <2>1
<1>8. ASSUME NEW i \in Young(new, w), NEW j \in Young(new, w), new[i] = new[j], g[i] = g[j]
      PROVE  i = j
  <2>1. CASE i \in Young(ts, w) /\ j \in Young(ts, w)
    BY <1>4, <1>8, <2>1 DEF Numbers
  <2>2. CASE i = last /\ j \in Young(ts, w)
    BY <1>4, <1>5, <1>7, <1>8, <2>2
  <2>3. CASE j = last /\ i \in Young(ts, w)
    BY <1>4, <1>5, <1>7, <1>8, <2>3
  <2> QED BY <1>3, <2>1, <2>2, <2>3
<1>9. ASSUME NEW age \in 0..w, NEW n \in 1..more[age]
      PROVE  \E i \in Young(new, w) : new[i] = age /\ g[i] = n
  <2>1. CASE age = 0 /\ n = more[0]
    BY <1>3, <1>4, <1>5, <2>1
  <2>2. CASE ~(age = 0 /\ n = more[0])
    <3>1. n \in 1..rec[age]
      <4>1. rec[age] \in Nat /\ n \in Nat
        OBVIOUS
      <4> QED BY <1>1, <2>2, <4>1
    <3>2. PICK i \in Young(ts, w) : ts[i] = age /\ f[i] = n
      BY <3>1 DEF Numbers
    <3> QED BY <1>3, <1>4, <3>2
  <2> QED BY <2>1, <2>2
<1>10. Numbers(g, new, more, w)
  BY <1>6, <1>8, <1>9 DEF Numbers
<1> QED BY <1>2, <1>10 DEF OldestFirst

\* What goes from the front is exactly what is too old.
LEMMA CountKept ==
  ASSUME NEW w \in Nat, NEW new \in Seq(0..w + 1), NEW more,
         Len(new) \in Young(new, w), OldestFirst(new), NEW g, Numbers(g, new, more, w)
  PROVE  /\ OldestFirst(Kept(new, w)) /\ \E f : Numbers(f, Kept(new, w), more, w)
         /\ \A i \in 1..Len(Kept(new, w)) : Kept(new, w)[i] <= w
<1> DEFINE first == Min(Young(new, w))
           kept == Kept(new, w)
           f == [i \in 1..Len(kept) |-> g[i + first - 1]]
<1>1. Len(new) \in Nat /\ \A i \in 1..Len(new) : new[i] \in 0..w + 1
  BY ElementOfSeq
<1>2. first \in Young(new, w) /\ \A i \in Young(new, w) : first <= i
  <2>1. Young(new, w) \in SUBSET Nat /\ Young(new, w) # {}
    BY <1>1 DEF Young
  <2> QED BY <2>1, MinIs
<1>3. first \in 1..Len(new) /\ new[first] <= w
  BY <1>2 DEF Young
<1>4. kept = SubSeq(new, first, Len(new))
  <2>1. {i \in DOMAIN new : new[i] <= w} = Young(new, w)
    BY <1>1 DEF Young
  <2> QED BY <2>1 DEF Kept
<1> HIDE DEF first, kept
<1>5. Len(kept) = Len(new) - first + 1 /\ \A i \in 1..Len(kept) : kept[i] = new[i + first - 1]
  BY <1>1, <1>3, <1>4, SubSeqProperties
<1>6. \A i \in 1..Len(kept) : f[i] = g[i + first - 1] /\ i + first - 1 \in first..Len(new)
  BY <1>1, <1>3, <1>5
<1> HIDE DEF f
<1>7. \A j \in first..Len(new) : j \in Young(new, w)
  <2> SUFFICES ASSUME NEW j \in first..Len(new) PROVE j \in Young(new, w)
    OBVIOUS
  <2>1. j \in 1..Len(new) /\ (j = first \/ first < j)
    BY <1>1, <1>3
  <2>2. new[first] >= new[j]
    BY <1>1, <1>3, <2>1 DEF OldestFirst
  <2> QED BY <1>1, <1>3, <2>1, <2>2 DEF Young
<1>8. \A i \in 1..Len(kept) : kept[i] <= w
  BY <1>5, <1>6, <1>7 DEF Young
<1>9. Young(kept, w) = 1..Len(kept)
  BY <1>8 DEF Young
<1>10. OldestFirst(kept)
  <2> SUFFICES ASSUME NEW i \in 1..Len(kept), NEW j \in 1..Len(kept), i < j PROVE kept[i] >= kept[j]
    BY DEF OldestFirst
  <2>1. i + first - 1 \in 1..Len(new) /\ j + first - 1 \in 1..Len(new) /\ i + first - 1 < j + first - 1
    BY <1>1, <1>3, <1>5
  <2> QED BY <1>5, <2>1 DEF OldestFirst
<1>11. ASSUME NEW i \in 1..Len(kept), NEW j \in 1..Len(kept), kept[i] = kept[j], f[i] = f[j]
       PROVE  i = j
  <2> DEFINE u == i + first - 1
             v == j + first - 1
  <2>1. /\ u \in Young(new, w) /\ v \in Young(new, w)
        /\ new[u] = new[v] /\ g[u] = g[v]
    BY <1>5, <1>6, <1>7, <1>11
  <2>2. u = v
    <3> HIDE DEF u, v
    <3> QED BY <2>1 DEF Numbers
  <2> QED BY <1>1, <1>3, <2>2
<1>12. ASSUME NEW age \in 0..w, NEW n \in 1..more[age]
       PROVE  \E i \in 1..Len(kept) : kept[i] = age /\ f[i] = n
  <2>1. PICK j \in Young(new, w) : new[j] = age /\ g[j] = n
    BY DEF Numbers
  <2>2. j \in first..Len(new)
    BY <1>1, <1>2, <1>3, <2>1 DEF Young
  <2>3. j - first + 1 \in 1..Len(kept) /\ (j - first + 1) + first - 1 = j
    BY <1>1, <1>3, <1>5, <2>2
  <2> QED BY <1>5, <1>6, <2>1, <2>3
<1>13. ASSUME NEW i \in 1..Len(kept) PROVE f[i] \in 1..more[kept[i]]
  <2> DEFINE u == i + first - 1
  <2>1. u \in Young(new, w) /\ kept[i] = new[u] /\ f[i] = g[u]
    BY <1>5, <1>6, <1>7
  <2> HIDE DEF u
  <2>2. g[u] \in 1..more[new[u]]
    BY <2>1 DEF Numbers
  <2> QED BY <2>1, <2>2
<1>14. Numbers(f, kept, more, w)
  BY <1>9, <1>11, <1>12, <1>13 DEF Numbers
<1> QED BY <1>8, <1>10, <1>14 DEF kept

LEMMA RecordCounts ==
  ASSUME NEW k \in Kinds, NEW ts, NEW said, NEW rec, MonitorOK(ts, said, rec),
         \A j \in Kinds : CountOK(ts[j], said[j], rec[j], Window[j], Threshold[j]),
         Record(k, ts, said, rec)
  PROVE  Counts'
<1> DEFINE w == Window[k]
           new == Append(ts[k], 0)
           kept == Kept(new, w)
           more == [rec[k] EXCEPT ![0] = @ + 1]
<1>1. /\ w \in Nat /\ ts[k] \in Seq(0..w + 1) /\ rec[k] \in [0..w -> 0..Burst[k]]
      /\ Burst[k] \in Nat
  BY IntakeAssumption DEF MonitorOK
<1>2. /\ new \in Seq(0..w + 1) /\ Len(new) = Len(ts[k]) + 1 /\ new[Len(new)] = 0
      /\ \A i \in 1..Len(ts[k]) : new[i] = ts[k][i]
  <2>1. 0 \in 0..w + 1
    BY <1>1
  <2> QED BY <1>1, <2>1, AppendProperties
<1>3. Len(ts[k]) \in Nat /\ \A i \in 1..Len(ts[k]) : ts[k][i] \in 0..w + 1
  BY <1>1, ElementOfSeq
<1>4. \A age \in 0..w : rec[k][age] \in Nat /\ more[age] = IF age = 0 THEN rec[k][0] + 1 ELSE rec[k][age]
  BY <1>1
<1>5. /\ times' = [ts EXCEPT ![k] = kept]
      /\ told' = [said EXCEPT ![k] = IF Len(kept) > Threshold[k] THEN "warned" ELSE "normal"]
      /\ recent' = [rec EXCEPT ![k] = more]
  BY DEF Record
<1>6. DOMAIN ts = Kinds /\ DOMAIN said = Kinds /\ DOMAIN rec = Kinds
  BY DEF MonitorOK
<1>7. PICK f : Numbers(f, ts[k], rec[k], w)
  BY DEF CountOK
<1>8. OldestFirst(ts[k])
  BY DEF CountOK
<1> HIDE DEF w, new, kept, more
<1>9. OldestFirst(new) /\ \E g : Numbers(g, new, more, w)
  <2> DEFINE old == ts[k]
             had == rec[k]
  <2>1. /\ Len(old) \in Nat /\ \A i \in 1..Len(old) : old[i] \in 0..w + 1
        /\ \A age \in 0..w : had[age] \in Nat /\ more[age] = IF age = 0 THEN had[0] + 1 ELSE had[age]
        /\ Len(new) = Len(old) + 1 /\ new[Len(new)] = 0
        /\ \A i \in 1..Len(old) : new[i] = old[i]
        /\ OldestFirst(old) /\ Numbers(f, old, had, w)
    BY <1>2, <1>3, <1>4, <1>7, <1>8
  <2> HIDE DEF old, had
  <2> QED BY <1>1, <2>1, CountAdded, Zenon
<1>10. Len(new) \in Young(new, w)
  BY <1>1, <1>2, <1>3 DEF Young
<1>11. /\ OldestFirst(kept) /\ \E g : Numbers(g, kept, more, w)
       /\ \A i \in 1..Len(kept) : kept[i] <= w
  BY <1>1, <1>2, <1>9, <1>10, CountKept DEF kept
<1>12. CountOK(kept, told'[k], more, w, Threshold[k])
  <2>1. told'[k] = IF Len(kept) > Threshold[k] THEN "warned" ELSE "normal"
    BY <1>5, <1>6
  <2> QED BY <1>11, <2>1 DEF CountOK
<1>13. ASSUME NEW j \in Kinds
       PROVE  CountOK(times'[j], told'[j], recent'[j], Window[j], Threshold[j])
  <2>1. CASE j = k
    <3>1. times'[j] = kept /\ recent'[j] = more
      BY <1>5, <1>6, <2>1
    <3> QED BY <1>12, <2>1, <3>1 DEF w
  <2>2. CASE j # k
    <3>1. times'[j] = ts[j] /\ recent'[j] = rec[j] /\ told'[j] = said[j]
      BY <1>5, <1>6, <2>2
    <3> QED BY <3>1
  <2> QED BY <2>1, <2>2
<1> QED BY <1>13 DEF Counts

LEMMA TickCounts == ASSUME MonitorOK(times, told, recent), Counts, Tick PROVE Counts'
<1> SUFFICES ASSUME NEW k \in Kinds
             PROVE  CountOK(times'[k], told'[k], recent'[k], Window[k], Threshold[k])
  BY DEF Counts
<1>1. /\ Window[k] \in Nat /\ Burst[k] \in Nat
      /\ times[k] \in Seq(0..Window[k] + 1) /\ recent[k] \in [0..Window[k] -> 0..Burst[k]]
  BY IntakeAssumption DEF MonitorOK
<1>2. /\ times'[k] = [i \in DOMAIN times[k] |->
                 IF times[k][i] > Window[k] THEN times[k][i] ELSE times[k][i] + 1]
      /\ told'[k] = "nothing"
      /\ recent'[k] = [age \in 0..Window[k] |-> IF age = 0 THEN 0 ELSE recent[k][age - 1]]
  BY DEF Tick
<1>3. /\ DOMAIN times[k] = 1..Len(times[k]) /\ Len(times[k]) \in Nat
      /\ \A i \in 1..Len(times[k]) : times[k][i] \in 0..Window[k] + 1
  BY <1>1, ElementOfSeq
<1>4. /\ Len(times'[k]) = Len(times[k])
      /\ \A i \in 1..Len(times[k]) :
           times'[k][i] = IF times[k][i] > Window[k] THEN times[k][i] ELSE times[k][i] + 1
  <2> DEFINE n == Len(times[k])
  <2>1. DOMAIN times'[k] = 1..n /\ n \in Nat
    BY <1>2, <1>3
  <2> HIDE DEF n
  <2>2. times'[k] = [i \in 1..n |-> times'[k][i]]
    BY <1>2, <2>1
  <2>3. Len([i \in 1..n |-> times'[k][i]]) = n
    BY <2>1
  <2>4. Len(times'[k]) = n
    BY <2>2, <2>3
  <2> QED BY <1>2, <1>3, <2>4 DEF n
<1>5. \A age \in 0..Window[k] : recent'[k][age] = IF age = 0 THEN 0 ELSE recent[k][age - 1]
  BY <1>2
<1>6. CountOK(times[k], told[k], recent[k], Window[k], Threshold[k])
  BY DEF Counts
<1>7. CountOK(times'[k], "nothing", recent'[k], Window[k], Threshold[k])
  BY <1>1, <1>3, <1>4, <1>5, <1>6, CountOlder
<1> QED BY <1>2, <1>7

LEMMA InitCounts == Init => Counts
<1> SUFFICES ASSUME Init, NEW k \in Kinds
             PROVE  CountOK(times[k], told[k], recent[k], Window[k], Threshold[k])
  BY DEF Counts
<1>1. Window[k] \in Nat
  BY IntakeAssumption
<1>2. times[k] = <<>> /\ told[k] = "nothing" /\ recent[k] = [age \in 0..Window[k] |-> 0]
  BY DEF Init, None
<1> QED BY <1>1, <1>2, NothingCounted

\* A new connection has been counted before its commands, of which there are none.
LEMMA AcceptCounts == ASSUME IInv, Counts, Accept PROVE Counts'
<1> DEFINE ts == [times EXCEPT !["command"] = <<>>]
           said == [told EXCEPT !["command"] = "nothing"]
           rec == [recent EXCEPT !["command"] = None["command"]]
<1>1. Record("connect", ts, said, rec) /\ MonitorOK(times, told, recent)
  BY DEF Accept, IInv, Types
<1>2. \A j \in Kinds : /\ ts[j] = IF j = "command" THEN <<>> ELSE times[j]
                       /\ said[j] = IF j = "command" THEN "nothing" ELSE told[j]
                       /\ rec[j] = IF j = "command" THEN [age \in 0..Window[j] |-> 0] ELSE recent[j]
  BY <1>1 DEF MonitorOK, None, Kinds
<1>3. /\ DOMAIN ts = Kinds /\ DOMAIN rec = Kinds
      /\ said \in [Kinds -> {"nothing", "normal", "warned"}]
  BY <1>1 DEF MonitorOK
<1>4. \A j \in Kinds : Window[j] \in Nat /\ Burst[j] \in Nat
  BY IntakeAssumption
<1> HIDE DEF ts, said, rec
<1>5. MonitorOK(ts, said, rec)
  <2>1. ASSUME NEW j \in Kinds
        PROVE  ts[j] \in Seq(0..Window[j] + 1) /\ rec[j] \in [0..Window[j] -> 0..Burst[j]]
    <3>1. CASE j = "command"
      <4>1. ts[j] = <<>> /\ rec[j] = [age \in 0..Window[j] |-> 0]
        BY <1>2, <3>1
      <4> QED BY <1>4, <4>1
    <3>2. CASE j # "command"
      BY <1>1, <1>2, <3>2 DEF MonitorOK
    <3> QED BY <3>1, <3>2
  <2> QED BY <1>3, <2>1 DEF MonitorOK
<1>6. ASSUME NEW j \in Kinds PROVE CountOK(ts[j], said[j], rec[j], Window[j], Threshold[j])
  <2>1. CASE j = "command"
    <3>1. ts[j] = <<>> /\ said[j] = "nothing" /\ rec[j] = [age \in 0..Window[j] |-> 0]
      BY <1>2, <2>1
    <3> QED BY <1>4, <3>1, NothingCounted
  <2>2. CASE j # "command"
    BY <1>2, <2>2 DEF Counts
  <2> QED BY <2>1, <2>2
<1> QED BY <1>1, <1>5, <1>6, RecordCounts DEF Kinds

LEMMA NextCounts == IInv /\ Counts /\ [Next]_vars => Counts'
<1> SUFFICES ASSUME IInv, Counts, [Next]_vars PROVE Counts'
  OBVIOUS
<1>1. MonitorOK(times, told, recent)
  BY DEF IInv, Types
<1>2. CASE Tick
  BY <1>1, <1>2, TickCounts
<1>3. CASE Accept
  BY <1>3, AcceptCounts
<1>4. CASE HandleCommand
  BY <1>1, <1>4, RecordCounts DEF HandleCommand, Counts, Kinds
<1>5. CASE UNCHANGED monitor
  BY <1>5 DEF Counts, monitor
<1>6. \/ Tick \/ Accept \/ HandleCommand \/ UNCHANGED monitor
  <2>1. Shut => UNCHANGED monitor
    BY DEF Shut, monitor
  <2> QED BY <2>1 DEF Next, Thread, End, Leave, TakeLine, TooLong, SetTimeout, Receive, ReceiveEnd,
               ReceiveTimeout, HandleBlank, Send, vars, monitor
<1> QED BY <1>2, <1>3, <1>4, <1>5, <1>6

\* When all that is kept is young, there are as many entries as has been counted.
LEMMA AsManyHappened ==
  ASSUME MonitorOK(times, told, recent), NEW k \in Kinds, NEW f,
         Numbers(f, times[k], recent[k], Window[k]),
         \A i \in 1..Len(times[k]) : times[k][i] <= Window[k]
  PROVE  Cardinality(Happened(k)) = Len(times[k])
<1> DEFINE w == Window[k]
           n == Len(times[k])
           pair == [i \in 1..n |-> <<times[k][i], f[i]>>]
<1>1. /\ w \in Nat /\ n \in Nat /\ Burst[k] \in Nat /\ Young(times[k], w) = 1..n
      /\ \A i \in 1..n : times[k][i] \in 0..w
  <2>1. /\ w \in Nat /\ n \in Nat /\ Burst[k] \in Nat
        /\ \A i \in 1..n : times[k][i] \in 0..w + 1
    BY IntakeAssumption, ElementOfSeq DEF MonitorOK
  <2> QED BY <2>1 DEF Young
<1>2. \A age \in 0..w : recent[k][age] \in 0..Burst[k]
  BY DEF MonitorOK
<1>3. /\ \A i \in 1..n : f[i] \in 1..recent[k][times[k][i]]
      /\ \A i, j \in 1..n : times[k][i] = times[k][j] /\ f[i] = f[j] => i = j
      /\ \A age \in 0..w : \A m \in 1..recent[k][age] : \E i \in 1..n : times[k][i] = age /\ f[i] = m
  <2> DEFINE young == Young(times[k], w)
  <2>1. /\ \A i \in young : f[i] \in 1..recent[k][times[k][i]]
        /\ \A i, j \in young : times[k][i] = times[k][j] /\ f[i] = f[j] => i = j
        /\ \A age \in 0..w : \A m \in 1..recent[k][age] : \E i \in young : times[k][i] = age /\ f[i] = m
    BY Zenon DEF Numbers
  <2>2. young = 1..n
    BY <1>1
  <2> HIDE DEF young, w, n
  <2> QED BY <2>1, <2>2, Zenon
<1>4. ASSUME NEW age \in 0..w, NEW m \in 1..recent[k][age]
      PROVE  <<age, m>> \in Happened(k)
  <2>1. m \in 1..Burst[k] /\ m <= recent[k][age]
    BY <1>1, <1>2
  <2> QED BY <2>1 DEF Happened
<1>5. ASSUME NEW c \in Happened(k)
      PROVE  c = <<c[1], c[2]>> /\ c[1] \in 0..w /\ c[2] \in 1..recent[k][c[1]]
  <2>1. c \in (0..w) \X (1..Burst[k]) /\ c[2] <= recent[k][c[1]]
    BY DEF Happened
  <2>2. c = <<c[1], c[2]>> /\ c[1] \in 0..w /\ c[2] \in 1..Burst[k]
    BY <2>1
  <2> QED BY <1>1, <1>2, <2>1, <2>2
<1> HIDE DEF w, n
<1>6. \A i \in 1..n : pair[i] = <<times[k][i], f[i]>> /\ pair[i] \in Happened(k)
  BY <1>1, <1>3, <1>4
<1> HIDE DEF pair
<1>7. pair \in [1..n -> Happened(k)]
  BY <1>6 DEF pair
<1>8. \A i, j \in 1..n : pair[i] = pair[j] => i = j
  BY <1>3, <1>6
<1>9. \A c \in Happened(k) : \E i \in 1..n : pair[i] = c
  <2> SUFFICES ASSUME NEW c \in Happened(k) PROVE \E i \in 1..n : pair[i] = c
    OBVIOUS
  <2>1. c[1] \in 0..w /\ c[2] \in 1..recent[k][c[1]]
    BY <1>5
  <2>2. PICK i \in 1..n : times[k][i] = c[1] /\ f[i] = c[2]
    BY <1>3, <2>1
  <2> QED BY <1>5, <1>6, <2>2
<1>10. ExistsBijection(1..n, Happened(k))
  BY <1>7, <1>8, <1>9 DEF ExistsBijection, Bijection, Injection, Surjection, IsInjective
<1> QED BY <1>1, <1>10, FS_CountingElements DEF n

\* The monitor's windows, which only what is new prunes, hold what has happened in them
\* when it matters (abuse_monitor.cpp, record_and_check_flood and
\* record_connection_and_check_rapid_reconnect), for any windows and thresholds.
THEOREM WarnsTheorem == Spec => []WarnsOfTooMany
<1>1. IInv /\ Counts => WarnsOfTooMany
  <2> SUFFICES ASSUME IInv, Counts, NEW k \in Kinds, told[k] # "nothing"
               PROVE  told[k] = "warned" <=> Cardinality(Happened(k)) > Threshold[k]
    BY DEF WarnsOfTooMany
  <2>1. /\ \A i \in 1..Len(times[k]) : times[k][i] <= Window[k]
        /\ told[k] = "warned" <=> Len(times[k]) > Threshold[k]
    BY DEF Counts, CountOK
  <2>2. PICK f : Numbers(f, times[k], recent[k], Window[k])
    BY DEF Counts, CountOK
  <2>3. Cardinality(Happened(k)) = Len(times[k])
    BY <2>1, <2>2, AsManyHappened DEF IInv, Types
  <2> QED BY <2>1, <2>3
<1> QED BY <1>1, InitCounts, NextCounts, Invariant, PTL DEF Spec
=============================================================================
