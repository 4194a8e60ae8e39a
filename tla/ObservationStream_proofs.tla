---------------------- MODULE ObservationStream_proofs ----------------------
(***************************************************************************)
(* Proofs about ObservationStream, for any payloads, scopes, page sizes,   *)
(* revalidation intervals and bounds: type correctness, the revalidation   *)
(* deadline, and the exactness of what the client receives.                *)
(***************************************************************************)
EXTENDS ObservationStream, TLAPS

(* What appending to a sequence and taking its tail do to its elements.    *)
LEMMA AppendElements ==
    ASSUME NEW S, NEW s \in Seq(S), NEW e \in S
    PROVE  /\ Append(s, e) \in Seq(S)
           /\ Len(Append(s, e)) = Len(s) + 1
           /\ \A i \in 1..Len(s) : Append(s, e)[i] = s[i]
           /\ Append(s, e)[Len(s) + 1] = e
OBVIOUS

LEMMA TailElements ==
    ASSUME NEW S, NEW s \in Seq(S), s # << >>
    PROVE  /\ Tail(s) \in Seq(S) /\ Len(Tail(s)) = Len(s) - 1
           /\ Len(s) \in Nat \ {0} /\ Head(s) = s[1] /\ s[1] \in S
           /\ \A i \in 1..(Len(s) - 1) : Tail(s)[i] = s[i + 1]
OBVIOUS

LEMMA SendTyped ==
    ASSUME TypeOK, NEW type \in EventType \ {"observation"}, NEW n \in Position \cup {NoCursor},
           Send(type, n)
    PROVE  wire' \in Seq(StreamEvent) /\ Len(wire') <= Buffer
<1>1. Event(type, n, NoCursor) \in StreamEvent
  BY DEF Event, StreamEvent
<1>2. wire \in Seq(StreamEvent)
  BY DEF TypeOK
<1> QED
  BY <1>1, <1>2, AppendElements, StreamAssumption DEF Send, HasRoom

LEMMA InitTyped == Init => TypeOK
<1> SUFFICES ASSUME Init PROVE TypeOK
  OBVIOUS
<1>1. Store!LogTypeOK /\ Len(log) <= MaxLog
  BY StreamAssumption DEF Init, Store!Init, Store!LogTypeOK
<1>2. wire \in Seq(StreamEvent) /\ Len(wire) <= Buffer
  BY StreamAssumption DEF Init
<1>3. page \in [items : SUBSET Position, next : Position, has_more : BOOLEAN]
  BY StreamAssumption DEF Init, EmptyPage, Position
<1>4. active \in BOOLEAN /\ cleared \in BOOLEAN
  BY DEF Init
<1>5. received \in Seq(Position)
  BY DEF Init
<1>6. /\ position \in Position /\ auth_left \in 0..Recheck
      /\ elapsed \in 0..Recheck
      /\ inactive_for \in 0..Recheck /\ running_for \in 0..Recheck
  BY StreamAssumption DEF Init, Position
<1> QED
  BY <1>1, <1>2, <1>3, <1>4, <1>5, <1>6 DEF Init, TypeOK, Running

(* The log and the client are typed after every step.                      *)
LEMMA NextTyped == TypeOK /\ [Next]_vars => TypeOK'
<1> SUFFICES ASSUME TypeOK, [Next]_vars PROVE TypeOK'
  OBVIOUS
<1> USE StreamAssumption
<1>a. Position \subseteq Nat /\ 0 \in Position /\ Len(log) \in Position
  BY DEF TypeOK, Position, Store!LogTypeOK
<1>b. wire \in Seq(StreamEvent)
  BY DEF TypeOK
<1>1. ASSUME NEW p \in Payload, AppendObservation(p) PROVE TypeOK'
  <2>1. log' \in Seq(Payload) /\ Len(log') <= MaxLog
    <3>1. log \in Seq(Payload) /\ log' = Append(log, p)
      BY <1>1 DEF TypeOK, AppendObservation, Store!AppendObservation, Store!LogTypeOK
    <3> QED BY <1>1, <3>1, AppendElements DEF AppendObservation
  <2> QED
    BY <2>1, <1>1
       DEF AppendObservation, TypeOK, Store!LogTypeOK, server, clock, client
<1>2. CASE Deactivate
  <2>1. active' \in BOOLEAN
    BY <1>2 DEF Deactivate
  <2>2. inactive_for' \in 0..Recheck
    BY <1>2 DEF Deactivate
  <2> QED
    BY <1>2, <2>1, <2>2 DEF Deactivate, TypeOK, Store!LogTypeOK, server, client
<1>3. CASE Reactivate
  BY <1>3 DEF Reactivate, TypeOK, Store!LogTypeOK, server, client
<1>4. CASE Tick
  BY <1>4 DEF Tick, Later, TypeOK, Store!LogTypeOK, server, client
<1>5. CASE Connect
  BY <1>5 DEF Connect, TypeOK, Store!LogTypeOK, clock, client
<1>6. ASSUME NEW start \in {"earliest", "latest"}, Preflight(start) PROVE TypeOK'
  BY <1>6, <1>a DEF Preflight, TypeOK, Store!LogTypeOK, clock, client
<1>7. CASE EmitReady
  <2>1. wire' \in Seq(StreamEvent) /\ Len(wire') <= Buffer
    BY <1>7, SendTyped DEF EmitReady, StreamEvent, EventType, TypeOK
  <2> QED
    BY <1>7, <2>1 DEF EmitReady, TypeOK, Store!LogTypeOK, client, Running
<1>8. CASE BeginCheck
  BY <1>8
     DEF BeginCheck, AsksFirst, TypeOK, Store!LogTypeOK, client, Running
<1>9. CASE CheckPasses
  BY <1>9 DEF CheckPasses, TypeOK, Store!LogTypeOK, client, Running
<1>10. CASE CheckDenies
  <2>1. wire' \in Seq(StreamEvent) /\ Len(wire') <= Buffer
    BY <1>10, SendTyped DEF CheckDenies, StreamEvent, EventType, TypeOK
  <2> QED
    BY <1>10, <2>1 DEF CheckDenies, TypeOK, Store!LogTypeOK, client, clock
<1>11. CASE CheckFails
  <2>1. wire' \in Seq(StreamEvent) /\ Len(wire') <= Buffer
    BY <1>11, SendTyped DEF CheckFails, StreamEvent, EventType, TypeOK
  <2> QED
    BY <1>11, <2>1 DEF CheckFails, TypeOK, Store!LogTypeOK, client, clock
<1>12. CASE Scan
  <2>1. page' \in [items : SUBSET Position, next : Position, has_more : BOOLEAN]
    <3>1. {n \in Scanned : InScope(n)} \subseteq Position
      BY <1>a DEF Scanned, Position, TypeOK, Store!LogTypeOK
    <3>2. (IF position + ScanLimit < Len(log) THEN position + ScanLimit
                                              ELSE Len(log)) \in Position
      BY <1>a DEF Position, TypeOK
    <3> QED BY <1>12, <3>1, <3>2 DEF Scan
  <2> QED
    BY <1>12, <2>1 DEF Scan, TypeOK, Store!LogTypeOK, clock, client, Running
<1>13. CASE ScanFails
  <2>1. wire' \in Seq(StreamEvent) /\ Len(wire') <= Buffer
    BY <1>13, SendTyped DEF ScanFails, StreamEvent, EventType, TypeOK
  <2> QED
    BY <1>13, <2>1 DEF ScanFails, TypeOK, Store!LogTypeOK, client, clock
<1>14. CASE EmitObservation
  <2>1. PICK n \in page.items :
            /\ wire' = Append(wire, Event("observation", n, n))
            /\ position' = n
            /\ page' = [page EXCEPT !.items = @ \ {n}]
    BY <1>14 DEF EmitObservation
  <2>2. n \in Position
    BY <2>1 DEF TypeOK
  <2>3. Event("observation", n, n) \in StreamEvent
    BY <2>2 DEF Event, StreamEvent, EventType
  <2>4. wire' \in Seq(StreamEvent) /\ Len(wire') <= Buffer
    BY <1>14, <1>b, <2>1, <2>3, AppendElements DEF EmitObservation, HasRoom
  <2>5. page' \in [items : SUBSET Position, next : Position, has_more : BOOLEAN]
    BY <2>1 DEF TypeOK
  <2> QED
    BY <1>14, <2>1, <2>2, <2>4, <2>5
       DEF EmitObservation, TypeOK, Store!LogTypeOK, clock, client
<1>15. CASE EmitCheckpoint
  <2>1. page.next \in Position
    BY DEF TypeOK
  <2>2. wire' \in Seq(StreamEvent) /\ Len(wire') <= Buffer
    BY <1>15, <2>1, SendTyped DEF EmitCheckpoint, StreamEvent, EventType
  <2> QED
    BY <1>15, <2>1, <2>2
       DEF EmitCheckpoint, TypeOK, Store!LogTypeOK, clock, client
<1>16. CASE FinishPage
  BY <1>16, <1>a
     DEF FinishPage, EmptyPage, TypeOK, Store!LogTypeOK, clock, client, Running
<1>17. CASE Heartbeat
  <2>1. wire' \in Seq(StreamEvent) /\ Len(wire') <= Buffer
    BY <1>17, SendTyped DEF Heartbeat, StreamEvent, EventType, TypeOK
  <2> QED
    BY <1>17, <2>1
       DEF Heartbeat, TypeOK, Store!LogTypeOK, client, clock, Running
<1>18. CASE NoHeartbeatDue
  BY <1>18 DEF NoHeartbeatDue, TypeOK, Store!LogTypeOK, clock, client, Running
<1>19. CASE WakeUp
  BY <1>19 DEF WakeUp, TypeOK, Store!LogTypeOK, clock, client, Running
<1>20. CASE Receive
  <2>1. /\ wire' \in Seq(StreamEvent) /\ Len(wire') <= Buffer
        /\ Head(wire) \in StreamEvent
    BY <1>20, <1>b, TailElements DEF Receive, TypeOK
  <2>2. cursor' \in Position \cup {NoCursor} /\ origin' \in Position \cup {NoCursor}
    BY <1>20, <2>1 DEF Receive, TypeOK, StreamEvent
  <2>3. received' \in Seq(Position)
    BY <1>20, <2>1 DEF Receive, TypeOK, StreamEvent
  <2> QED
    BY <1>20, <2>1, <2>2, <2>3
       DEF Receive, TypeOK, Store!LogTypeOK, server, clock
<1>21. CASE Hangup
  <2>1. cleared' \in BOOLEAN
    BY <1>21 DEF Hangup
  <2>2. wire' \in Seq(StreamEvent) /\ Len(wire') <= Buffer
    BY <1>21 DEF Hangup
  <2>3. page' \in [items : SUBSET Position, next : Position, has_more : BOOLEAN]
    BY <1>21, <1>a DEF Hangup, EmptyPage
  <2> QED
    BY <1>21, <1>a, <2>1, <2>2, <2>3 DEF Hangup, TypeOK, Store!LogTypeOK, client
<1>22. CASE UNCHANGED vars
  BY <1>22 DEF vars, TypeOK, Store!LogTypeOK, server, clock, client
<1> QED
  BY <1>1, <1>2, <1>3, <1>4, <1>5, <1>6, <1>7, <1>8, <1>9, <1>10, <1>11, <1>12,
     <1>13, <1>14, <1>15, <1>16, <1>17, <1>18, <1>19, <1>20, <1>21, <1>22
     DEF Next, Serve, Breaks, Disconnect, StreamOver

(* Type correctness of the stream.                                         *)
THEOREM TypeCorrect == Spec => []TypeOK
<1> QED BY InitTyped, NextTyped, PTL DEF Spec

-----------------------------------------------------------------------------
(* Revocation.                                                             *)

LEMMA InitDeadline == Init => Deadline
BY StreamAssumption DEF Init, Deadline, Running

(* The deadline is set by the start of the coroutine, when running_for is  *)
(* zero, and by a successful check, when the principal is active; after    *)
(* that each tick takes from it what it adds to the histories.             *)
LEMMA NextDeadline == TypeOK /\ Deadline /\ [Next]_vars => Deadline'
<1> SUFFICES ASSUME TypeOK, Deadline, [Next]_vars PROVE Deadline'
  OBVIOUS
<1> USE StreamAssumption DEF Deadline, Running
<1>a. /\ auth_left \in Nat /\ elapsed \in 0..Recheck
      /\ inactive_for \in 0..Recheck /\ running_for \in 0..Recheck
      /\ auth_left <= Recheck /\ Recheck \in Nat
      /\ resume_at \in {"scan", "page", "idle"}
  BY DEF TypeOK
<1>1. ASSUME NEW p \in Payload, AppendObservation(p) PROVE Deadline'
  BY <1>1 DEF AppendObservation, server, clock
<1>2. CASE Deactivate
  <2>1. inactive_for' = 0 /\ ~active'
    BY <1>2 DEF Deactivate
  <2>2. UNCHANGED << pc, cleared, auth_left, running_for >>
    BY <1>2 DEF Deactivate, server
  <2> QED BY <2>1, <2>2, <1>a
<1>3. CASE Reactivate
  <2>1. inactive_for' = 0
    BY <1>3 DEF Reactivate
  <2>2. UNCHANGED << pc, cleared, auth_left, running_for >>
    BY <1>3 DEF Reactivate, server
  <2> QED BY <2>1, <2>2, <1>a
<1>4. CASE Tick
  <2>1. /\ ~cleared' /\ UNCHANGED << pc, active >>
    BY <1>4 DEF Tick, server
  <2>2. active' => inactive_for' = 0
    BY <1>4, <2>1 DEF Tick
  <2>3. ASSUME pc' \in Running
        PROVE  \/ inactive_for' + auth_left' <= Recheck
               \/ running_for' + auth_left' <= Recheck
    <3>1. pc \in Running
      BY <2>1, <2>3
    <3>2. /\ auth_left' = IF auth_left > 0 THEN auth_left - 1 ELSE 0
          /\ inactive_for' = IF active THEN 0 ELSE Later(inactive_for)
          /\ running_for' = Later(running_for)
      BY <1>4 DEF Tick
    <3>a. ASSUME NEW t \in 0..Recheck
          PROVE  Later(t) \in Nat /\ Later(t) <= t + 1 /\ Later(t) <= Recheck
      BY DEF Later
    <3>b. /\ inactive_for' \in Nat /\ running_for' \in Nat
          /\ inactive_for' <= inactive_for + 1 /\ inactive_for' <= Recheck
          /\ running_for' <= running_for + 1
      BY <3>2, <3>a, <1>a
    <3>c. PICK i \in Nat, r \in Nat, a \in Nat :
              i = inactive_for' /\ r = running_for' /\ a = auth_left'
      BY <3>b, <3>2, <1>a
    <3>3. CASE auth_left > 0
      <4>1. a = auth_left - 1
        BY <3>2, <3>3, <3>c
      <4>2. i <= inactive_for + 1 /\ r <= running_for + 1
        BY <3>b, <3>c
      <4>3. i + a <= Recheck \/ r + a <= Recheck
        BY <3>1, <4>1, <4>2, <1>a
      <4> QED BY <4>3, <3>c
    <3>4. CASE auth_left = 0
      <4>1. a = 0 /\ i <= Recheck
        BY <3>2, <3>4, <3>b, <3>c
      <4>2. i + a <= Recheck
        BY <4>1, <1>a
      <4> QED BY <4>2, <3>c
    <3> QED BY <3>3, <3>4, <1>a
  <2> QED BY <2>1, <2>2, <2>3
<1>5. CASE Connect
  BY <1>5 DEF Connect, clock
<1>6. ASSUME NEW start \in {"earliest", "latest"}, Preflight(start)
      PROVE  Deadline'
  BY <1>6 DEF Preflight, clock
<1>7. CASE EmitReady
  <2>1. pc = "ready" /\ UNCHANGED << active, cleared, inactive_for >>
    BY <1>7 DEF EmitReady
  <2>2. auth_left' = Recheck /\ running_for' = 0 /\ pc' = "scan"
    BY <1>7 DEF EmitReady
  <2> QED BY <2>1, <2>2, <1>a
<1>8. CASE BeginCheck
  <2>1. ~cleared' /\ pc \in Running /\ pc' = "checking"
    BY <1>8 DEF BeginCheck, AsksFirst, Permitted
  <2>2. UNCHANGED << active, inactive_for, running_for, auth_left >>
    BY <1>8 DEF BeginCheck
  <2> QED BY <2>1, <2>2
<1>9. CASE CheckPasses
  <2>1. /\ active /\ inactive_for' = 0 /\ auth_left' = Recheck - elapsed
        /\ pc' \in {"scan", "page", "idle"}
    BY <1>9, <1>a DEF CheckPasses
  <2> QED BY <2>1, <1>a
<1>10. CASE CheckDenies
  BY <1>10 DEF CheckDenies, clock
<1>11. CASE CheckFails
  BY <1>11 DEF CheckFails, clock
<1>12. CASE Scan \/ EmitObservation \/ EmitCheckpoint
  BY <1>12 DEF Scan, EmitObservation, EmitCheckpoint, clock
<1>13. CASE ScanFails
  BY <1>13 DEF ScanFails, clock
<1>14. CASE FinishPage \/ Heartbeat \/ NoHeartbeatDue \/ WakeUp
  BY <1>14 DEF FinishPage, Heartbeat, NoHeartbeatDue, WakeUp, clock
<1>15. CASE Receive
  BY <1>15 DEF Receive, server, clock
<1>16. CASE Hangup
  BY <1>16 DEF Hangup
<1>17. CASE UNCHANGED vars
  BY <1>17 DEF vars, server, clock
<1> QED
  BY <1>1, <1>2, <1>3, <1>4, <1>5, <1>6, <1>7, <1>8, <1>9, <1>10, <1>11, <1>12,
     <1>13, <1>14, <1>15, <1>16, <1>17
     DEF Next, Serve, Breaks, Disconnect, StreamOver

(* No event is sent a whole interval after the principal became inactive.  *)
THEOREM RevocationIsPrompt == Spec => PromptRevocation
<1> DEFINE Prompt ==
      Len(wire') > Len(wire)
      /\ wire'[Len(wire')].type \in {"observation", "checkpoint", "comment"}
          => inactive_for < Recheck \/ running_for < Recheck
<1>1. ASSUME TypeOK, Deadline, [Next]_vars PROVE [Prompt]_vars
  <2> SUFFICES ASSUME Next,
                      Len(wire') > Len(wire),
                      wire'[Len(wire')].type \in
                          {"observation", "checkpoint", "comment"}
               PROVE  inactive_for < Recheck \/ running_for < Recheck
    BY <1>1
  <2>a. wire \in Seq(StreamEvent) /\ Len(wire) \in Nat
    BY <1>1 DEF TypeOK
  <2>b. ASSUME NEW type \in EventType, Send(type, NoCursor)
        PROVE  wire'[Len(wire')].type = type
    <3>1. Event(type, NoCursor, NoCursor) \in StreamEvent \/ type = "observation"
      BY <2>b DEF Event, StreamEvent
    <3> QED BY <2>a, <2>b, AppendElements DEF Send, Event
  <2>c. ASSUME pc \in Running, Permitted
        PROVE  inactive_for < Recheck \/ running_for < Recheck
    <3>1. inactive_for \in Nat /\ running_for \in Nat /\ auth_left \in Nat
      BY <1>1 DEF TypeOK
    <3>2. CASE cleared
      BY <1>1, <3>1, <3>2, StreamAssumption DEF Deadline
    <3>3. CASE auth_left > 0
      BY <1>1, <2>c, <3>1, <3>3, StreamAssumption DEF Deadline
    <3> QED BY <2>c, <3>2, <3>3 DEF Permitted
  <2>1. CASE EmitObservation \/ EmitCheckpoint \/ Heartbeat
    <3>1. pc \in Running /\ Permitted
      BY <2>1 DEF EmitObservation, EmitCheckpoint, Heartbeat, Running
    <3> QED BY <2>c, <3>1
  <2>2. CASE EmitReady
    <3>1. wire'[Len(wire')].type = "ready"
      BY <2>2, <2>a, AppendElements DEF EmitReady, Send, Event
    <3> QED BY <3>1
  <2>3. CASE CheckDenies \/ CheckFails \/ ScanFails
    BY <2>3, <2>b DEF CheckDenies, CheckFails, ScanFails, EventType
  <2>4. CASE Receive
    BY <2>4, <2>a, TailElements DEF Receive
  <2>5. CASE Hangup
    BY <2>5, <2>a DEF Hangup
  <2>6. CASE wire' = wire
    BY <2>6
  <2> QED
    BY <2>1, <2>2, <2>3, <2>4, <2>5, <2>6
       DEF Next, Serve, Breaks, Disconnect, StreamOver, AppendObservation,
           Deactivate, Reactivate, Tick, Connect, Preflight, BeginCheck,
           CheckPasses, Scan, FinishPage, NoHeartbeatDue, WakeUp
<1> QED
  BY <1>1, InitTyped, NextTyped, InitDeadline, NextDeadline, PTL
     DEF Spec, PromptRevocation
-----------------------------------------------------------------------------
(* Delivery.  The parts of the invariant as operators of a log l, a wire w *)
(* and the position base where the wire continues.                         *)

OwnIn(l, m, n) == {k \in DOMAIN l : m < k /\ k <= n /\ l[k].scope = Scope}

Seqs(w, i) == {w[j].seq : j \in {k \in 1..i : w[k].type = "observation"}}

Carried(e) == IF e.type = "observation" THEN {e.seq} ELSE {}

\* e may follow a w that starts at base: it is exact and later than all of w.
Follows(l, w, base, e) ==
    /\ e.type = "observation" => e.id = e.seq /\ e.id # NoCursor
    /\ e.id # NoCursor =>
          /\ base <= e.id /\ e.id <= Len(l)
          /\ Seqs(w, Len(w)) \cup Carried(e) = OwnIn(l, base, e.id)
          /\ \A i \in DOMAIN w : w[i].id # NoCursor =>
                /\ w[i].id <= e.id
                /\ e.type = "observation" => w[i].id < e.id

WireIn(l, w, base) ==
    \A i \in DOMAIN w :
        /\ w[i].type = "observation" => w[i].id = w[i].seq /\ w[i].id # NoCursor
        /\ w[i].id # NoCursor =>
              /\ base <= w[i].id /\ w[i].id <= Len(l)
              /\ Seqs(w, i) = OwnIn(l, base, w[i].id)
              /\ \A j \in DOMAIN w :
                    i < j /\ w[j].id # NoCursor =>
                        /\ w[i].id <= w[j].id
                        /\ w[j].type = "observation" => w[i].id < w[j].id

SentIn(l, w, base, pos) ==
    /\ base <= pos /\ pos <= Len(l)
    /\ Seqs(w, Len(w)) = OwnIn(l, base, pos)
    /\ \A i \in DOMAIN w : w[i].id # NoCursor => w[i].id <= pos

LEMMA Parts ==
    /\ WireExact <=> WireIn(log, wire, Base)
    /\ PositionExact <=> (pc \in Running => SentIn(log, wire, Base, position))
    /\ \A m, n : Own(m, n) = OwnIn(log, m, n)
BY DEF WireExact, WireIn, PositionExact, SentIn, Observations, Seqs, Own, OwnIn,
       InScope

LEMMA PartsPrimed ==
    /\ WireExact' <=> WireIn(log', wire', Base')
    /\ PositionExact' <=>
          (pc' \in Running => SentIn(log', wire', Base', position'))
    /\ \A m, n : Own(m, n)' = OwnIn(log', m, n)
BY DEF WireExact, WireIn, PositionExact, SentIn, Observations, Seqs, Own, OwnIn,
       InScope

(* What the scope has up to a position does not change when the log grows. *)
LEMMA OwnGrows ==
    ASSUME NEW l \in Seq(Payload), NEW p \in Payload, NEW m, NEW n \in Nat,
           n <= Len(l)
    PROVE  OwnIn(Append(l, p), m, n) = OwnIn(l, m, n)
<1>1. /\ Len(Append(l, p)) = Len(l) + 1
      /\ \A i \in 1..Len(l) : Append(l, p)[i] = l[i]
      /\ DOMAIN l = 1..Len(l) /\ DOMAIN Append(l, p) = 1..(Len(l) + 1)
      /\ Len(l) \in Nat
  BY AppendElements
<1> QED BY <1>1 DEF OwnIn

(* It can be split at any position in between.                             *)
LEMMA OwnSplit ==
    ASSUME NEW l \in Seq(Payload), NEW m \in Nat, NEW n \in Nat, NEW q \in Nat,
           m <= n, n <= q
    PROVE  /\ OwnIn(l, m, q) = OwnIn(l, m, n) \cup OwnIn(l, n, q)
           /\ OwnIn(l, m, n) \cap OwnIn(l, n, q) = {}
<1>1. DOMAIN l \subseteq Nat
  OBVIOUS
<1> QED BY <1>1 DEF OwnIn

LEMMA OwnEmpty ==
    ASSUME NEW l \in Seq(Payload), NEW m \in Nat, NEW n \in Nat, n <= m
    PROVE  OwnIn(l, m, n) = {}
<1>1. DOMAIN l \subseteq Nat
  OBVIOUS
<1> QED BY <1>1 DEF OwnIn

(* The observations on a wire that one event has been appended to.         *)
LEMMA SeqsAppend ==
    ASSUME NEW w \in Seq(StreamEvent), NEW e \in StreamEvent
    PROVE  /\ \A i \in 0..Len(w) : Seqs(Append(w, e), i) = Seqs(w, i)
           /\ Seqs(Append(w, e), Len(w) + 1) = Seqs(w, Len(w)) \cup Carried(e)
<1>1. /\ Len(w) \in Nat
      /\ \A i \in 1..Len(w) : Append(w, e)[i] = w[i]
      /\ Append(w, e)[Len(w) + 1] = e
  BY AppendElements
<1>2. \A i \in 0..Len(w) : Seqs(Append(w, e), i) = Seqs(w, i)
  BY <1>1 DEF Seqs
<1>3. Seqs(Append(w, e), Len(w) + 1)
        = Seqs(Append(w, e), Len(w)) \cup Carried(e)
  BY <1>1 DEF Seqs, Carried
<1> QED BY <1>1, <1>2, <1>3

(* The observations on a wire whose first event has been taken.            *)
LEMMA SeqsTail ==
    ASSUME NEW w \in Seq(StreamEvent), w # << >>
    PROVE  /\ \A i \in 0..(Len(w) - 1) :
                 Seqs(w, i + 1) = Seqs(Tail(w), i) \cup Carried(w[1])
           /\ \A i \in 0..(Len(w) - 1) : \A k \in Seqs(Tail(w), i) :
                 \E j \in 2..Len(w) : w[j].type = "observation" /\ k = w[j].seq
<1>1. /\ Len(w) \in Nat \ {0}
      /\ \A i \in 1..(Len(w) - 1) : Tail(w)[i] = w[i + 1]
  BY TailElements
<1>2. ASSUME NEW i \in 0..(Len(w) - 1)
      PROVE  Seqs(w, i + 1) = Seqs(Tail(w), i) \cup Carried(w[1])
  <2>1. ASSUME NEW x \in Seqs(w, i + 1)
        PROVE  x \in Seqs(Tail(w), i) \cup Carried(w[1])
    <3>1. PICK j \in 1..(i + 1) : w[j].type = "observation" /\ x = w[j].seq
      BY <2>1 DEF Seqs
    <3>2. CASE j = 1
      BY <3>1, <3>2 DEF Carried
    <3>3. CASE j # 1
      <4>1. j - 1 \in 1..i /\ j - 1 \in 1..(Len(w) - 1) /\ (j - 1) + 1 = j
        BY <3>3, <1>1
      <4>2. Tail(w)[j - 1] = w[j]
        BY <4>1, <1>1
      <4> QED BY <3>1, <4>1, <4>2 DEF Seqs
    <3> QED BY <3>2, <3>3
  <2>2. ASSUME NEW x \in Seqs(Tail(w), i) PROVE x \in Seqs(w, i + 1)
    <3>1. PICK j \in 1..i : Tail(w)[j].type = "observation" /\ x = Tail(w)[j].seq
      BY <2>2 DEF Seqs
    <3>2. j + 1 \in 1..(i + 1) /\ Tail(w)[j] = w[j + 1]
      BY <1>1
    <3> QED BY <3>1, <3>2 DEF Seqs
  <2>3. Carried(w[1]) \subseteq Seqs(w, i + 1)
    <3>1. 1 \in 1..(i + 1)
      OBVIOUS
    <3> QED BY <3>1 DEF Carried, Seqs
  <2> QED BY <2>1, <2>2, <2>3
<1>3. ASSUME NEW i \in 0..(Len(w) - 1), NEW k \in Seqs(Tail(w), i)
      PROVE  \E j \in 2..Len(w) : w[j].type = "observation" /\ k = w[j].seq
  <2>1. PICK j \in 1..i : Tail(w)[j].type = "observation" /\ k = Tail(w)[j].seq
    BY <1>3 DEF Seqs
  <2>2. j + 1 \in 2..Len(w) /\ Tail(w)[j] = w[j + 1]
    BY <1>1
  <2> QED BY <2>1, <2>2
<1> QED BY <1>2, <1>3
LEMMA EventIds ==
    ASSUME NEW w \in Seq(StreamEvent), NEW i \in DOMAIN w
    PROVE  /\ w[i].id # NoCursor => w[i].id \in Nat
           /\ w[i].type = "observation" => w[i].seq \in Nat
BY StreamAssumption DEF StreamEvent, Position

(* An append to the log disturbs neither the wire nor what was sent.       *)
LEMMA WireKeptByLog ==
    ASSUME NEW l \in Seq(Payload), NEW p \in Payload,
           NEW w \in Seq(StreamEvent), NEW base, NEW pos \in Nat
    PROVE  /\ WireIn(l, w, base) => WireIn(Append(l, p), w, base)
           /\ SentIn(l, w, base, pos) => SentIn(Append(l, p), w, base, pos)
<1>1. Len(Append(l, p)) = Len(l) + 1 /\ Len(l) \in Nat
  BY AppendElements
<1>2. ASSUME WireIn(l, w, base) PROVE WireIn(Append(l, p), w, base)
  <2>1. ASSUME NEW i \in DOMAIN w, w[i].id # NoCursor
        PROVE  /\ w[i].id <= Len(Append(l, p))
               /\ OwnIn(Append(l, p), base, w[i].id) = OwnIn(l, base, w[i].id)
    <3>1. w[i].id \in Nat /\ w[i].id <= Len(l)
      BY <1>2, <2>1, EventIds DEF WireIn
    <3> QED BY <3>1, <1>1, OwnGrows
  <2> QED BY <1>2, <2>1 DEF WireIn
<1>3. ASSUME SentIn(l, w, base, pos) PROVE SentIn(Append(l, p), w, base, pos)
  <2>1. OwnIn(Append(l, p), base, pos) = OwnIn(l, base, pos)
    BY <1>3, OwnGrows DEF SentIn
  <2> QED BY <1>1, <1>3, <2>1 DEF SentIn
<1> QED BY <1>2, <1>3

(* Sending an event that may follow keeps the wire exact.                  *)
LEMMA WireAppend ==
    ASSUME NEW l \in Seq(Payload), NEW w \in Seq(StreamEvent),
           NEW base, NEW e \in StreamEvent,
           WireIn(l, w, base), Follows(l, w, base, e)
    PROVE  WireIn(l, Append(w, e), base)
<1> DEFINE v == Append(w, e)
<1>1. /\ v \in Seq(StreamEvent) /\ Len(w) \in Nat /\ Len(v) = Len(w) + 1
      /\ \A i \in 1..Len(w) : v[i] = w[i]
      /\ v[Len(w) + 1] = e
      /\ DOMAIN v = 1..(Len(w) + 1) /\ DOMAIN w = 1..Len(w)
  BY AppendElements
<1> HIDE DEF v
<1>2. /\ \A i \in 1..Len(w) : Seqs(v, i) = Seqs(w, i)
      /\ Seqs(v, Len(w) + 1) = Seqs(w, Len(w)) \cup Carried(e)
  BY SeqsAppend, <1>1 DEF v
<1>3. ASSUME NEW i \in 1..Len(w)
      PROVE  /\ v[i].type = "observation" => v[i].id = v[i].seq /\ v[i].id # NoCursor
             /\ v[i].id # NoCursor =>
                   /\ base <= v[i].id /\ v[i].id <= Len(l)
                   /\ Seqs(v, i) = OwnIn(l, base, v[i].id)
                   /\ \A j \in DOMAIN v :
                         i < j /\ v[j].id # NoCursor =>
                             /\ v[i].id <= v[j].id
                             /\ v[j].type = "observation" => v[i].id < v[j].id
  <2>1. v[i] = w[i] /\ i \in DOMAIN w
    BY <1>1
  <2>2. ASSUME v[i].id # NoCursor, NEW j \in DOMAIN v, i < j, v[j].id # NoCursor
        PROVE  /\ v[i].id <= v[j].id
               /\ v[j].type = "observation" => v[i].id < v[j].id
    <3>1. CASE j \in 1..Len(w)
      BY <1>1, <2>1, <2>2, <3>1 DEF WireIn
    <3>2. CASE j = Len(w) + 1
      BY <1>1, <2>1, <2>2, <3>2 DEF Follows
    <3> QED BY <1>1, <3>1, <3>2
  <2> QED BY <1>2, <2>1, <2>2 DEF WireIn
<1>4. ASSUME NEW i \in DOMAIN v, i = Len(w) + 1
      PROVE  /\ v[i].type = "observation" => v[i].id = v[i].seq /\ v[i].id # NoCursor
             /\ v[i].id # NoCursor =>
                   /\ base <= v[i].id /\ v[i].id <= Len(l)
                   /\ Seqs(v, i) = OwnIn(l, base, v[i].id)
                   /\ \A j \in DOMAIN v :
                         i < j /\ v[j].id # NoCursor =>
                             /\ v[i].id <= v[j].id
                             /\ v[j].type = "observation" => v[i].id < v[j].id
  <2>1. v[i] = e /\ Seqs(v, i) = Seqs(w, Len(w)) \cup Carried(e)
    BY <1>1, <1>2, <1>4
  <2>2. \A j \in DOMAIN v : ~(i < j)
    BY <1>1, <1>4
  <2> QED BY <2>1, <2>2 DEF Follows
<1>5. WireIn(l, v, base)
  BY <1>1, <1>3, <1>4 DEF WireIn
<1> QED BY <1>5 DEF v

(* Where the rest of a wire continues once its first event is taken.       *)
Continuation(w, base) == IF w[1].id # NoCursor THEN w[1].id ELSE base

(* What the first event carries is the scope up to it; the rest is exact.  *)
LEMMA WireTail ==
    ASSUME NEW l \in Seq(Payload), NEW w \in Seq(StreamEvent), w # << >>,
           NEW base \in Nat, NEW pos \in Nat, WireIn(l, w, base)
    PROVE  /\ Continuation(w, base) \in Nat /\ base <= Continuation(w, base)
           /\ w[1].id # NoCursor => Continuation(w, base) <= Len(l)
           /\ Carried(w[1]) = OwnIn(l, base, Continuation(w, base))
           /\ WireIn(l, Tail(w), Continuation(w, base))
           /\ SentIn(l, w, base, pos) => SentIn(l, Tail(w), Continuation(w, base), pos)
<1> DEFINE v == Tail(w)
           nb == Continuation(w, base)
<1>1. /\ v \in Seq(StreamEvent) /\ Len(w) \in Nat \ {0} /\ Len(v) = Len(w) - 1
      /\ \A i \in 1..(Len(w) - 1) : v[i] = w[i + 1]
      /\ DOMAIN v = 1..(Len(w) - 1) /\ DOMAIN w = 1..Len(w)
      /\ 1 \in DOMAIN w
  BY TailElements
<1>2. /\ \A i \in 0..(Len(w) - 1) : Seqs(w, i + 1) = Seqs(v, i) \cup Carried(w[1])
      /\ \A i \in 0..(Len(w) - 1) : \A k \in Seqs(v, i) :
            \E j \in 2..Len(w) : w[j].type = "observation" /\ k = w[j].seq
  BY SeqsTail
<1>3. Seqs(v, 0) = {} /\ Seqs(w, 1) = Carried(w[1])
  <2>1. Seqs(v, 0) = {}
    BY DEF Seqs
  <2>2. 0 \in 0..(Len(w) - 1) /\ 0 + 1 = 1
    BY <1>1
  <2> QED BY <2>1, <2>2, <1>2
<1>4. nb \in Nat /\ base <= nb /\ (w[1].id # NoCursor => nb <= Len(l))
  BY <1>1, EventIds DEF WireIn, Continuation
<1>5. Carried(w[1]) = OwnIn(l, base, nb)
  <2>1. CASE w[1].id # NoCursor
    BY <2>1, <1>1, <1>3 DEF WireIn, Continuation
  <2>2. CASE w[1].id = NoCursor
    <3>1. Carried(w[1]) = {} /\ nb = base
      BY <2>2, <1>1 DEF WireIn, Carried, Continuation
    <3> QED BY <3>1, OwnEmpty
  <2> QED BY <2>1, <2>2
<1>6. ASSUME NEW i \in 0..(Len(w) - 1)
      PROVE  Seqs(v, i) \cap Carried(w[1]) = {}
  <2> SUFFICES ASSUME NEW k \in Seqs(v, i), w[1].type = "observation", k = w[1].seq
               PROVE  FALSE
    BY DEF Carried
  <2>1. PICK j \in 2..Len(w) : w[j].type = "observation" /\ k = w[j].seq
    BY <1>2
  <2>a. j \in DOMAIN w /\ 1 < j
    BY <1>1, <2>1
  <2>b. \A n \in DOMAIN w : w[n].type = "observation" =>
            w[n].id = w[n].seq /\ w[n].id # NoCursor
    BY DEF WireIn
  <2>2. /\ j \in DOMAIN w /\ 1 < j
        /\ w[1].id = k /\ w[1].id # NoCursor /\ w[j].id = k /\ w[j].id # NoCursor
    BY <1>1, <2>1, <2>a, <2>b
  <2>3. w[1].id < w[j].id /\ w[1].id \in Nat
    BY <1>1, <2>1, <2>2, EventIds DEF WireIn
  <2> QED BY <2>2, <2>3
(* The observations of the rest, up to a position that is not before it.   *)
<1>7. ASSUME NEW i \in 0..(Len(w) - 1), NEW q \in Nat, nb <= q,
             Seqs(w, i + 1) = OwnIn(l, base, q)
      PROVE  Seqs(v, i) = OwnIn(l, nb, q)
  <2>1. /\ OwnIn(l, base, q) = OwnIn(l, base, nb) \cup OwnIn(l, nb, q)
        /\ OwnIn(l, base, nb) \cap OwnIn(l, nb, q) = {}
    BY <1>4, <1>7, OwnSplit
  <2>2. Seqs(v, i) \cup Carried(w[1]) = OwnIn(l, base, q)
    BY <1>2, <1>7
  <2> QED BY <2>1, <2>2, <1>5, <1>6
<1> HIDE DEF v, nb
<1>8. WireIn(l, v, nb)
  <2> SUFFICES ASSUME NEW i \in DOMAIN v
      PROVE  /\ v[i].type = "observation" => v[i].id = v[i].seq /\ v[i].id # NoCursor
             /\ v[i].id # NoCursor =>
                   /\ nb <= v[i].id /\ v[i].id <= Len(l)
                   /\ Seqs(v, i) = OwnIn(l, nb, v[i].id)
                   /\ \A j \in DOMAIN v :
                         i < j /\ v[j].id # NoCursor =>
                             /\ v[i].id <= v[j].id
                             /\ v[j].type = "observation" => v[i].id < v[j].id
    BY DEF WireIn
  <2>1. /\ v[i] = w[i + 1] /\ i + 1 \in DOMAIN w /\ i \in 0..(Len(w) - 1)
        /\ 1 < i + 1
    BY <1>1
  <2>2. v[i].type = "observation" => v[i].id = v[i].seq /\ v[i].id # NoCursor
    BY <2>1 DEF WireIn
  <2>3. ASSUME v[i].id # NoCursor
        PROVE  /\ nb <= v[i].id /\ v[i].id <= Len(l)
               /\ Seqs(v, i) = OwnIn(l, nb, v[i].id)
    <3>1. /\ v[i].id \in Nat /\ base <= v[i].id /\ v[i].id <= Len(l)
          /\ Seqs(w, i + 1) = OwnIn(l, base, v[i].id)
      BY <2>1, <2>3, EventIds DEF WireIn
    <3>2. nb <= v[i].id
      BY <1>1, <2>1, <2>3, <3>1 DEF WireIn, nb, Continuation
    <3> QED BY <1>7, <2>1, <3>1, <3>2
  <2>4. ASSUME v[i].id # NoCursor, NEW j \in DOMAIN v, i < j, v[j].id # NoCursor
        PROVE  /\ v[i].id <= v[j].id
               /\ v[j].type = "observation" => v[i].id < v[j].id
    <3>1. v[j] = w[j + 1] /\ j + 1 \in DOMAIN w /\ i + 1 < j + 1
      BY <1>1, <2>4
    <3> QED BY <2>1, <2>4, <3>1 DEF WireIn
  <2> QED BY <2>2, <2>3, <2>4
<1>9. ASSUME SentIn(l, w, base, pos) PROVE SentIn(l, v, nb, pos)
  <2>1. nb <= pos
    BY <1>1, <1>9 DEF SentIn, nb, Continuation
  <2>2. Len(w) - 1 \in 0..(Len(w) - 1) /\ (Len(w) - 1) + 1 = Len(w)
    BY <1>1
  <2>3. Seqs(v, Len(v)) = OwnIn(l, nb, pos)
    BY <1>1, <1>7, <1>9, <2>1, <2>2 DEF SentIn
  <2>4. ASSUME NEW i \in DOMAIN v, v[i].id # NoCursor PROVE v[i].id <= pos
    <3>1. v[i] = w[i + 1] /\ i + 1 \in DOMAIN w
      BY <1>1
    <3> QED BY <1>9, <2>4, <3>1 DEF SentIn
  <2> QED BY <1>9, <2>1, <2>3, <2>4 DEF SentIn
<1> QED BY <1>4, <1>5, <1>8, <1>9 DEF v, nb
-----------------------------------------------------------------------------
(* The steps.                                                              *)

LEMMA BaseTyped ==
    ASSUME TypeOK, Base # NoCursor PROVE Base \in Nat
<1>1. CASE wire # << >> /\ wire[1].type = "ready"
  <2>1. wire \in Seq(StreamEvent) /\ 1 \in DOMAIN wire
    BY <1>1, TailElements DEF TypeOK
  <2> QED BY <1>1, <2>1, EventIds DEF Base
<1>2. CASE ~(wire # << >> /\ wire[1].type = "ready")
  BY <1>2, StreamAssumption DEF Base, TypeOK, Position
<1> QED BY <1>1, <1>2

(* Whatever follows the first ready event leaves the wire exact and the    *)
(* position where it continues unchanged.                                  *)
LEMMA SendKeeps ==
    ASSUME TypeOK, StartShape, WireExact, Base # NoCursor,
           NEW e \in StreamEvent, e.type # "ready",
           wire' = Append(wire, e), UNCHANGED << log, cursor >>,
           Follows(log, wire, Base, e)
    PROVE  /\ Base' = Base /\ WireExact'
           /\ \A i \in DOMAIN wire' : wire'[i].type = "ready" => i = 1
           /\ wire' # << >> /\ wire'[1].type = "ready" =>
                 /\ wire'[1].id # NoCursor
                 /\ cursor' # NoCursor => wire'[1].id = cursor'
           /\ Seqs(wire', Len(wire')) = Seqs(wire, Len(wire)) \cup Carried(e)
           /\ \A i \in DOMAIN wire' :
                 (i \in DOMAIN wire /\ wire'[i] = wire[i]) \/ wire'[i] = e
<1>1. /\ wire \in Seq(StreamEvent) /\ Len(wire) \in Nat
      /\ \A i \in 1..Len(wire) : wire'[i] = wire[i]
      /\ wire'[Len(wire) + 1] = e /\ Len(wire') = Len(wire) + 1
      /\ DOMAIN wire' = 1..(Len(wire) + 1) /\ DOMAIN wire = 1..Len(wire)
      /\ wire' # << >>
  BY AppendElements DEF TypeOK
<1>2. \A i \in DOMAIN wire' :
         (i \in DOMAIN wire /\ wire'[i] = wire[i]) \/ wire'[i] = e
  BY <1>1
<1>3. \A i \in DOMAIN wire' : wire'[i].type = "ready" => i = 1
  BY <1>2 DEF StartShape
<1>4. /\ Base' = Base
      /\ wire'[1].type = "ready" =>
            wire'[1].id # NoCursor /\ (cursor' # NoCursor => wire'[1].id = cursor')
  <2>1. CASE wire = << >>
    <3>1. wire'[1] = e
      BY <1>1, <2>1
    <3>2. Base' = cursor /\ Base = cursor
      BY <2>1, <3>1 DEF Base
    <3> QED BY <3>1, <3>2
  <2>2. CASE wire # << >>
    <3>1. 1 \in 1..Len(wire) /\ wire'[1] = wire[1]
      BY <1>1, <2>2, TailElements
    <3>2. Base' = Base
      BY <1>1, <2>2, <3>1 DEF Base
    <3> QED BY <2>2, <3>1, <3>2 DEF StartShape
  <2> QED BY <2>1, <2>2
<1>5. WireIn(log, Append(wire, e), Base)
  BY <1>1, WireAppend, Parts DEF TypeOK, Store!LogTypeOK
<1>6. WireExact'
  BY <1>4, <1>5, PartsPrimed
<1>7. Seqs(wire', Len(wire')) = Seqs(wire, Len(wire)) \cup Carried(e)
  BY <1>1, SeqsAppend
<1> QED BY <1>2, <1>3, <1>4, <1>6, <1>7

(* Events without an id: stream_closed, stream_error and the heartbeat.    *)
LEMMA SendBareKeeps ==
    ASSUME TypeOK, Delivery, pc \in Running, pc' \in Running \cup {"ended"},
           NEW type \in {"closed", "error", "comment"}, Send(type, NoCursor),
           UNCHANGED << log, position, page, client >>
    PROVE  Delivery'
<1> DEFINE e == Event(type, NoCursor, NoCursor)
<1>1. /\ e \in StreamEvent /\ e.type # "ready" /\ Carried(e) = {}
      /\ e.id = NoCursor /\ wire' = Append(wire, e)
      /\ Follows(log, wire, Base, e)
  BY DEF Event, StreamEvent, EventType, Carried, Follows, Send
<1> HIDE DEF e
<1>2. Base # NoCursor
  BY DEF Delivery, StartShape
<1>3. /\ Base' = Base /\ WireExact'
      /\ \A i \in DOMAIN wire' : wire'[i].type = "ready" => i = 1
      /\ wire' # << >> /\ wire'[1].type = "ready" =>
            /\ wire'[1].id # NoCursor
            /\ cursor' # NoCursor => wire'[1].id = cursor'
      /\ Seqs(wire', Len(wire')) = Seqs(wire, Len(wire))
      /\ \A i \in DOMAIN wire' :
            (i \in DOMAIN wire /\ wire'[i] = wire[i]) \/ wire'[i] = e
  BY <1>1, <1>2, SendKeeps DEF Delivery, client
<1>4. StartShape'
  BY <1>2, <1>3 DEF StartShape, Running
<1>5. PositionExact'
  BY <1>1, <1>3, Parts, PartsPrimed DEF Delivery, SentIn
<1>6. PageExact' /\ ClientShape' /\ DeliveredExactly'
  BY DEF Delivery, PageExact, ClientShape, DeliveredExactly, Own, InScope, client
<1> QED BY <1>3, <1>4, <1>5, <1>6 DEF Delivery

(* A step that leaves the log, the wire and the client alone.              *)
LEMMA ServerKeeps ==
    ASSUME TypeOK, Delivery, UNCHANGED << log, wire, client >>
    PROVE  ClientShape' /\ DeliveredExactly' /\ WireExact' /\ Base' = Base
BY DEF Delivery, ClientShape, DeliveredExactly, WireExact, Base, Observations,
       Own, InScope, client
LEMMA AppendDelivery ==
    ASSUME TypeOK, Delivery, NEW p \in Payload, AppendObservation(p)
    PROVE  Delivery'
<1> USE StreamAssumption
<1>1. /\ log \in Seq(Payload) /\ log' = Append(log, p)
      /\ Len(log') = Len(log) + 1 /\ Len(log) \in Nat
      /\ UNCHANGED << pc, position, page, wire, cursor, origin, received >>
  BY AppendElements
     DEF AppendObservation, Store!AppendObservation, TypeOK, Store!LogTypeOK,
         server, client
<1>2. wire \in Seq(StreamEvent) /\ position \in Nat /\ page.next \in Nat
  BY DEF TypeOK, Position
<1>3. Base' = Base
  BY <1>1 DEF Base
<1>4. WireExact' /\ PositionExact'
  BY <1>1, <1>2, <1>3, WireKeptByLog, Parts, PartsPrimed DEF Delivery
<1>5. PageExact'
  <2>1. ASSUME pc \in Running PROVE Own(position, page.next)' = Own(position, page.next)
    <3>1. page.next <= Len(log)
      BY <2>1 DEF Delivery, PageExact
    <3>2. OwnIn(log', position, page.next) = OwnIn(log, position, page.next)
      BY <1>1, <1>2, <3>1, OwnGrows
    <3> QED BY <1>1, <3>2 DEF Own, OwnIn, InScope
  <2> QED BY <1>1, <1>2, <2>1 DEF Delivery, PageExact
<1>6. cursor # NoCursor => cursor \in Nat /\ cursor <= Len(log)
  BY DEF TypeOK, Position, Delivery, ClientShape
<1>7. ClientShape'
  BY <1>1, <1>6 DEF Delivery, ClientShape
<1>8. StartShape'
  <2>1. pc = "ready" => position <= Len(log')
    BY <1>1, <1>2 DEF Delivery, StartShape
  <2> QED BY <1>1, <1>3, <2>1 DEF Delivery, StartShape
<1>9. DeliveredExactly'
  <2>1. ASSUME cursor # NoCursor
        PROVE  Own(origin, cursor)' = Own(origin, cursor)
    <3>1. OwnIn(log', origin, cursor) = OwnIn(log, origin, cursor)
      BY <1>1, <1>6, <2>1, OwnGrows
    <3> QED BY <1>1, <3>1 DEF Own, OwnIn, InScope
  <2> QED BY <1>1, <2>1 DEF Delivery, DeliveredExactly
<1> QED BY <1>4, <1>5, <1>7, <1>8, <1>9 DEF Delivery

\* The coroutine moves without sending anything, on the same page.
LEMMA MoveDelivery ==
    ASSUME TypeOK, Delivery, UNCHANGED << log, wire, client >>,
           \/ UNCHANGED << pc, position, page >>
           \/ /\ pc \in Running /\ pc' \in Running
              /\ UNCHANGED << position, page >>
           \/ Connect
    PROVE  Delivery'
<1>1. ClientShape' /\ DeliveredExactly' /\ WireExact' /\ Base' = Base
  BY ServerKeeps
<1>2. /\ UNCHANGED << position, page >>
      /\ pc' = pc \/ (pc \in Running /\ pc' \in Running)
         \/ (pc = "off" /\ pc' = "preflight")
  BY DEF Connect
<1>3. pc' \in Running => pc \in Running
  BY <1>2 DEF Running
<1>4. PositionExact' /\ PageExact'
  BY <1>1, <1>2, <1>3 DEF Delivery, PositionExact, PageExact, Observations, Own,
                          InScope
<1>5. StartShape'
  BY <1>1, <1>2, <1>3 DEF Delivery, StartShape, Running, client
<1> QED BY <1>1, <1>4, <1>5 DEF Delivery

LEMMA PreflightDelivery ==
    ASSUME TypeOK, Delivery, NEW start \in {"earliest", "latest"}, Preflight(start)
    PROVE  Delivery'
<1>1. ClientShape' /\ DeliveredExactly' /\ WireExact' /\ Base' = Base
  BY ServerKeeps DEF Preflight
<1>2. /\ wire' = << >> /\ page' = EmptyPage
      /\ pc' \in {"rejected", "ready"} /\ pc' \notin Running
      /\ cursor' = cursor /\ log' = log
  BY DEF client, Preflight, Delivery, StartShape, Running
<1>3. pc' = "ready" => position' <= Len(log) /\ (cursor # NoCursor => position' = cursor)
  <2>1. Len(log) \in Nat
    BY DEF TypeOK, Store!LogTypeOK
  <2>2. cursor # NoCursor => cursor \in Nat
    BY DEF TypeOK, Position
  <2>3. pc' = "ready" => (cursor # NoCursor => ~(cursor > Len(log)))
    BY DEF Preflight
  <2> QED BY <2>1, <2>2, <2>3 DEF Preflight
<1>4. StartShape'
  <2>1. DOMAIN wire' = {}
    BY <1>2
  <2> QED BY <1>2, <1>3, <2>1 DEF StartShape
<1> QED BY <1>1, <1>2, <1>4 DEF Delivery, PositionExact, PageExact

LEMMA ReadyDelivery ==
    ASSUME TypeOK, Delivery, EmitReady
    PROVE  Delivery'
<1> USE StreamAssumption
<1> DEFINE e == Event("ready", position, NoCursor)
<1>1. /\ wire = << >> /\ wire' = << e >>
      /\ position \in Nat /\ position <= Len(log)
      /\ cursor # NoCursor => position = cursor
      /\ pc' = "scan"
      /\ UNCHANGED << log, position, page, cursor, origin, received >>
  BY DEF EmitReady, Delivery, StartShape, Send, TypeOK, Position, client
<1>2. /\ Len(wire') = 1 /\ DOMAIN wire' = {1} /\ wire'[1] = e /\ wire' # << >>
  BY <1>1
<1>3. e.id = position /\ e.type = "ready" /\ e.id # NoCursor
  BY <1>1 DEF Event
<1> HIDE DEF e
<1>4. Base' = position
  BY <1>2, <1>3 DEF Base
<1>5. Seqs(wire', 1) = {} /\ OwnIn(log, position, position) = {}
  BY <1>1, <1>2, <1>3, OwnEmpty DEF Seqs, TypeOK, Store!LogTypeOK
<1>6. WireIn(log', wire', Base')
  BY <1>1, <1>2, <1>3, <1>4, <1>5 DEF WireIn
<1>7. SentIn(log', wire', Base', position')
  BY <1>1, <1>2, <1>3, <1>4, <1>5 DEF SentIn
<1>8. StartShape'
  BY <1>1, <1>2, <1>3, <1>4 DEF StartShape
<1>9. WireExact' /\ PositionExact'
  BY <1>6, <1>7, PartsPrimed
<1>10. ClientShape' /\ DeliveredExactly'
  BY <1>1 DEF Delivery, ClientShape, DeliveredExactly, Own, InScope
<1>11. PageExact'
  <2>1. page = EmptyPage
    BY DEF Delivery, StartShape, EmitReady
  <2>2. page'.next = 0 /\ page'.items = {} /\ 0 <= Len(log')
    BY <1>1, <2>1 DEF EmptyPage, TypeOK, Store!LogTypeOK
  <2>3. OwnIn(log', position', 0) = {}
    BY <1>1, OwnEmpty DEF TypeOK, Store!LogTypeOK
  <2> QED BY <2>2, <2>3, PartsPrimed DEF PageExact
<1> QED BY <1>8, <1>9, <1>10, <1>11 DEF Delivery
LEMMA ScanDelivery ==
    ASSUME TypeOK, Delivery, Scan
    PROVE  Delivery'
<1> USE StreamAssumption
<1> DEFINE last == IF position + ScanLimit < Len(log) THEN position + ScanLimit
                                                      ELSE Len(log)
<1>1. ClientShape' /\ DeliveredExactly' /\ WireExact' /\ Base' = Base
  BY ServerKeeps DEF Scan
<1>2. /\ pc = "scan" /\ pc' = "page" /\ UNCHANGED << log, wire, position, cursor >>
      /\ page'.items = {n \in Scanned : InScope(n)} /\ page'.next = last
  BY DEF Scan, client
<1>3. position \in Nat /\ Len(log) \in Nat /\ DOMAIN log = 1..Len(log)
  BY DEF TypeOK, Position, Store!LogTypeOK
<1>4. {n \in Scanned : InScope(n)} = Own(position, last)
  BY <1>3 DEF Scanned, Own
<1>5. last <= Len(log)
  BY <1>3
<1> HIDE DEF last
<1>6. page'.items = OwnIn(log', position', page'.next)
  BY <1>2, <1>4, Parts
<1>7. PageExact'
  BY <1>2, <1>5, <1>6, PartsPrimed DEF PageExact
<1>8. PositionExact'
  BY <1>1, <1>2 DEF Delivery, PositionExact, Running, Observations, Own, InScope
<1>9. StartShape'
  BY <1>1, <1>2 DEF Delivery, StartShape, Running
<1> QED BY <1>1, <1>7, <1>8, <1>9 DEF Delivery

LEMMA FinishPageDelivery ==
    ASSUME TypeOK, Delivery, FinishPage
    PROVE  Delivery'
<1>1. ClientShape' /\ DeliveredExactly' /\ WireExact' /\ Base' = Base
  BY ServerKeeps DEF FinishPage
<1>2. /\ pc = "page" /\ pc' \in Running
      /\ UNCHANGED << log, wire, position, cursor >>
      /\ page'.items = {} /\ page'.next = 0
  BY DEF FinishPage, EmptyPage, client, Running
<1>3. position \in Nat /\ log \in Seq(Payload) /\ 0 <= Len(log)
  BY StreamAssumption DEF TypeOK, Position, Store!LogTypeOK
<1>4. OwnIn(log', position', 0) = {}
  BY <1>2, <1>3, OwnEmpty
<1>5. PageExact'
  BY <1>2, <1>3, <1>4, PartsPrimed DEF PageExact
<1>6. PositionExact'
  BY <1>1, <1>2 DEF Delivery, PositionExact, Running, Observations, Own, InScope
<1>7. StartShape'
  BY <1>1, <1>2 DEF Delivery, StartShape, Running
<1> QED BY <1>1, <1>5, <1>6, <1>7 DEF Delivery

\* An observation or a checkpoint: q is the new position and the event's id.
LEMMA ProgressDelivery ==
    ASSUME TypeOK, Delivery, pc = "page", pc' = "page",
           NEW e \in StreamEvent, NEW q \in Nat,
           e.type \in {"observation", "checkpoint"}, e.id = q,
           e.type = "observation" => e.seq = q,
           position <= q, e.type = "observation" => position < q,
           q <= page.next,
           Carried(e) = OwnIn(log, position, q),
           wire' = Append(wire, e), position' = q,
           page'.next = page.next, page'.items = page.items \ Carried(e),
           UNCHANGED << log, cursor, origin, received >>
    PROVE  Delivery'
<1> USE StreamAssumption
<1>1. /\ position \in Nat /\ page.next \in Nat /\ page.next <= Len(log)
      /\ log \in Seq(Payload) /\ Len(log) \in Nat
      /\ page.items = OwnIn(log, position, page.next)
  BY Parts DEF TypeOK, Position, Store!LogTypeOK, Delivery, PageExact, Running
<1>2. Base \in Nat /\ Base # NoCursor
  BY BaseTyped DEF Delivery, StartShape, Running
<1>3. SentIn(log, wire, Base, position)
  BY Parts DEF Delivery, Running
<1>4. q <= Len(log) /\ Base <= position /\ Base <= q
  BY <1>1, <1>2, <1>3 DEF SentIn
<1>5. OwnIn(log, Base, q) = OwnIn(log, Base, position) \cup OwnIn(log, position, q)
  BY <1>1, <1>2, <1>4, OwnSplit
<1>6. Seqs(wire, Len(wire)) \cup Carried(e) = OwnIn(log, Base, q)
  BY <1>3, <1>5 DEF SentIn
<1>7. \A i \in DOMAIN wire : wire[i].id # NoCursor =>
         wire[i].id <= q /\ (e.type = "observation" => wire[i].id < q)
  <2>1. wire \in Seq(StreamEvent)
    BY DEF TypeOK
  <2>2. ASSUME NEW i \in DOMAIN wire, wire[i].id # NoCursor
        PROVE  wire[i].id \in Nat /\ wire[i].id <= position
    BY <1>3, <2>1, <2>2, EventIds DEF SentIn
  <2> QED BY <1>1, <2>2
<1>8. Follows(log, wire, Base, e)
  BY <1>4, <1>6, <1>7 DEF Follows
<1>9. /\ Base' = Base /\ WireExact'
      /\ \A i \in DOMAIN wire' : wire'[i].type = "ready" => i = 1
      /\ wire' # << >> /\ wire'[1].type = "ready" =>
            /\ wire'[1].id # NoCursor
            /\ cursor' # NoCursor => wire'[1].id = cursor'
      /\ Seqs(wire', Len(wire')) = Seqs(wire, Len(wire)) \cup Carried(e)
      /\ \A i \in DOMAIN wire' :
            (i \in DOMAIN wire /\ wire'[i] = wire[i]) \/ wire'[i] = e
  BY <1>2, <1>8, SendKeeps DEF Delivery
<1>10. StartShape'
  BY <1>2, <1>9 DEF StartShape, Running
<1>11. SentIn(log', wire', Base', position')
  <2>1. \A i \in DOMAIN wire' : wire'[i].id # NoCursor => wire'[i].id <= q
    BY <1>7, <1>9
  <2> QED BY <1>4, <1>6, <1>9, <2>1 DEF SentIn
<1>12. PositionExact'
  BY <1>11, PartsPrimed
<1>13. PageExact'
  <2>1. /\ OwnIn(log, position, page.next)
              = OwnIn(log, position, q) \cup OwnIn(log, q, page.next)
        /\ OwnIn(log, position, q) \cap OwnIn(log, q, page.next) = {}
    BY <1>1, OwnSplit
  <2>2. page'.items = OwnIn(log', position', page'.next)
    BY <1>1, <2>1
  <2> QED BY <1>1, <2>2, PartsPrimed DEF PageExact
<1>14. ClientShape' /\ DeliveredExactly'
  BY DEF Delivery, ClientShape, DeliveredExactly, Own, InScope
<1> QED BY <1>9, <1>10, <1>12, <1>13, <1>14 DEF Delivery

LEMMA ObservationDelivery ==
    ASSUME TypeOK, Delivery, EmitObservation
    PROVE  Delivery'
<1> USE StreamAssumption
<1>1. PICK n \in page.items :
          /\ NextItem(n)
          /\ wire' = Append(wire, Event("observation", n, n))
          /\ position' = n
          /\ page' = [page EXCEPT !.items = @ \ {n}]
  BY DEF EmitObservation
<1> DEFINE e == Event("observation", n, n)
<1>2. /\ position \in Nat /\ n \in Nat /\ n \in Position /\ page.next \in Nat
      /\ page.items = OwnIn(log, position, page.next)
  BY Parts, <1>1
     DEF TypeOK, Position, Delivery, PageExact, EmitObservation, Running
<1>3. position < n /\ n <= page.next /\ n \in DOMAIN log /\ log[n].scope = Scope
  BY <1>1, <1>2 DEF OwnIn
<1>4. OwnIn(log, position, n) = {n}
  <2>1. ASSUME NEW k \in OwnIn(log, position, n) PROVE k = n
    <3>1. k \in DOMAIN log /\ k \in Nat /\ k <= n /\ position < k
          /\ log[k].scope = Scope
      BY DEF OwnIn, TypeOK, Store!LogTypeOK
    <3>2. k <= page.next
      BY <3>1, <1>2, <1>3
    <3>3. k \in page.items
      BY <3>1, <3>2, <1>2 DEF OwnIn
    <3>4. n <= k
      BY <3>3, <1>1 DEF NextItem
    <3> QED BY <3>1, <3>4, <1>2
  <2>2. n \in OwnIn(log, position, n)
    BY <1>2, <1>3 DEF OwnIn
  <2> QED BY <2>1, <2>2
<1>5. /\ e \in StreamEvent /\ e.type = "observation" /\ e.id = n /\ e.seq = n
      /\ Carried(e) = {n}
  BY <1>2 DEF Event, StreamEvent, EventType, Carried
<1>6. /\ pc = "page" /\ pc' = "page"
      /\ UNCHANGED << log, cursor, origin, received >>
      /\ page'.next = page.next /\ page'.items = page.items \ {n}
  BY <1>1 DEF EmitObservation, TypeOK, client
<1> HIDE DEF e
<1>7. wire' = Append(wire, e) /\ position' = n
  BY <1>1 DEF e
<1>8. /\ position <= n
      /\ Carried(e) = OwnIn(log, position, n)
      /\ page'.items = page.items \ Carried(e)
  BY <1>2, <1>3, <1>4, <1>5, <1>6
<1> QED BY ONLY TypeOK, Delivery, <1>2, <1>3, <1>5, <1>6, <1>7, <1>8, ProgressDelivery

LEMMA CheckpointDelivery ==
    ASSUME TypeOK, Delivery, EmitCheckpoint
    PROVE  Delivery'
<1> USE StreamAssumption
<1> DEFINE e == Event("checkpoint", page.next, NoCursor)
<1>1. /\ position \in Nat /\ page.next \in Nat /\ page.next \in Position
      /\ page.items = OwnIn(log, position, page.next)
  BY Parts DEF TypeOK, Position, Delivery, PageExact, EmitCheckpoint, Running
<1>2. /\ e \in StreamEvent /\ e.type = "checkpoint" /\ e.id = page.next
      /\ Carried(e) = {}
  BY <1>1 DEF Event, StreamEvent, EventType, Carried
<1>3. /\ pc = "page" /\ pc' = "page" /\ page.items = {} /\ position <= page.next
      /\ page' = page /\ position' = page.next /\ wire' = Append(wire, e)
      /\ UNCHANGED << log, cursor, origin, received >>
  BY <1>1 DEF EmitCheckpoint, Send, client
<1> HIDE DEF e
<1>4. /\ Carried(e) = OwnIn(log, position, page.next)
      /\ page'.items = page.items \ Carried(e) /\ page'.next = page.next
      /\ page.next <= page.next
  BY <1>1, <1>2, <1>3
<1> QED BY ONLY TypeOK, Delivery, <1>1, <1>2, <1>3, <1>4, ProgressDelivery

LEMMA HangupDelivery ==
    ASSUME TypeOK, Delivery, Hangup
    PROVE  Delivery'
<1>1. /\ pc' = "off" /\ pc' \notin Running /\ wire' = << >> /\ page' = EmptyPage
      /\ DOMAIN wire' = {}
      /\ UNCHANGED << log, cursor, origin, received >>
  BY DEF Hangup, client, Running
<1>2. StartShape' /\ WireExact' /\ PositionExact' /\ PageExact'
  BY <1>1 DEF StartShape, WireExact, PositionExact, PageExact
<1>3. ClientShape' /\ DeliveredExactly'
  BY <1>1 DEF Delivery, ClientShape, DeliveredExactly, Own, InScope
<1> QED BY <1>2, <1>3 DEF Delivery

\* What the client knows, and the stream whose first event it takes.
LEMMA ReceiveDelivery ==
    ASSUME TypeOK, Delivery, Receive
    PROVE  Delivery'
<1> USE StreamAssumption
<1> DEFINE e == wire[1]
           C == Continuation(wire, Base)
<1>1. /\ wire # << >> /\ wire' = Tail(wire) /\ e = Head(wire)
      /\ wire \in Seq(StreamEvent) /\ 1 \in DOMAIN wire
      /\ UNCHANGED << log, pc, position, page >>
      /\ cursor' = IF e.id # NoCursor THEN e.id ELSE cursor
      /\ origin' = IF origin = NoCursor THEN e.id ELSE origin
      /\ received' = IF e.type = "observation" THEN Append(received, e.seq)
                                               ELSE received
  BY TailElements DEF Receive, TypeOK, server
<1>2. log \in Seq(Payload) /\ Len(log) \in Nat /\ position \in Nat
  BY DEF TypeOK, Position, Store!LogTypeOK
<1>3. Base # NoCursor /\ Base \in Nat
  BY <1>1, BaseTyped DEF Delivery, StartShape
<1>4. /\ C \in Nat /\ Base <= C
      /\ e.id # NoCursor => C <= Len(log)
      /\ Carried(e) = OwnIn(log, Base, C)
      /\ WireIn(log, Tail(wire), C)
      /\ SentIn(log, wire, Base, position) => SentIn(log, Tail(wire), C, position)
  BY <1>1, <1>2, <1>3, WireTail, Parts DEF Delivery
<1>5. /\ e.type = "ready" => e.id # NoCursor /\ Base = e.id
      /\ e.type # "ready" => Base = cursor
      /\ cursor # NoCursor => Base = cursor
  BY <1>1 DEF Delivery, StartShape, Base
<1>6. cursor' = C
  BY <1>1, <1>5 DEF Continuation
<1> HIDE DEF C
<1>7. \A i \in DOMAIN wire' : wire'[i].type # "ready"
  <2> TAKE i \in DOMAIN wire'
  <2>1. i \in Nat \ {0} /\ i + 1 \in DOMAIN wire /\ wire'[i] = wire[i + 1]
    BY <1>1, TailElements
  <2> QED BY <2>1 DEF Delivery, StartShape
<1>8. Base' = C
  <2>1. wire' # << >> => 1 \in DOMAIN wire'
    <3>1. wire' \in Seq(StreamEvent)
      BY <1>1
    <3> QED BY <3>1
  <2> QED BY <1>6, <1>7, <2>1 DEF Base
<1>9. WireExact' /\ PositionExact'
  BY <1>1, <1>4, <1>8, Parts, PartsPrimed DEF Delivery
<1>10. PageExact'
  BY <1>1, Parts, PartsPrimed DEF Delivery, PageExact
<1>11. StartShape'
  <2>1. pc \notin {"off", "preflight", "rejected", "ready"}
    BY <1>1 DEF Delivery, StartShape
  <2>2. C # NoCursor
    BY <1>4
  <2>3. wire' # << >> => 1 \in DOMAIN wire'
    <3>1. wire' \in Seq(StreamEvent)
      BY <1>1
    <3> QED BY <3>1
  <2> QED BY <1>1, <1>7, <1>8, <2>1, <2>2, <2>3 DEF StartShape
<1>12. /\ origin = NoCursor <=> cursor = NoCursor
       /\ cursor # NoCursor =>
             /\ origin \in Nat /\ cursor \in Nat /\ origin <= cursor
             /\ cursor <= Len(log) /\ Base = cursor
  BY <1>5 DEF TypeOK, Position, Delivery, ClientShape
<1>13. CASE cursor = NoCursor
  <2>1. e.type = "ready" /\ e.id = C /\ origin' = C /\ received' = received
    BY <1>1, <1>3, <1>5, <1>6, <1>12, <1>13
  <2>2. ClientShape'
    BY <1>1, <1>4, <1>6, <1>13, <2>1 DEF ClientShape
  <2>3. OwnIn(log', origin', cursor') = {}
    BY <1>1, <1>2, <1>4, <1>6, <2>1, OwnEmpty
  <2>4. DeliveredExactly'
    BY <1>4, <1>6, <1>13, <2>1, <2>3, PartsPrimed DEF Delivery, DeliveredExactly
  <2> QED BY <1>9, <1>10, <1>11, <2>2, <2>4 DEF Delivery
<1>14. CASE cursor # NoCursor
  <2>1. origin' = origin
    BY <1>1, <1>12, <1>14
  <2>2. C <= Len(log)
    BY <1>1, <1>4, <1>6, <1>12, <1>14
  <2>3. ClientShape'
    BY <1>1, <1>4, <1>6, <1>12, <1>14, <2>1, <2>2 DEF ClientShape
  <2>4. OwnIn(log, origin, C) = OwnIn(log, origin, cursor) \cup OwnIn(log, cursor, C)
    BY <1>2, <1>4, <1>12, <1>14, OwnSplit
  <2>5. /\ {received[i] : i \in DOMAIN received} = OwnIn(log, origin, cursor)
        /\ \A i, j \in DOMAIN received : i < j => received[i] < received[j]
    BY <1>14, Parts DEF Delivery, DeliveredExactly
  <2>6. /\ \A i, j \in DOMAIN received' : i < j => received'[i] < received'[j]
        /\ {received'[i] : i \in DOMAIN received'}
              = {received[i] : i \in DOMAIN received} \cup Carried(e)
    <3>1. CASE e.type = "observation"
      <4>1. /\ received' = Append(received, e.seq) /\ Carried(e) = {e.seq}
            /\ received \in Seq(Position) /\ e.seq \in Position
            /\ Len(received) \in Nat /\ DOMAIN received = 1..Len(received)
        BY <1>1, <3>1, EventIds DEF Carried, TypeOK, StreamEvent
      <4>2. /\ DOMAIN received' = 1..(Len(received) + 1)
            /\ \A i \in 1..Len(received) : received'[i] = received[i]
            /\ received'[Len(received) + 1] = e.seq
        BY <4>1, AppendElements
      <4>3. \A i \in DOMAIN received : received[i] < e.seq
        <5>1. cursor < e.seq /\ e.seq \in Nat
          BY <1>4, <1>12, <1>14, <4>1 DEF OwnIn, Position
        <5>2. ASSUME NEW i \in DOMAIN received
              PROVE  received[i] \in Nat /\ received[i] <= cursor
          BY <2>5, <4>1 DEF OwnIn, Position
        <5> QED BY <5>1, <5>2, <1>12, <1>14
      <4>4. \A i, j \in DOMAIN received' : i < j => received'[i] < received'[j]
        <5> SUFFICES ASSUME NEW i \in DOMAIN received', NEW j \in DOMAIN received',
                            i < j
                     PROVE  received'[i] < received'[j]
          OBVIOUS
        <5>1. i \in 1..Len(received) /\ received'[i] = received[i]
          BY <4>1, <4>2
        <5>2. CASE j = Len(received) + 1
          BY <4>1, <4>2, <4>3, <5>1, <5>2
        <5>3. CASE j # Len(received) + 1
          BY <2>5, <4>1, <4>2, <5>1, <5>3
        <5> QED BY <5>2, <5>3
      <4>5. {received'[i] : i \in DOMAIN received'}
              = {received[i] : i \in DOMAIN received} \cup {e.seq}
        BY <4>1, <4>2
      <4> QED BY <4>1, <4>4, <4>5
    <3>2. CASE e.type # "observation"
      BY <1>1, <2>5, <3>2 DEF Carried
    <3> QED BY <3>1, <3>2
  <2>7. {received'[i] : i \in DOMAIN received'} = OwnIn(log', origin', cursor')
    BY <1>1, <1>4, <1>6, <1>12, <1>14, <2>1, <2>4, <2>5, <2>6
  <2>8. cursor' # NoCursor
    BY <1>4, <1>6
  <2>9. DeliveredExactly'
    BY <2>6, <2>7, <2>8, PartsPrimed DEF DeliveredExactly
  <2> QED BY <1>9, <1>10, <1>11, <2>3, <2>9 DEF Delivery
<1> QED BY <1>13, <1>14

LEMMA InitDelivery ==
    ASSUME Init PROVE Delivery
<1>1. DOMAIN wire = {} /\ DOMAIN received = {} /\ pc = "off" /\ cursor = NoCursor
      /\ origin = NoCursor /\ wire = << >> /\ page = EmptyPage
  BY DEF Init
<1> QED
  BY <1>1 DEF Delivery, ClientShape, StartShape, WireExact, PositionExact,
              PageExact, DeliveredExactly, Running

LEMMA NextDelivery ==
    ASSUME TypeOK, Delivery, [Next]_vars
    PROVE  Delivery'
<1>1. CASE \E p \in Payload : AppendObservation(p)
  BY <1>1, AppendDelivery
<1>2. CASE \E start \in {"earliest", "latest"} : Preflight(start)
  BY <1>2, PreflightDelivery
<1>3. CASE EmitReady
  BY <1>3, ReadyDelivery
<1>4. CASE Scan
  BY <1>4, ScanDelivery
<1>5. CASE EmitObservation
  BY <1>5, ObservationDelivery
<1>6. CASE EmitCheckpoint
  BY <1>6, CheckpointDelivery
<1>7. CASE FinishPage
  BY <1>7, FinishPageDelivery
<1>8. CASE CheckDenies \/ CheckFails \/ ScanFails \/ Heartbeat
  <2>1. PICK type \in {"closed", "error", "comment"} : Send(type, NoCursor)
    BY <1>8 DEF CheckDenies, CheckFails, ScanFails, Heartbeat
  <2>2. /\ pc \in Running /\ pc' \in Running \cup {"ended"}
        /\ UNCHANGED << log, position, page, client >>
    BY <1>8 DEF CheckDenies, CheckFails, ScanFails, Heartbeat, Running
  <2> QED BY <2>1, <2>2, SendBareKeeps
<1>9. CASE Receive
  BY <1>9, ReceiveDelivery
<1>10. CASE StreamOver \/ Disconnect
  BY <1>10, HangupDelivery DEF StreamOver, Disconnect
<1>11. CASE Connect
  BY <1>11, MoveDelivery DEF Connect
<1>12. CASE Deactivate \/ Reactivate \/ Tick \/ UNCHANGED vars
  <2>1. UNCHANGED << log, wire, client >> /\ UNCHANGED << pc, position, page >>
    BY <1>12 DEF Deactivate, Reactivate, Tick, vars, server
  <2> QED BY <2>1, MoveDelivery
<1>13. CASE BeginCheck \/ CheckPasses \/ NoHeartbeatDue \/ WakeUp
  <2>1. /\ UNCHANGED << log, wire, client >> /\ UNCHANGED << position, page >>
        /\ pc \in Running /\ pc' \in Running
    BY <1>13
       DEF BeginCheck, CheckPasses, NoHeartbeatDue, WakeUp, AsksFirst, Running,
           TypeOK
  <2> QED BY <2>1, MoveDelivery
<1> QED
  BY <1>1, <1>2, <1>3, <1>4, <1>5, <1>6, <1>7, <1>8, <1>9, <1>10, <1>11, <1>12,
     <1>13
     DEF Next, Serve, Breaks

(* The client has received exactly its observations, for any log, page     *)
(* size, buffer and revalidation interval and any number of reconnects.    *)
THEOREM DeliveryIsExact == Spec => []DeliveredExactly
<1>1. Delivery => DeliveredExactly
  BY DEF Delivery
<1> QED
  BY <1>1, InitTyped, NextTyped, InitDelivery, NextDelivery, PTL DEF Spec

(* No client is ever refused for the cursor it was given.                  *)
THEOREM CursorsAreAccepted == Spec => []CursorAccepted
<1>1. Init => CursorAccepted
  BY DEF Init, CursorAccepted
<1>2. ASSUME TypeOK, Delivery, CursorAccepted, [Next]_vars
      PROVE  CursorAccepted'
  <2>1. CASE \E start \in {"earliest", "latest"} : Preflight(start)
    <3>1. cursor # NoCursor => cursor \in Nat /\ Len(log) \in Nat /\ cursor <= Len(log)
      BY <1>2 DEF TypeOK, Position, Store!LogTypeOK, Delivery, ClientShape
    <3> QED BY <2>1, <3>1, StreamAssumption DEF Preflight, CursorAccepted
  <2>2. CASE ~\E start \in {"earliest", "latest"} : Preflight(start)
    BY <1>2, <2>2
       DEF CursorAccepted, Next, Serve, Breaks, vars, server, TypeOK,
           AppendObservation, Deactivate, Reactivate, Tick, Connect, EmitReady,
           BeginCheck, CheckPasses, CheckDenies, CheckFails, Scan, ScanFails,
           EmitObservation, EmitCheckpoint, FinishPage, Heartbeat,
           NoHeartbeatDue, WakeUp, Receive, Disconnect, StreamOver, Hangup
  <2> QED BY <2>1, <2>2
<1> QED
  BY <1>1, <1>2, InitTyped, NextTyped, InitDelivery, NextDelivery, PTL DEF Spec

=============================================================================
