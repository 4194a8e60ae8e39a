------------------------- MODULE ObservationStream --------------------------
(***************************************************************************)
(* One collector that follows the observation stream (GET                  *)
(* /api/v1/streams/observations) while observations of its own and of      *)
(* other scopes are appended, its credential is revoked or restored, its   *)
(* connection breaks and it comes back with the last cursor it received.   *)
(*                                                                         *)
(* The server side is the coroutine ObservationStreamRuntime.events.  It   *)
(* is suspended at a yield while the connection takes no more events, in a *)
(* scan or a revalidation that runs in a thread, and in its poll sleep;    *)
(* everything between two suspensions is one step.  The client side is     *)
(* external: it reads events in order and remembers the id of the last one *)
(* that had an id (Last-Event-ID).                                         *)
(*                                                                         *)
(* Time passes in ticks; next_auth is kept as the number of ticks left     *)
(* until it.  A tick is long compared with the resumption of a coroutine   *)
(* whose thread has answered, short compared with everything else.         *)
(*                                                                         *)
(* A scan is one step here; SequenceReaders has its statements.  When the  *)
(* connection is lost the server's coroutine is abandoned: what it still   *)
(* yields reaches nobody (its lease is the subject of StreamLeases).       *)
(***************************************************************************)
EXTENDS Naturals, Sequences

CONSTANTS
    Payload,        \* records with the fields obs and scope
    Scope,          \* the tenant and source the collector is bound to
    ScanLimit,      \* stream_scan_batch_size
    Recheck,        \* stream_auth_recheck_seconds, in ticks
    Buffer,         \* bound: events on the way to the client
    MaxLog,         \* bound: observations the writers append
    NoCursor        \* a client that has received no event id yet

ASSUME StreamAssumption ==
    /\ ScanLimit \in Nat \ {0} /\ Recheck \in Nat \ {0}
    /\ Buffer \in Nat \ {0} /\ MaxLog \in Nat
    /\ NoCursor \notin Nat

VARIABLES
    log,            \* the committed observations
    active,         \* is_collector_principal_active of the principal
    pc,             \* where the coroutine is
    resume_at,      \* where it continues after a revalidation
    position,       \* position
    page,           \* what is left of the page: items, next, has_more
    auth_left,      \* ticks until next_auth, 0 when it is due
    elapsed,        \* ticks since the revalidation read the clock
    cleared,        \* the revalidation has just returned None
    wire,           \* events on the way to the client
    cursor,         \* the last event id the client received
    origin,         \* the position of the first ready event it received
    received,       \* positions of the observations it received
    inactive_for,   \* history: ticks since the principal became inactive
    running_for     \* history: ticks since the coroutine started

clock == << auth_left, elapsed, inactive_for, running_for >>
server == << pc, resume_at, position, page, cleared >>
client == << cursor, origin, received >>
vars == << log, active, server, clock, wire, client >>

Store == INSTANCE IngestLog

EmptyPage == [items |-> {}, next |-> 0, has_more |-> FALSE]

\* An event, its id if it has one, and the observation it carries, if any.
Event(type, id, seq) == [type |-> type, id |-> id, seq |-> seq]

Init ==
    /\ Store!Init
    /\ active = TRUE
    /\ pc = "off" /\ resume_at = "scan" /\ position = 0 /\ page = EmptyPage
    /\ cleared = FALSE
    /\ auth_left = 0 /\ elapsed = 0
    /\ wire = << >>
    /\ cursor = NoCursor /\ origin = NoCursor /\ received = << >>
    /\ inactive_for = 0 /\ running_for = 0

-----------------------------------------------------------------------------
(* Outside the stream: writers, administrators and the clock.              *)

AppendObservation(p) ==
    /\ Len(log) < MaxLog
    /\ Store!AppendObservation(p)
    /\ UNCHANGED << active, server, clock, wire, client >>

Deactivate ==
    /\ active /\ active' = FALSE
    /\ inactive_for' = 0
    /\ UNCHANGED << log, server, auth_left, elapsed, running_for, wire, client >>

Reactivate ==
    /\ ~active /\ active' = TRUE
    /\ inactive_for' = 0
    /\ UNCHANGED << log, server, auth_left, elapsed, running_for, wire, client >>

\* A counter of ticks that stops at the bound that matters.
Later(ticks) == IF ticks < Recheck THEN ticks + 1 ELSE ticks

\* A coroutine that has just been cleared goes on before the next tick.
Tick ==
    /\ ~cleared
    /\ auth_left' = IF auth_left > 0 THEN auth_left - 1 ELSE 0
    /\ elapsed' = IF pc = "checking" THEN Later(elapsed) ELSE elapsed
    /\ inactive_for' = IF active THEN 0 ELSE Later(inactive_for)
    /\ running_for' = Later(running_for)
    /\ UNCHANGED << log, active, server, wire, client >>

-----------------------------------------------------------------------------
(* The request.                                                            *)

\* The collector authenticates; static checks and the lease are passed.
Connect ==
    /\ pc = "off" /\ active
    /\ pc' = "preflight"
    /\ UNCHANGED << log, active, resume_at, position, page, cleared, clock,
                    wire, client >>

\* The high watermark decides where the stream starts: at the cursor the
\* client sends (409 when the store has not come that far), or else, as the
\* client asks, at the beginning or at the end.
Preflight(start) ==
    /\ pc = "preflight"
    /\ position' = IF cursor # NoCursor THEN cursor
                   ELSE IF start = "earliest" THEN 0 ELSE Len(log)
    /\ pc' = IF cursor # NoCursor /\ cursor > Len(log) THEN "rejected" ELSE "ready"
    /\ UNCHANGED << log, active, resume_at, page, cleared, clock, wire, client >>

-----------------------------------------------------------------------------
(* The coroutine.                                                          *)

\* A coroutine suspended at a yield is resumed when the connection has taken
\* the event and can take one more.
HasRoom == Len(wire) < Buffer

Send(type, n) ==
    /\ HasRoom
    /\ wire' = Append(wire, Event(type, n, NoCursor))

\* First step: the clock is read, the first deadline set, ready is sent.
EmitReady ==
    /\ pc = "ready"
    /\ Send("ready", position)
    /\ auth_left' = Recheck
    /\ running_for' = 0
    /\ pc' = "scan"
    /\ UNCHANGED << log, active, resume_at, position, page, cleared, elapsed,
                    inactive_for, client >>

\* Fault: the deadline is looked at once per page only.
PermittedPerPage == cleared \/ auth_left > 0 \/ pc = "page"

\* revalidate_if_due returns None without suspending, or has just done so.
Permitted == cleared \/ auth_left > 0

\* Items of the page in ingest order.
NextItem(n) == n \in page.items /\ \A m \in page.items : n <= m

\* A step that asks revalidate_if_due first; Idle only does for a heartbeat.
AsksFirst ==
    \/ pc = "scan"
    \/ pc = "page" /\ (page.items # {} \/ page.next > position)
    \/ pc = "idle"

\* The deadline has passed: the clock is read and a thread asks the database.
BeginCheck ==
    /\ AsksFirst /\ ~Permitted /\ HasRoom
    /\ resume_at' = pc
    /\ pc' = "checking"
    /\ elapsed' = 0
    /\ UNCHANGED << log, active, position, page, cleared, auth_left,
                    inactive_for, running_for, wire, client >>

\* Fault: the answer of the database is not looked at.
CheckIgnoresAnswer ==
    /\ pc = "checking"
    /\ auth_left' = Recheck - elapsed
    /\ cleared' = TRUE
    /\ pc' = resume_at
    /\ UNCHANGED << log, active, resume_at, position, page, elapsed,
                    inactive_for, running_for, wire, client >>

\* The next deadline counts from the time read before the check.
CheckPasses ==
    /\ pc = "checking" /\ active
    /\ auth_left' = Recheck - elapsed
    /\ cleared' = TRUE
    /\ pc' = resume_at
    /\ UNCHANGED << log, active, resume_at, position, page, elapsed,
                    inactive_for, running_for, wire, client >>

\* stream_closed, or stream_error when the database does not answer.
CheckDenies ==
    /\ pc = "checking" /\ ~active
    /\ Send("closed", NoCursor)
    /\ pc' = "ended"
    /\ UNCHANGED << log, active, resume_at, position, page, cleared, clock, client >>

CheckFails ==
    /\ pc = "checking"
    /\ Send("error", NoCursor)
    /\ pc' = "ended"
    /\ UNCHANGED << log, active, resume_at, position, page, cleared, clock, client >>

InScope(n) == log[n].scope = Scope

\* The positions one page scans.
Scanned == {n \in DOMAIN log : position < n /\ n <= position + ScanLimit}

\* scan_scoped_sequence_page after the position, in a thread.
Scan ==
    /\ pc = "scan" /\ Permitted /\ HasRoom
    /\ LET last == IF position + ScanLimit < Len(log) THEN position + ScanLimit
                                                      ELSE Len(log)
       IN  page' = [items |-> {n \in Scanned : InScope(n)},
                    next |-> last, has_more |-> last < Len(log)]
    /\ pc' = "page"
    /\ cleared' = FALSE
    /\ UNCHANGED << log, active, resume_at, position, clock, wire, client >>

\* Any exception of the scan: stream_error, then the coroutine ends.
ScanFails ==
    /\ pc = "scan" /\ Permitted
    /\ Send("error", NoCursor)
    /\ pc' = "ended"
    /\ cleared' = FALSE
    /\ UNCHANGED << log, active, resume_at, position, page, clock, client >>

\* Fault: every observation of a page carries the cursor of its end.
EmitObservationAtPageEnd ==
    /\ pc = "page" /\ Permitted
    /\ \E n \in page.items :
          /\ NextItem(n)
          /\ wire' = Append(wire, Event("observation", page.next, n))
          /\ position' = n
          /\ page' = [page EXCEPT !.items = @ \ {n}]
    /\ HasRoom
    /\ cleared' = FALSE
    /\ UNCHANGED << log, active, pc, resume_at, clock, client >>

\* The observation and the cursor that continues after it.
EmitObservation ==
    /\ pc = "page" /\ Permitted
    /\ HasRoom
    /\ \E n \in page.items :
          /\ NextItem(n)
          /\ wire' = Append(wire, Event("observation", n, n))
          /\ position' = n
          /\ page' = [page EXCEPT !.items = @ \ {n}]
    /\ cleared' = FALSE
    /\ UNCHANGED << log, active, pc, resume_at, clock, client >>

\* Fault: a checkpoint assumes that the page was full.
CheckpointByPageSize ==
    /\ pc = "page" /\ page.items = {} /\ page.next > position
    /\ Permitted
    /\ Send("checkpoint", position + ScanLimit)
    /\ position' = position + ScanLimit
    /\ cleared' = FALSE
    /\ UNCHANGED << log, active, pc, resume_at, page, clock, client >>

\* Fault: the coroutine keeps its own position when it sends a checkpoint.
CheckpointWithoutProgress ==
    /\ pc = "page" /\ page.items = {} /\ page.next > position
    /\ Permitted
    /\ Send("checkpoint", page.next)
    /\ cleared' = FALSE
    /\ UNCHANGED << log, active, pc, resume_at, position, page, clock, client >>

\* Rows of other scopes at the end of the page are passed by a checkpoint.
EmitCheckpoint ==
    /\ pc = "page" /\ page.items = {} /\ page.next > position
    /\ Permitted
    /\ Send("checkpoint", page.next)
    /\ position' = page.next
    /\ cleared' = FALSE
    /\ UNCHANGED << log, active, pc, resume_at, page, clock, client >>

FinishPage ==
    /\ pc = "page" /\ page.items = {} /\ page.next <= position /\ HasRoom
    /\ pc' = IF page.has_more THEN "scan" ELSE "idle"
    /\ page' = EmptyPage
    /\ UNCHANGED << log, active, resume_at, position, cleared, clock, wire, client >>

\* Nothing was sent for stream_heartbeat_seconds: a comment, without an id.
Heartbeat ==
    /\ pc = "idle" /\ Permitted
    /\ Send("comment", NoCursor)
    /\ pc' = "sleep"
    /\ cleared' = FALSE
    /\ UNCHANGED << log, active, resume_at, position, page, clock, client >>

NoHeartbeatDue ==
    /\ pc = "idle" /\ ~cleared /\ HasRoom
    /\ pc' = "sleep"
    /\ UNCHANGED << log, active, resume_at, position, page, cleared, clock,
                    wire, client >>

WakeUp ==
    /\ pc = "sleep"
    /\ pc' = "scan"
    /\ UNCHANGED << log, active, resume_at, position, page, cleared, clock,
                    wire, client >>

-----------------------------------------------------------------------------
(* The client and the connection.                                          *)

Receive ==
    /\ wire # << >>
    /\ wire' = Tail(wire)
    /\ LET e == Head(wire)
       IN  /\ cursor' = IF e.id # NoCursor THEN e.id ELSE cursor
           /\ origin' = IF origin = NoCursor THEN e.id ELSE origin
           /\ received' = IF e.type = "observation" THEN Append(received, e.seq)
                                                    ELSE received
    /\ UNCHANGED << log, active, server, clock >>

\* Nothing of the connection is left, and the client may connect again.
Hangup ==
    /\ pc' = "off"
    /\ wire' = << >>
    /\ page' = EmptyPage
    /\ position' = 0
    /\ resume_at' = "scan"
    /\ cleared' = FALSE
    /\ auth_left' = 0 /\ elapsed' = 0
    /\ UNCHANGED << log, active, inactive_for, running_for, client >>

\* The connection breaks: the events on the wire are lost.
Disconnect ==
    /\ pc # "off"
    /\ Hangup

\* The client has read the stream to its end.
StreamOver ==
    /\ pc \in {"ended", "rejected"} /\ wire = << >>
    /\ Hangup

-----------------------------------------------------------------------------

\* What the server does next, unless something breaks.
Serve ==
    \/ \E start \in {"earliest", "latest"} : Preflight(start)
    \/ EmitReady
    \/ BeginCheck \/ CheckPasses \/ CheckDenies
    \/ Scan \/ EmitObservation \/ EmitCheckpoint \/ FinishPage
    \/ Heartbeat \/ NoHeartbeatDue \/ WakeUp

Breaks == Disconnect \/ CheckFails \/ ScanFails

Next ==
    \/ \E p \in Payload : AppendObservation(p)
    \/ Deactivate \/ Reactivate \/ Tick
    \/ Connect \/ Serve \/ Receive \/ StreamOver
    \/ Breaks

Spec == Init /\ [][Next]_vars

\* The event loop resumes what can run, time passes, and the client reads
\* and reconnects.  The clock has to be fair for a revocation to be noticed.
Fairness ==
    /\ WF_vars(Serve) /\ WF_vars(Tick)
    /\ WF_vars(Connect) /\ WF_vars(Receive) /\ WF_vars(StreamOver)

\* Connections and the database do not break for ever.
Calm == <>[][~Breaks]_vars

FairSpec == Spec /\ Fairness

-----------------------------------------------------------------------------
(* What must hold.                                                         *)

Position == 0..MaxLog

EventType == {"ready", "observation", "checkpoint", "comment", "closed", "error"}

Running == {"scan", "page", "checking", "idle", "sleep"}

StreamEvent ==
    {e \in [type : EventType, id : Position \cup {NoCursor},
            seq : Position \cup {NoCursor}] :
        e.type = "observation" => e.seq \in Position}

TypeOK ==
    /\ Store!LogTypeOK /\ Len(log) <= MaxLog
    /\ active \in BOOLEAN
    /\ pc \in Running \cup {"off", "preflight", "rejected", "ready", "ended"}
    /\ resume_at \in {"scan", "page", "idle"}
    /\ position \in Position
    /\ page \in [items : SUBSET Position, next : Position, has_more : BOOLEAN]
    /\ auth_left \in 0..Recheck /\ elapsed \in 0..Recheck
    /\ cleared \in BOOLEAN
    /\ wire \in Seq(StreamEvent) /\ Len(wire) <= Buffer
    /\ cursor \in Position \cup {NoCursor}
    /\ origin \in Position \cup {NoCursor}
    /\ received \in Seq(Position)
    /\ inactive_for \in 0..Recheck /\ running_for \in 0..Recheck

\* The positions of the collector's scope after m, up to n.
Own(m, n) == {k \in DOMAIN log : m < k /\ k <= n /\ InScope(k)}

(* Over any number of reconnects, the client has received every observation*)
(* of its scope from where its first stream began up to its cursor: none   *)
(* lost with a broken connection, none twice, in ingest order.             *)
DeliveredExactly ==
    /\ \A i, j \in DOMAIN received : i < j => received[i] < received[j]
    /\ {received[i] : i \in DOMAIN received} =
          IF cursor = NoCursor THEN {} ELSE Own(origin, cursor)

(* A cursor the server handed out is never ahead of the store, so that no  *)
(* client is refused for using it.                                         *)
CursorAccepted == pc # "rejected"

(* No event is put on the wire once the principal has been inactive for a  *)
(* whole revalidation interval, unless the stream itself is younger than   *)
(* that: a page read before the revocation is cut short.                   *)
PromptRevocation ==
    [][Len(wire') > Len(wire)
       /\ wire'[Len(wire')].type \in {"observation", "checkpoint", "comment"}
           => inactive_for < Recheck \/ running_for < Recheck]_vars

(* What is appended in its scope after its first stream began reaches the  *)
(* client, however often it was disconnected, unless it loses its access.  *)
EventuallyDelivered ==
    Calm => \A n \in 1..MaxLog :
        (n \in DOMAIN log /\ InScope(n) /\ origin # NoCursor /\ origin < n)
            ~> (~active \/ n \in {received[i] : i \in DOMAIN received})

(* A stream whose collector lost its access ends, busy or idle.            *)
RevokedStreamEnds ==
    pc \in Running /\ ~active ~> active \/ pc \notin Running

-----------------------------------------------------------------------------
(* Strengthening for the proofs.                                           *)

Observations(i) == {wire[j].seq : j \in {k \in 1..i : wire[k].type = "observation"}}

\* Where the events on the wire continue: a ready event repeats the cursor.
Base == IF wire # << >> /\ wire[1].type = "ready" THEN wire[1].id ELSE cursor

\* The client has a cursor and an origin from its first ready event on.
ClientShape ==
    /\ cursor = NoCursor <=> origin = NoCursor
    /\ cursor # NoCursor => origin <= cursor /\ cursor <= Len(log)

\* The stream starts with one ready event, and at the client's cursor.
StartShape ==
    /\ pc \in {"off", "preflight", "rejected", "ready"} =>
          wire = << >> /\ page = EmptyPage
    /\ pc = "ready" =>
          position <= Len(log) /\ (cursor # NoCursor => position = cursor)
    /\ \A i \in DOMAIN wire : wire[i].type = "ready" => i = 1
    /\ wire # << >> /\ wire[1].type = "ready" =>
          wire[1].id # NoCursor /\ (cursor # NoCursor => wire[1].id = cursor)
    /\ pc \in Running \/ wire # << >> => Base # NoCursor

\* Up to every id on the wire, the observations sent are those of the scope.
WireExact ==
    \A i \in DOMAIN wire :
        /\ wire[i].type = "observation" =>
              wire[i].id = wire[i].seq /\ wire[i].id # NoCursor
        /\ wire[i].id # NoCursor =>
              /\ Base <= wire[i].id /\ wire[i].id <= Len(log)
              /\ Observations(i) = Own(Base, wire[i].id)
              /\ \A j \in DOMAIN wire :
                    i < j /\ wire[j].id # NoCursor =>
                        /\ wire[i].id <= wire[j].id
                        /\ wire[j].type = "observation" => wire[i].id < wire[j].id

\* So they are up to the position, and the page holds what follows it.
PositionExact ==
    pc \in Running =>
        /\ Base <= position /\ position <= Len(log)
        /\ Observations(Len(wire)) = Own(Base, position)
        /\ \A i \in DOMAIN wire : wire[i].id # NoCursor => wire[i].id <= position

PageExact ==
    pc \in Running =>
        /\ page.next <= Len(log)
        /\ page.items = Own(position, page.next)

Delivery ==
    /\ ClientShape /\ StartShape /\ WireExact /\ PositionExact /\ PageExact
    /\ DeliveredExactly

\* The deadline is never later than one interval after the principal was
\* active, or after the stream began.
Deadline ==
    /\ active \/ cleared => inactive_for = 0
    /\ cleared => pc \in {"scan", "page", "idle"}
    /\ pc \in Running =>
          inactive_for + auth_left <= Recheck \/ running_for + auth_left <= Recheck

=============================================================================
