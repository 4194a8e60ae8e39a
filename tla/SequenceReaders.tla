-------------------------- MODULE SequenceReaders --------------------------
(***************************************************************************)
(* The components that follow the ingest log by position while writers     *)
(* append to it:                                                           *)
(*                                                                         *)
(*   a poller     calls ObservationRepository.read_sequence_page           *)
(*   a scanner    calls scan_scoped_sequence_page for one tenant and       *)
(*                source (the observation stream of the API)               *)
(*                                                                         *)
(* Each call is one transaction at READ COMMITTED: every statement in it   *)
(* reads the log as it is when that statement starts, so the log may grow  *)
(* between two statements of a call.  The caller keeps the cursor; a call  *)
(* that fails leaves it unchanged and is made again from it.               *)
(*                                                                         *)
(* The allocator row, the largest ingest entry and the number of entries   *)
(* are all Len(log) at any moment: that the store provides such a log is   *)
(* what ObservationIngest shows.                                           *)
(***************************************************************************)
EXTENDS Naturals, Sequences, FiniteSets, FiniteSetsExt

CONSTANTS
    Payload,    \* records with the fields obs and scope
    Poller, Scanner,
    ScopeOf,    \* the tenant and source each scanner is bound to
    Limit,      \* the page size every caller asks for
    MaxLog      \* bound: the writers append at most this many observations

Reader == Poller \cup Scanner

ASSUME ReadersAssumption ==
    /\ Limit \in Nat \ {0} /\ MaxLog \in Nat
    /\ Poller \cap Scanner = {}
    /\ DOMAIN ScopeOf = Scanner

VARIABLES
    log,        \* the committed observations
    step,       \* the statement each open call executes next
    high,       \* high_watermark captured by the open or last call
    cursor,     \* after_sequence of each reader's next call
    received,   \* the positions handed to each reader, in order
    has_more,   \* has_more of each reader's last page
    error       \* what each reader's last call raised

vars == << log, step, high, cursor, received, has_more, error >>

Store == INSTANCE IngestLog

Init ==
    /\ Store!Init
    /\ step = [r \in Reader |-> "idle"]
    /\ high = [r \in Reader |-> 0]
    /\ cursor = [r \in Reader |-> 0]
    /\ received = [r \in Reader |-> << >>]
    /\ has_more = [r \in Reader |-> FALSE]
    /\ error = [r \in Reader |-> "none"]

-----------------------------------------------------------------------------

AppendObservation(p) ==
    /\ Len(log) < MaxLog
    /\ Store!AppendObservation(p)
    /\ UNCHANGED << step, high, cursor, received, has_more, error >>

\* First statement of every call.
ReadHighWatermark(r) ==
    /\ step[r] = "idle"
    /\ high' = [high EXCEPT ![r] = Len(log)]
    /\ step' = [step EXCEPT ![r] = IF r \in Poller THEN "rows" ELSE "max_entry"]
    /\ error' = [error EXCEPT ![r] = "none"]
    /\ UNCHANGED << log, cursor, received, has_more >>

\* Second statement of a scan.
CompareMaxEntry(s) ==
    /\ step[s] = "max_entry"
    /\ LET failure ==
             IF Len(log) # high[s] THEN "sequence_invariant_error"
             ELSE IF cursor[s] > high[s] THEN "cursor_error"
             ELSE "none"
       IN  /\ error' = [error EXCEPT ![s] = failure]
           /\ step' = [step EXCEPT ![s] = IF failure = "none" THEN "rows"
                                                            ELSE "idle"]
    /\ UNCHANGED << log, high, cursor, received, has_more >>

InScope(r, n) == r \in Scanner => log[n].scope = ScopeOf[r]

\* Entries after the cursor, up to the captured high watermark.
Rows(r) == {n \in DOMAIN log : cursor[r] < n /\ n <= high[r]}

\* The first rows in ingest order, as many as the page may hold.
Page(r) == {n \in Rows(r) : n <= cursor[r] + Limit}

\* Fault: the cursor moves by the page size, full page or not.
NextByPageSize(r) == cursor[r] + Limit

\* Fault: a scan resumes after its high watermark, whatever its page held.
NextAtWatermark(r) == IF r \in Scanner THEN high[r] ELSE Max(Page(r) \cup {cursor[r]})

\* Fault: a scan resumes after the last row of its own scope.
NextAtLastMatch(r) ==
    Max({n \in Page(r) : InScope(r, n)} \cup {cursor[r]})

\* The position of the last row read, in scope or not.
NextPosition(r) == Max(Page(r) \cup {cursor[r]})

\* Fault: the page is thought to be followed by another whenever it is full.
HasMoreWhenFull(r) == Cardinality(Page(r)) = Limit

\* A poller looks for one row more than the limit; a scanner compares positions.
HasMore(r) ==
    IF r \in Poller THEN Cardinality(Rows(r)) > Limit
    ELSE Page(r) # {} /\ NextPosition(r) < high[r]

\* The positions of set S that r is to see.
Selected(r, S) == {n \in S : InScope(r, n)}

InIngestOrder(rows) == \A i, j \in DOMAIN rows : i < j => rows[i] < rows[j]

\* The rows r is handed: those of its page it is to see, in ingest order.
IsAnswer(rows, r) ==
    /\ Range(rows) = Selected(r, Page(r))
    /\ InIngestOrder(rows)

\* Last statement of a page.  The rows a page names are immutable, so the
\* payloads that a scan loads afterwards are those of these positions.
ReadPage(r) ==
    /\ step[r] = "rows"
    /\ \E n \in 0..Limit : \E rows \in [1..n -> Page(r)] :
          /\ IsAnswer(rows, r)
          /\ received' = [received EXCEPT ![r] = @ \o rows]
    /\ cursor' = [cursor EXCEPT ![r] = NextPosition(r)]
    /\ has_more' = [has_more EXCEPT ![r] = HasMore(r)]
    /\ step' = [step EXCEPT ![r] = "idle"]
    /\ UNCHANGED << log, high, error >>

\* The connection fails at any statement; the cursor stays.
CallFails(r) ==
    /\ step[r] # "idle"
    /\ step' = [step EXCEPT ![r] = "idle"]
    /\ error' = [error EXCEPT ![r] = "database_error"]
    /\ UNCHANGED << log, high, cursor, received, has_more >>

-----------------------------------------------------------------------------

Next ==
    \/ \E p \in Payload : AppendObservation(p)
    \/ \E r \in Reader : ReadHighWatermark(r) \/ ReadPage(r) \/ CallFails(r)
    \/ \E s \in Scanner : CompareMaxEntry(s)

Spec == Init /\ [][Next]_vars

\* A reader calls again and again, and not every call it makes fails.
Fairness ==
    /\ \A r \in Reader : WF_vars(ReadHighWatermark(r)) /\ SF_vars(ReadPage(r))
    /\ \A s \in Scanner : SF_vars(CompareMaxEntry(s))

FairSpec == Spec /\ Fairness

-----------------------------------------------------------------------------

TypeOK ==
    /\ Store!LogTypeOK
    /\ step \in [Reader -> {"idle", "max_entry", "rows"}]
    /\ high \in [Reader -> 0..MaxLog]
    /\ cursor \in [Reader -> 0..MaxLog]
    /\ received \in [Reader -> Seq(1..MaxLog)]
    /\ has_more \in [Reader -> BOOLEAN]
    /\ error \in [Reader -> {"none", "cursor_error", "database_error",
                             "sequence_invariant_error"}]

(* Whatever is appended between the statements of its calls, a reader has  *)
(* been given every position of its scope up to its cursor: once, in       *)
(* ingest order, and nothing of another tenant or source.                  *)
ReadsExact ==
    \A r \in Reader :
        /\ Range(received[r]) = Selected(r, 1..cursor[r])
        /\ InIngestOrder(received[r])

(* A page that says no more follows has brought its reader to the high     *)
(* watermark it reports, and one that says more follows has not.           *)
HasMoreExact ==
    \A r \in Reader :
        step[r] = "idle" /\ error[r] = "none"
            => (has_more[r] <=> cursor[r] < high[r])

(* Every position is eventually passed by every reader.  (The writers stop *)
(* at MaxLog: a scan can be refused as often as they append between its    *)
(* first two statements.)                                                  *)
EventuallyRead ==
    \A r \in Reader : \A n \in 1..MaxLog : Len(log) >= n ~> cursor[r] >= n

(* errors.py line 15 says that the error is raised when durable sequence   *)
(* state is missing or inconsistent.  Here it never is: the allocator row, *)
(* the entries and the observations are one log.                           *)
InvariantErrorMeansInconsistent ==
    \A s \in Scanner : error[s] # "sequence_invariant_error"

-----------------------------------------------------------------------------
(* The inductive invariant.                                                *)

\* A cursor is never ahead of the watermark its last call captured, and an
\* open call has not failed.
CursorBehind ==
    /\ Len(log) <= MaxLog
    /\ \A r \in Reader :
          /\ cursor[r] <= high[r] /\ high[r] <= Len(log)
          /\ step[r] # "idle" => error[r] = "none"

IInv == TypeOK /\ CursorBehind /\ ReadsExact /\ HasMoreExact

=============================================================================
