----------------------------- MODULE StreamFetch -----------------------------
(***************************************************************************)
(* Txn.ExecuteStreamFetch (backend/txn.go): a streaming SELECT over       *)
(* several shards.                                                         *)
(*                                                                         *)
(* The handler fetches a connection per shard query and opens a cursor on *)
(* it in an errgroup goroutine; after eg.Wait it sends the fields, then   *)
(* one producer goroutine per cursor pushes its rows into the channel     *)
(* rows, and one consumer goroutine batches them into callbacks of at     *)
(* least streamBufferSize bytes.  The last producer to finish closes      *)
(* rows; the consumer closes stop when it returns, which releases          *)
(* producers blocked on a full channel.  A deferred loop closes the       *)
(* cursors when the handler returns.                                       *)
(*                                                                         *)
(* A row is identified by its cursor and position, <<q, i>>, and is one   *)
(* byte long, so streamBufferSize counts rows.  Backend and client errors *)
(* (fetchOneConnection, Connection.ExecuteStreamFetch, RowValues, the     *)
(* callback) are injected, at most StreamFaults of them.                  *)
(***************************************************************************)
EXTENDS Naturals, Sequences, SequencesExt, FiniteSets

CONSTANTS
    NQueries,       \* len(req.Querys)
    MaxCursorRows,  \* most rows a shard's cursor yields
    ChanCap,        \* the capacity of the rows channel
    BufSize,        \* streamBufferSize
    StreamFaults    \* bound on injected errors

ASSUME NQueries \in Nat \ {0} /\ ChanCap \in Nat \ {0} /\ BufSize \in Nat \ {0}

Queries == 1..NQueries

VARIABLES
    sp,          \* the handler: "open", "fields", "stream", "done"
    sres,        \* what it returned: "none", "ok", "err"
    qi,          \* the next query of the req.Querys loop
    openers,     \* queries whose oneShard goroutine has not finished
    cursors,     \* the cursors slice, in append order (query ids)
    nrows,       \* rows each opened cursor yields
    closedC,     \* cursors the deferred loop closed
    egErr,       \* the errgroup holds an error
    pos,         \* rows each producer has read
    prod,        \* producers still running
    rowsCh,      \* the rows channel
    rowsClosed,  \* close(rows) ran
    finished,    \* cursorFinished
    cons,        \* the consumer: "none", "run", "exited"
    cbuf,        \* qr.Rows of the consumer
    sent,        \* the rows the callbacks delivered
    allRowCount, \* allRowCount (RowsAffected of the finish packet)
    stopClosed,  \* close(stop) ran
    sfaults      \* injected errors so far

streamVars == <<sp, sres, qi, openers, cursors, nrows, closedC, egErr, pos,
                prod, rowsCh, rowsClosed, finished, cons, cbuf, sent,
                allRowCount, stopClosed, sfaults>>

Row == Queries \X (1..MaxCursorRows)

StreamTypeOK ==
    /\ sp \in {"open", "fields", "stream", "done"}
    /\ sres \in {"none", "ok", "err"}
    /\ qi \in 1..NQueries + 1
    /\ openers \subseteq Queries
    /\ cursors \in Seq(Queries) /\ IsInjective(cursors)
    /\ nrows \in [Queries -> 0..MaxCursorRows]
    /\ closedC \subseteq Queries
    /\ egErr \in BOOLEAN
    /\ pos \in [Queries -> 0..MaxCursorRows]
    /\ prod \subseteq Queries
    /\ rowsCh \in Seq(Row) /\ Len(rowsCh) <= ChanCap
    /\ rowsClosed \in BOOLEAN
    /\ finished \in 0..NQueries
    /\ cons \in {"none", "run", "exited"}
    /\ cbuf \in Seq(Row) /\ sent \in Seq(Row)
    /\ allRowCount \in Nat
    /\ stopClosed \in BOOLEAN
    /\ sfaults \in 0..StreamFaults

StreamInit ==
    /\ sp = "open" /\ sres = "none" /\ qi = 1 /\ openers = {}
    /\ cursors = <<>> /\ nrows = [q \in Queries |-> 0] /\ closedC = {}
    /\ egErr = FALSE /\ pos = [q \in Queries |-> 0] /\ prod = {}
    /\ rowsCh = <<>> /\ rowsClosed = FALSE /\ finished = 0
    /\ cons = "none" /\ cbuf = <<>> /\ sent = <<>> /\ allRowCount = 0
    /\ stopClosed = FALSE /\ sfaults = 0

\* An injected error happens.
Fault == sfaults < StreamFaults /\ sfaults' = sfaults + 1

\* The handler returns r; the deferred loop closes the cursors appended so
\* far (it reads the slice without mu).
Return(r) ==
    /\ sp' = "done" /\ sres' = r
    /\ closedC' = ToSet(cursors)

----------------------------------------------------------------------------
(* Opening the cursors                                                    *)

\* The req.Querys loop: fetchOneConnection for the next query, and eg.Go of
\* its oneShard; a failed fetch returns at once.
FetchConn ==
    /\ sp = "open" /\ qi <= NQueries
    /\ \/ /\ Fault
          /\ Return("err")
          /\ UNCHANGED <<qi, openers>>
       \/ /\ openers' = openers \cup {qi}
          /\ qi' = qi + 1
          /\ UNCHANGED <<sp, sres, closedC, sfaults>>
    /\ UNCHANGED <<cursors, nrows, egErr, pos, prod, rowsCh, rowsClosed,
                   finished, cons, cbuf, sent, allRowCount, stopClosed>>

\* oneShard: Connection.ExecuteStreamFetch opens a cursor, which is
\* appended to cursors under mu, or fails into the errgroup.
OpenCursor(q) ==
    /\ q \in openers
    /\ openers' = openers \ {q}
    /\ \/ /\ Fault
          /\ egErr' = TRUE
          /\ UNCHANGED <<cursors, nrows>>
       \/ /\ cursors' = Append(cursors, q)
          /\ \E n \in 0..MaxCursorRows : nrows' = [nrows EXCEPT ![q] = n]
          /\ UNCHANGED <<egErr, sfaults>>
    /\ UNCHANGED <<sp, sres, qi, closedC, pos, prod, rowsCh, rowsClosed,
                   finished, cons, cbuf, sent, allRowCount, stopClosed>>

\* eg.Wait returned: an error is returned; otherwise the fields of
\* cursors[0] are sent.
OpenWait ==
    /\ sp = "open" /\ qi > NQueries /\ openers = {}
    /\ IF egErr THEN Return("err") ELSE sp' = "fields" /\ UNCHANGED <<sres, closedC>>
    /\ UNCHANGED <<qi, openers, cursors, nrows, egErr, pos, prod, rowsCh,
                   rowsClosed, finished, cons, cbuf, sent, allRowCount,
                   stopClosed, sfaults>>

\* callback(fieldsQr); then one producer per cursor and the consumer start.
SendFields ==
    /\ sp = "fields"
    /\ \/ /\ Fault
          /\ Return("err")
          /\ UNCHANGED <<prod, cons>>
       \/ /\ sp' = "stream"
          /\ prod' = ToSet(cursors)
          /\ cons' = "run"
          /\ UNCHANGED <<sres, closedC, sfaults>>
    /\ UNCHANGED <<qi, openers, cursors, nrows, egErr, pos, rowsCh,
                   rowsClosed, finished, cbuf, sent, allRowCount, stopClosed>>

----------------------------------------------------------------------------
(* oneFetch, one producer per cursor                                     *)

\* The producer leaves: cursorFinished++ under mu, and the last one closes
\* rows.
ProducerExit(q) ==
    /\ prod' = prod \ {q}
    /\ finished' = finished + 1
    /\ rowsClosed' = (finished + 1 = Len(cursors))

\* cursor.Next() and RowValues gave a row; the select sends it into rows.
ProduceRow(q) ==
    /\ q \in prod /\ pos[q] < nrows[q]
    /\ Len(rowsCh) < ChanCap
    /\ rowsCh' = Append(rowsCh, <<q, pos[q] + 1>>)
    /\ pos' = [pos EXCEPT ![q] = @ + 1]
    /\ UNCHANGED <<sp, sres, qi, openers, cursors, nrows, closedC, egErr,
                   prod, rowsClosed, finished, cons, cbuf, sent, allRowCount,
                   stopClosed, sfaults>>

\* The select takes <-stop: the producer returns nil.
ProducerStop(q) ==
    /\ q \in prod /\ pos[q] < nrows[q]
    /\ stopClosed
    /\ prod' = prod \ {q}
    /\ UNCHANGED <<sp, sres, qi, openers, cursors, nrows, closedC, egErr, pos,
                   rowsCh, rowsClosed, finished, cons, cbuf, sent,
                   allRowCount, stopClosed, sfaults>>

\* RowValues failed: the producer leaves with the error.
RowValuesErr(q) ==
    /\ q \in prod /\ pos[q] < nrows[q]
    /\ Fault
    /\ ProducerExit(q)
    /\ egErr' = TRUE
    /\ UNCHANGED <<sp, sres, qi, openers, cursors, nrows, closedC, pos,
                   rowsCh, cons, cbuf, sent, allRowCount, stopClosed>>

\* cursor.Next() is false: the producer leaves.
CursorEnd(q) ==
    /\ q \in prod /\ pos[q] = nrows[q]
    /\ ProducerExit(q)
    /\ UNCHANGED <<sp, sres, qi, openers, cursors, nrows, closedC, egErr, pos,
                   rowsCh, cons, cbuf, sent, allRowCount, stopClosed, sfaults>>

----------------------------------------------------------------------------
(* The consumer                                                           *)

\* Faulty variant of Deliver: the consumer returns on a failed callback
\* without closing stop.
DeliverNoStop(b, last) ==
    \/ /\ sent' = sent \o b
       /\ cons' = IF last THEN "exited" ELSE cons
       /\ stopClosed' = last
       /\ UNCHANGED <<egErr, sfaults>>
    \/ /\ Fault
       /\ egErr' = TRUE /\ cons' = "exited"
       /\ UNCHANGED <<sent, stopClosed>>

\* callback(qr) with the batch b: delivered, or the consumer returns the
\* error.  The consumer also returns after the last batch; either way its
\* deferred close(stop) runs.
Deliver(b, last) ==
    \/ /\ sent' = sent \o b
       /\ cons' = IF last THEN "exited" ELSE cons
       /\ stopClosed' = last
       /\ UNCHANGED <<egErr, sfaults>>
    \/ /\ Fault
       /\ egErr' = TRUE /\ cons' = "exited" /\ stopClosed' = TRUE
       /\ UNCHANGED sent

\* A row arrives: it is counted and batched; a batch of streamBufferSize
\* bytes is sent and qr.Rows reset.
ConsumeRow ==
    /\ cons = "run" /\ rowsCh # <<>>
    /\ rowsCh' = Tail(rowsCh)
    /\ allRowCount' = allRowCount + 1
    /\ LET b == Append(cbuf, Head(rowsCh)) IN
       IF Len(b) >= BufSize
       THEN Deliver(b, FALSE) /\ cbuf' = <<>>
       ELSE cbuf' = b /\ UNCHANGED <<egErr, cons, sent, stopClosed, sfaults>>
    /\ UNCHANGED <<sp, sres, qi, openers, cursors, nrows, closedC, pos, prod,
                   rowsClosed, finished>>

\* Faulty variant of ConsumeEnd: the last partial batch is not sent.
ConsumeEndNoFlush ==
    /\ cons = "run" /\ rowsCh = <<>> /\ rowsClosed
    /\ cons' = "exited" /\ stopClosed' = TRUE
    /\ UNCHANGED <<sp, sres, qi, openers, cursors, nrows, closedC, egErr, pos,
                   prod, rowsCh, rowsClosed, finished, cbuf, sent,
                   allRowCount, sfaults>>

\* rows is closed and drained: the partial batch is sent, and the consumer
\* returns (close(stop)).
ConsumeEnd ==
    /\ cons = "run" /\ rowsCh = <<>> /\ rowsClosed
    /\ IF cbuf # <<>>
       THEN Deliver(cbuf, TRUE)
       ELSE cons' = "exited" /\ stopClosed' = TRUE /\ UNCHANGED <<egErr, sent, sfaults>>
    /\ UNCHANGED <<sp, sres, qi, openers, cursors, nrows, closedC, pos, prod,
                   rowsCh, rowsClosed, finished, cbuf, allRowCount>>

\* The second eg.Wait returned: its error, or callback(finishQr).
StreamWait ==
    /\ sp = "stream" /\ prod = {} /\ cons = "exited"
    /\ \/ egErr /\ Return("err") /\ UNCHANGED sfaults
       \/ ~egErr /\ Fault /\ Return("err")
       \/ ~egErr /\ Return("ok") /\ UNCHANGED sfaults
    /\ UNCHANGED <<qi, openers, cursors, nrows, egErr, pos, prod, rowsCh,
                   rowsClosed, finished, cons, cbuf, sent, allRowCount,
                   stopClosed>>

StreamNext ==
    \/ FetchConn \/ OpenWait \/ SendFields \/ ConsumeRow \/ ConsumeEnd
    \/ StreamWait
    \/ \E q \in Queries :
         \/ OpenCursor(q) \/ ProduceRow(q) \/ ProducerStop(q)
         \/ RowValuesErr(q) \/ CursorEnd(q)

StreamSpec == StreamInit /\ [][StreamNext]_streamVars

----------------------------------------------------------------------------
(* Properties                                                             *)

\* The rows of the opened cursors.
AllRows == UNION {{<<q, i>> : i \in 1..nrows[q]} : q \in ToSet(cursors)}

\* A stream that ends with the finish packet delivered every row of every
\* shard exactly once, each shard's rows in cursor order, and reports their
\* number as RowsAffected: the consumer's batching (ExecuteStreamFetch)
\* neither drops the last partial batch nor repeats one.
StreamComplete ==
    (sp = "done" /\ sres = "ok") =>
        /\ IsInjective(sent)
        /\ ToSet(sent) = AllRows
        /\ allRowCount = Len(sent)
        /\ \A j, k \in 1..Len(sent) :
              (j < k /\ sent[j][1] = sent[k][1]) => sent[j][2] < sent[k][2]

\* The streaming handler never hangs: whenever no goroutine of it can move,
\* it has returned and none of its goroutines is left blocked -- not the
\* producers on a full channel after the consumer gave up, not the
\* consumer waiting for a close(rows) that never comes.
StreamNoHang ==
    ~ENABLED StreamNext =>
        /\ sp = "done" /\ openers = {} /\ prod = {} /\ cons # "run"

\* Every cursor the handler opened is closed once it and its goroutines are
\* done: the deferred loop over cursors must see them all.
CursorsClosed ==
    (sp = "done" /\ openers = {}) => ToSet(cursors) \subseteq closedC

====
