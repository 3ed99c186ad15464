---------------------------- MODULE NatsAnalyzer ----------------------------
(***************************************************************************)
(* deploy/helm/review-pipeline/analyzer/analyzer.py: one process pulls the *)
(* window aggregates of reviews.windowed from JetStream, buffers them and  *)
(* merges the buffer into a Parquet file, one row per product and window.  *)
(* Its pull loop and periodic_flush are one asyncio thread: an action ends *)
(* at an await.  JetStream and Polars are modelled as the code uses them.  *)
(*                                                                         *)
(* Messages are their sequence numbers; a later one with the same key is a *)
(* newer version of the window (is_update in internal/models).             *)
(***************************************************************************)
EXTENDS Naturals, Sequences, FiniteSetsExt, SequencesExt

CONSTANTS
    Streams,      \* pairs of a content of reviews.windowed and a set of Events
    Events,       \* what may befall: subset of {"no ack", "no write", "crash", "stop"}
    Length,       \* messages in a stream
    BatchSize,    \* BATCH_SIZE (100)
    FetchSize,    \* messages of one fetch (10)
    MaxDeliver,   \* max_deliver (3)
    MaxStarts     \* bound: runs of the process

Messages == 1 .. Length

(***************************************************************************)
(* "whole" and "fraction": an aggregate whose avg_rating is written as an  *)
(* integer (4) or not (4.5): Polars types the column by its values.        *)
(* "odd": JSON that makes no frame with the others; "bad": no JSON.        *)
(***************************************************************************)
Kinds == {"whole", "fraction", "odd", "bad"}

ASSUME NatsAnalyzerAssumption ==
    /\ BatchSize \in Nat \ {0} /\ FetchSize \in Nat \ {0}
    /\ MaxDeliver \in Nat \ {0, 1} /\ MaxStarts \in Nat /\ Length \in Nat
    /\ \A s \in Streams : s.kind \in [Messages -> Kinds] /\ s.events \subseteq Events

VARIABLES
    stream,       \* stream.kind[m], stream.key[m]: message m; stream.events: what happens
    limited,      \* whether max_deliver is in force: add_consumer gets a dict, its errors are ignored
    deliveries,   \* deliveries[m]: times m was delivered, counted up to MaxDeliver
    inflight,     \* messages delivered, neither acknowledged nor timed out
    acked,        \* messages acknowledged
    life,         \* the process: "down", "running"
    starts,       \* runs so far
    at,           \* the pull loop: "fetch", "handle", "ack"
    batch,        \* messages of the fetch not handled yet, with the one at hand
    shutdown,     \* the flag of the signal handler
    flusher,      \* whether the task periodic_flush runs
    buffer,       \* window_buffer
    file,         \* the file: its column type (or "none", "corrupt") and its rows
    writes,       \* history: merges written since the file was created, up to 2
    appended,     \* history: messages that have been in the buffer
    lost,         \* history: messages lost with a failed flush or with the process
    cuts          \* history: fetches cut short by an exception or a crash, up to MaxDeliver

fileVars == <<buffer, file, writes, lost>>
streamVars == <<deliveries, inflight, acked>>
given == <<stream, limited>>
vars == <<given, streamVars, life, starts, at, batch, shutdown, flusher, fileVars, appended, cuts>>

TypeOK ==
    /\ stream \in Streams /\ limited \in BOOLEAN
    /\ deliveries \in [Messages -> 0 .. MaxDeliver]
    /\ inflight \subseteq Messages /\ acked \subseteq Messages
    /\ life \in {"down", "running"} /\ starts \in 0 .. MaxStarts
    /\ at \in {"fetch", "handle", "ack"}
    /\ batch \in Seq(Messages) /\ Len(batch) <= FetchSize
    /\ at = "fetch" <=> batch = <<>>
    /\ shutdown \in BOOLEAN /\ flusher \in BOOLEAN
    /\ buffer \in Seq(Messages)
    /\ file \in [type : {"none", "whole", "fraction", "corrupt"}, rows : Seq(Messages)]
    /\ writes \in 0 .. 2 /\ cuts \in 0 .. MaxDeliver
    /\ appended \subseteq Messages /\ lost \subseteq Messages

NoFile == [type |-> "none", rows |-> <<>>]

Init ==
    /\ stream \in Streams /\ limited \in BOOLEAN
    /\ deliveries = [m \in Messages |-> 0] /\ inflight = {} /\ acked = {}
    /\ life = "down" /\ starts = 0
    /\ at = "fetch" /\ batch = <<>>
    /\ shutdown = FALSE /\ flusher = FALSE
    /\ buffer = <<>> /\ file = NoFile /\ writes = 0
    /\ appended = {} /\ lost = {} /\ cuts = 0
-----------------------------------------------------------------------------
Occurs(event) == event \in stream.events
Running == life = "running"
Key(m) == stream.key[m]

Counted(n) == Min({n + 1, MaxDeliver})

\* A delivery of m that JetStream may make.
Deliverable(m) == m \notin acked \cup inflight /\ (limited => deliveries[m] < MaxDeliver)

(* ack_wait is over, and no coroutine has m at hand. *)
Redeliver(m) ==
    /\ m \in inflight /\ m \notin Range(batch)
    /\ inflight' = inflight \ {m}
    /\ UNCHANGED <<given, deliveries, acked, life, starts, at, batch, shutdown, flusher, fileVars,
                   appended, cuts>>
-----------------------------------------------------------------------------
\* The type of the frame that Polars makes of the messages.
Type(rows) == IF \E m \in Range(rows) : stream.kind[m] = "fraction" THEN "fraction" ELSE "whole"

\* Mutant of Unique: the first row of a key is kept.
UniqueMutant(rows) ==
    SelectSeq(rows, LAMBDA m :
        \A i, j \in DOMAIN rows : rows[j] = m /\ i < j => Key(rows[i]) # Key(m))

\* unique with keep="last".  It does not maintain the order, which says nothing any more: a key has one row.
Unique(rows) ==
    LET kept == {j \in DOMAIN rows : \A i \in DOMAIN rows : j < i => Key(rows[i]) # Key(rows[j])}
    IN  SetToSeq({rows[j] : j \in kept})

\* A buffer of which pl.DataFrame raises, outside of the try.
Raises == \E m \in Range(buffer) : stream.kind[m] = "odd"

Merged ==
    IF file.type = "none"
    THEN [type |-> Type(buffer), rows |-> buffer]
    ELSE [file EXCEPT !.rows = Unique(@ \o buffer)]

\* Frames of different types are not concatenated, a corrupt file is not read.
Mergeable == file.type \in {"none", Type(buffer)}

\* Mutant of FlushBuffer: the buffer is cleared first.
FlushBufferMutant ==
    /\ buffer' = <<>>
    /\ IF Raises \/ ~Mergeable \/ buffer = <<>>
       THEN UNCHANGED <<file, writes, lost>>
       ELSE /\ file' = Merged /\ writes' = Min({writes + 1, 2}) /\ UNCHANGED lost

(* flush_buffer: the buffer is cleared before it is written; an error of the write is only printed. *)
FlushBuffer ==
    IF Raises \/ buffer = <<>>
    THEN UNCHANGED fileVars
    ELSE /\ buffer' = <<>>
         /\ \/ /\ Mergeable
               /\ file' = Merged
               /\ writes' = Min({writes + 1, 2})
               /\ UNCHANGED lost
            \/ /\ ~Mergeable \/ Occurs("no write")
               /\ lost' = lost \cup Range(buffer)
               /\ UNCHANGED <<file, writes>>

\* Mutant of PeriodicFlush: it waits for a full batch.
PeriodicFlushMutant ==
    /\ Running /\ flusher /\ at \in {"fetch", "ack"} /\ Len(buffer) >= BatchSize
    /\ FlushBuffer
    /\ flusher' = ~Raises
    /\ UNCHANGED <<given, streamVars, life, starts, at, batch, shutdown, appended, cuts>>
(* periodic_flush runs while the pull loop awaits; an exception ends the task, unnoticed. *)
PeriodicFlush ==
    /\ Running /\ flusher /\ at \in {"fetch", "ack"} /\ buffer # <<>>
    /\ FlushBuffer
    /\ flusher' = ~Raises
    /\ UNCHANGED <<given, streamVars, life, starts, at, batch, shutdown, appended, cuts>>

-----------------------------------------------------------------------------
(* The durable consumer and the file are found as the last run left them. *)
Start ==
    /\ life = "down" /\ starts < MaxStarts
    /\ life' = "running" /\ starts' = starts + 1
    /\ flusher' = TRUE
    /\ UNCHANGED <<given, streamVars, at, batch, shutdown, fileVars, appended, cuts>>

(* Up to FetchSize messages, in the order of the stream, none of them new before a new one left out. *)
Fetch ==
    /\ Running /\ at = "fetch" /\ ~shutdown
    /\ \E s \in SeqOf({m \in Messages : Deliverable(m)}, FetchSize) :
        /\ s # <<>> /\ \A i, j \in DOMAIN s : i < j => s[i] < s[j]
        /\ \A n \in Messages \ Range(s), m \in Range(s) : deliveries[n] = 0 /\ n < m => deliveries[m] > 0
        /\ batch' = s
        /\ inflight' = inflight \cup Range(s)
        /\ deliveries' = [m \in Messages |->
                IF m \in Range(s) THEN Counted(deliveries[m]) ELSE deliveries[m]]
    /\ at' = "handle"
    /\ UNCHANGED <<given, acked, life, starts, shutdown, flusher, fileVars, appended, cuts>>

\* An exception leaves on_message: main prints it and fetches again, the rest of the batch is forgotten.
CutShort ==
    /\ batch' = <<>> /\ at' = "fetch"
    /\ cuts' = Counted(cuts)

\* Mutant of OnMessage: what was buffered before is skipped, without an acknowledgement.
OnMessageMutant ==
    /\ Running /\ at = "handle" /\ stream.kind[Head(batch)] # "bad"
    /\ IF Head(batch) \in appended
       THEN /\ batch' = Tail(batch)
            /\ at' = IF Len(batch) = 1 THEN "fetch" ELSE "handle"
            /\ UNCHANGED <<buffer, appended>>
       ELSE /\ buffer' = Append(buffer, Head(batch))
            /\ appended' = appended \cup {Head(batch)}
            /\ at' = "ack" /\ UNCHANGED batch
    /\ UNCHANGED <<given, streamVars, life, starts, shutdown, flusher, file, writes, lost, cuts>>

(* json.loads, append; then the acknowledgement is awaited. *)
OnMessage ==
    /\ Running /\ at = "handle" /\ stream.kind[Head(batch)] # "bad"
    /\ buffer' = Append(buffer, Head(batch))
    /\ appended' = appended \cup {Head(batch)}
    /\ at' = "ack"
    /\ UNCHANGED <<given, streamVars, life, starts, batch, shutdown, flusher, file, writes, lost, cuts>>

(* json.loads raises. *)
OnMessageRaises ==
    /\ Running /\ at = "handle" /\ stream.kind[Head(batch)] = "bad"
    /\ CutShort
    /\ UNCHANGED <<given, streamVars, life, starts, shutdown, flusher, fileVars, appended>>

\* The message is done: the next one of the batch, or the next fetch.
NextMessage ==
    /\ batch' = Tail(batch)
    /\ at' = IF Len(batch) = 1 THEN "fetch" ELSE "handle"
    /\ UNCHANGED cuts

\* Mutant of Acked: a full buffer ends the batch.
AckedEndsMutant ==
    /\ Running /\ at = "ack"
    /\ acked' = acked \cup {Head(batch)}
    /\ inflight' = inflight \ {Head(batch)}
    /\ IF Len(buffer) < BatchSize
       THEN NextMessage /\ UNCHANGED fileVars
       ELSE /\ FlushBuffer
            /\ batch' = <<>> /\ at' = "fetch" /\ UNCHANGED cuts
    /\ UNCHANGED <<given, deliveries, life, starts, shutdown, flusher, appended>>

(* The acknowledgement is out; a full buffer is flushed. *)
Acked ==
    /\ Running /\ at = "ack"
    /\ acked' = acked \cup {Head(batch)}
    /\ inflight' = inflight \ {Head(batch)}
    /\ IF Len(buffer) < BatchSize
       THEN NextMessage /\ UNCHANGED fileVars
       ELSE FlushBuffer /\ IF Raises THEN CutShort ELSE NextMessage
    /\ UNCHANGED <<given, deliveries, life, starts, shutdown, flusher, appended>>

(* ack raises.  Bound: at the first delivery of a message only. *)
AckRaises ==
    /\ Occurs("no ack") /\ Running /\ at = "ack" /\ deliveries[Head(batch)] = 1
    /\ CutShort
    /\ UNCHANGED <<given, streamVars, life, starts, shutdown, flusher, fileVars, appended>>
-----------------------------------------------------------------------------
(* SIGINT or SIGTERM. *)
Signal ==
    /\ Occurs("stop") /\ Running /\ ~shutdown
    /\ shutdown' = TRUE
    /\ UNCHANGED <<given, streamVars, life, starts, at, batch, flusher, fileVars, appended, cuts>>

\* The process and its memory are gone.
Vanish ==
    /\ life' = "down" /\ at' = "fetch" /\ batch' = <<>>
    /\ shutdown' = FALSE /\ flusher' = FALSE
    /\ buffer' = <<>>
    /\ UNCHANGED <<given, streamVars, starts, appended>>

(* The loop sees the flag: the final flush, which may raise. *)
Exit ==
    /\ Running /\ at = "fetch" /\ shutdown
    /\ IF Raises
       THEN lost' = lost \cup Range(buffer) /\ UNCHANGED <<file, writes>>
       ELSE FlushBuffer
    /\ Vanish
    /\ UNCHANGED cuts

(* The process is killed, possibly in write_parquet, which does not write aside and rename. *)
Crash ==
    /\ Occurs("crash") /\ Running
    /\ \/ lost' = lost \cup Range(buffer) /\ UNCHANGED <<file, writes>>
       \/ /\ buffer # <<>> /\ ~Raises /\ Mergeable
          /\ file' = [type |-> "corrupt", rows |-> <<>>]
          /\ writes' = 0
          /\ lost' = lost \cup Range(buffer) \cup Range(file.rows)
    /\ Vanish
    /\ cuts' = Counted(cuts)
-----------------------------------------------------------------------------
Pull == Fetch \/ OnMessage \/ OnMessageRaises \/ Acked \/ AckRaises \/ Exit

Next ==
    \/ Start \/ Pull \/ PeriodicFlush \/ Signal \/ Crash
    \/ \E m \in Messages : Redeliver(m)

(***************************************************************************)
(* JetStream delivers and redelivers, the event loop runs what is ready.   *)
(* Kubernetes starts the process again; nothing makes it stop or crash.    *)
(***************************************************************************)
Fairness ==
    /\ WF_vars(Start) /\ WF_vars(Pull) /\ SF_vars(PeriodicFlush)
    /\ \A m \in Messages : WF_vars(Redeliver(m)) /\ SF_vars(Fetch /\ m \in inflight')

Spec == Init /\ [][Next]_vars /\ Fairness
-----------------------------------------------------------------------------
(* An acknowledged aggregate is in the buffer, or a version of its window is in the file, unless it *)
(* or that version was in a batch that could not be written, or lost when the process died. *)
AckedAccounted ==
    \A m \in acked :
        m \in Range(buffer) \/ \E r \in Range(file.rows) \cup lost : Key(r) = Key(m)

(* An older version of a window stands in the file instead of a newer one that was buffered only if *)
(* the newer one was lost or the older one delivered again (flush_buffer keeps what came last). *)
NewestWins ==
    \A m, n \in Messages :
        /\ m < n /\ Key(m) = Key(n)
        /\ m \in Range(file.rows)
        /\ n \in appended \ (Range(buffer) \cup Range(file.rows) \cup lost)
        => deliveries[m] > 1

(* JetStream gives up an aggregate that never reached the buffer only if MaxDeliver fetches were cut *)
(* short: one unreadable message, one exception or a crash drops the rest.  All cuts are counted, not *)
(* only those of fetches with this message. *)
GivenUpWasCut ==
    \A m \in Messages :
        /\ limited /\ deliveries[m] = MaxDeliver /\ m \notin Range(batch) \cup appended
        => cuts = MaxDeliver

(* While the process stays up, an aggregate is acknowledged in the end, unless it is unreadable *)
(* itself, behind such a message, or given up. *)
HandledInTheEnd ==
    \A m \in Messages :
        <>[]Running =>
            <>(\/ m \in acked
               \/ \E b \in 1 .. m : stream.kind[b] \in {"bad", "odd"}
               \/ limited /\ deliveries[m] = MaxDeliver)

(* While the process stays up, the buffer is empty again and again, unless a message has come that *)
(* makes no frame: from then on nothing is written. *)
BufferEmpties ==
    <>[]Running => []<>(buffer = <<>>) \/ <>[]Raises
=============================================================================
