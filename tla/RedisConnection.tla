-------------------------- MODULE RedisConnection ---------------------------
(***************************************************************************)
(* The asynchronous connections of the Redis provider: contexts of hiredis *)
(* (async.c), their dispatch sources (TSEventDispatcher) and the table of  *)
(* subscribers (TSRedisController).                                        *)
(*                                                                         *)
(*   - A PUBLISH runs on a connection of its own, which its callback       *)
(*     closes.  A SUBSCRIBE runs on one that is kept in the table until    *)
(*     unsubscribeAll sends UNSUBSCRIBE on every entry and forgets them.   *)
(*   - The read and the write handler of a connection run on a concurrent  *)
(*     queue, the caller on a thread of its own.  No lock protects the     *)
(*     context: a handler is as many steps as another thread can tell      *)
(*     apart.                                                              *)
(*   - A handler that closes the connection resumes the suspended source,  *)
(*     cancels both and frees the context.                                 *)
(*                                                                         *)
(* An access to freed memory, a failed assertion and a misuse of a source  *)
(* are a fault: nothing is said of what happens afterwards.                *)
(***************************************************************************)
EXTENDS Naturals, Sequences, FiniteSets

CONSTANTS
  Publisher,   \* the connections that may be opened to publish
  Subscriber,  \* the connections that may be opened to subscribe
  Allowed,     \* what may happen to a connection, see Strain
  MaxStrain    \* bound: how much of it happens in one behaviour

(***************************************************************************)
(* What may happen to a connection beside the plain exchange:              *)
(*   refused   the server cannot be reached                                *)
(*   closed    the server closes the connection                            *)
(*   error     the server answers a command with an error                  *)
(*   partial   the socket takes only a part of the output buffer           *)
(*   overlap   the caller appends a command while a handler runs           *)
(*   refired   a source resumed to be cancelled runs its handler first     *)
(*   late      a subscription is registered while unsubscribeAll runs      *)
(***************************************************************************)
Strain == {"refused", "closed", "error", "partial", "overlap", "refired", "late"}

ASSUME AllowedAssumption == Allowed \subseteq Strain /\ MaxStrain \in Nat

Conn == Publisher \cup Subscriber

VARIABLES
  kind,      \* kind[c], what the connection was opened for
  life,      \* life[c], the context: not created, in use, freed
  flags,     \* flags[c], REDIS_CONNECTED and so on; "error" stands for c->err
  replies,   \* replies[c], length of the list of callbacks of regular commands
  channel,   \* channel[c], the channel has its callback in sub.channels
  obuf,      \* obuf[c], commands not written yet
  rbuf,      \* rbuf[c], replies read from the socket and not processed
  isReading, isWriting,  \* flags of the dispatch context
  readSrc, writeSrc,     \* the dispatch sources
  rpc, wpc,  \* where the read and the write handler of c are
  handed,    \* handed[c], commands the running write has given to the socket
  table,     \* _subscribers, up to numSubscribers
  upc,       \* unsubscribeAll: at which statement, for which index
  sock,      \* sock[c], the TCP connection
  toServer, inbound,     \* what is under way in both directions
  heard,     \* connections whose SUBSCRIBE is in force on the server
  executed,  \* connections whose PUBLISH the server has executed
  answers,   \* history: what the callback of the PUBLISH was called with
  strain,    \* history: what happened to each connection
  fault      \* fault[c], how the program went wrong on c

contextVars == <<kind, life, flags, replies, channel, obuf, rbuf>>
sourceVars == <<isReading, isWriting, readSrc, writeSrc>>
handlerVars == <<rpc, wpc, handed>>
callerVars == <<table, upc>>
serverVars == <<sock, toServer, inbound, heard, executed>>
historyVars == <<answers, strain, fault>>
vars == <<contextVars, sourceVars, handlerVars, callerVars, serverVars, historyVars>>

Command == {"PUBLISH", "SUBSCRIBE", "UNSUBSCRIBE"}
Reply == {"published", "subscribed", "unsubscribed", "message", "error"}
Flag == {"connected", "disconnecting", "subscribed", "error"}
Source == {"none", "suspended", "active", "cancelled"}
Fault == {"none", "useAfterFree", "staleEntry", "overResume", "releasedSuspended", "assertion"}

TypeOK ==
  /\ kind \in [Conn -> {"none", "publish", "subscribe"}]
  /\ life \in [Conn -> {"none", "live", "freed"}]
  /\ flags \in [Conn -> SUBSET Flag]
  /\ replies \in [Conn -> Nat]
  /\ channel \in [Conn -> BOOLEAN]
  /\ obuf \in [Conn -> Seq(Command)]
  /\ rbuf \in [Conn -> Seq(Reply)]
  /\ isReading \in [Conn -> BOOLEAN]
  /\ isWriting \in [Conn -> BOOLEAN]
  /\ readSrc \in [Conn -> Source]
  /\ writeSrc \in [Conn -> Source]
  /\ rpc \in [Conn -> {"idle", "processing", "tearing"}]
  /\ wpc \in [Conn -> {"idle", "writing", "done", "unflagged", "tearing"}]
  /\ handed \in [Conn -> Nat]
  /\ table \in Seq(Conn)
  /\ upc \in [at : {"idle", "append", "schedule", "clear"}, i : Nat]
  /\ sock \in [Conn -> {"none", "connecting", "open", "refused", "closed"}]
  /\ toServer \in [Conn -> Seq(Command)]
  /\ inbound \in [Conn -> Seq(Reply)]
  /\ heard \subseteq Conn
  /\ executed \subseteq Conn
  /\ answers \in [Conn -> Seq(Reply \cup {"null"})]
  /\ strain \in [Conn -> SUBSET Strain]
  /\ fault \in [Conn -> Fault]

Init ==
  /\ kind = [c \in Conn |-> "none"]
  /\ life = [c \in Conn |-> "none"]
  /\ flags = [c \in Conn |-> {}]
  /\ replies = [c \in Conn |-> 0]
  /\ channel = [c \in Conn |-> FALSE]
  /\ obuf = [c \in Conn |-> <<>>]
  /\ rbuf = [c \in Conn |-> <<>>]
  /\ isReading = [c \in Conn |-> FALSE]
  /\ isWriting = [c \in Conn |-> FALSE]
  /\ readSrc = [c \in Conn |-> "none"]
  /\ writeSrc = [c \in Conn |-> "none"]
  /\ rpc = [c \in Conn |-> "idle"]
  /\ wpc = [c \in Conn |-> "idle"]
  /\ handed = [c \in Conn |-> 0]
  /\ table = <<>>
  /\ upc = [at |-> "idle", i |-> 1]
  /\ sock = [c \in Conn |-> "none"]
  /\ toServer = [c \in Conn |-> <<>>]
  /\ inbound = [c \in Conn |-> <<>>]
  /\ heard = {}
  /\ executed = {}
  /\ answers = [c \in Conn |-> <<>>]
  /\ strain = [c \in Conn |-> {}]
  /\ fault = [c \in Conn |-> "none"]

-----------------------------------------------------------------------------

Running == \A c \in Conn : fault[c] = "none"

Strains == {d \in Conn \X Strain : d[2] \in strain[d[1]]}

\* s happens to c: the environment allows it, and the history remembers it.
Strained(c, s) ==
  /\ s \in Allowed
  /\ s \in strain[c] \/ Cardinality(Strains) < MaxStrain
  /\ strain' = [strain EXCEPT ![c] = @ \cup {s}]

StrainedIf(cond, c, s) == IF cond THEN Strained(c, s) ELSE UNCHANGED strain

Fails(c, f) ==
  /\ fault' = [fault EXCEPT ![c] = f]
  /\ UNCHANGED <<contextVars, sourceVars, handlerVars, callerVars, serverVars, answers>>

Raise(c, f) == flags' = [flags EXCEPT ![c] = @ \cup f]

\* The hooks of the dispatch context: each tests its flag, sets it, and then
\* resumes or suspends the source unless redisClean has dropped it.
Droppable(src) == src \in {"none", "cancelled"}

AddRead(c) ==
  IF isReading[c] \/ Droppable(readSrc[c]) THEN UNCHANGED <<isReading, readSrc>>
  ELSE /\ isReading' = [isReading EXCEPT ![c] = TRUE]
       /\ readSrc' = [readSrc EXCEPT ![c] = "active"]

AddWrite(c) ==
  IF isWriting[c] \/ Droppable(writeSrc[c]) THEN UNCHANGED <<isWriting, writeSrc>>
  ELSE /\ isWriting' = [isWriting EXCEPT ![c] = TRUE]
       /\ writeSrc' = [writeSrc EXCEPT ![c] = "active"]

\* Resuming a source that is not suspended ends the program.
OverResumes(c) == ~isWriting[c] /\ writeSrc[c] = "active"

-----------------------------------------------------------------------------
(***************************************************************************)
(* The caller.                                                             *)
(***************************************************************************)

\* A context with its sources, both suspended.  A connect that fails at once leaves none.
connectAndDispatch(c) ==
  /\ life[c] = "none"
  /\ life' = [life EXCEPT ![c] = "live"]
  /\ sock' = [sock EXCEPT ![c] = "connecting"]
  /\ readSrc' = [readSrc EXCEPT ![c] = "suspended"]

\* Its first command is put into the buffer, which resumes the write source.
Open(c, k, cmd) ==
  /\ connectAndDispatch(c)
  /\ kind' = [kind EXCEPT ![c] = k]
  /\ obuf' = [obuf EXCEPT ![c] = <<cmd>>]
  /\ isWriting' = [isWriting EXCEPT ![c] = TRUE]
  /\ writeSrc' = [writeSrc EXCEPT ![c] = "active"]
  /\ UNCHANGED <<rbuf, isReading, handlerVars, upc, toServer, inbound, heard, executed,
                 answers, fault>>

Publish(c) ==
  /\ c \in Publisher
  /\ Open(c, "publish", "PUBLISH")
  /\ replies' = [replies EXCEPT ![c] = 1]
  /\ UNCHANGED <<flags, channel, table, strain>>

\* Called on the main thread by start, and on a handler's by a HELLO.
Subscribe(c) ==
  /\ c \in Subscriber
  /\ Open(c, "subscribe", "SUBSCRIBE")
  /\ Raise(c, {"subscribed"})
  /\ channel' = [channel EXCEPT ![c] = TRUE]
  /\ table' = Append(table, c)
  /\ StrainedIf(upc.at # "idle", c, "late")
  /\ UNCHANGED replies

UnsubscribeAll ==
  /\ upc.at = "idle"
  /\ upc' = [at |-> "append", i |-> 1]
  /\ UNCHANGED <<contextVars, sourceVars, handlerVars, table, serverVars, historyVars>>

Accepts(c) == "subscribed" \in flags[c] /\ "disconnecting" \notin flags[c]

\* redisAsyncCommand(_subscribers[i], ..., "UNSUBSCRIBE") up to the append.
UnsubscribeAppend ==
  /\ upc.at = "append" /\ upc.i <= Len(table)
  /\ LET c == table[upc.i] IN
     \/ /\ life[c] = "freed"
        /\ Fails(c, "staleEntry") /\ UNCHANGED strain
     \/ /\ life[c] = "live" /\ ~Accepts(c)
        /\ upc' = [upc EXCEPT !.i = @ + 1]
        /\ UNCHANGED <<contextVars, sourceVars, handlerVars, table, serverVars, historyVars>>
     \/ /\ life[c] = "live" /\ Accepts(c)
        /\ obuf' = [obuf EXCEPT ![c] = Append(@, "UNSUBSCRIBE")]
        /\ upc' = [upc EXCEPT !.at = "schedule"]
        /\ StrainedIf(rpc[c] # "idle" \/ wpc[c] # "idle", c, "overlap")
        /\ UNCHANGED <<kind, life, flags, replies, channel, rbuf, sourceVars, handlerVars,
                       table, serverVars, answers, fault>>

\* The same call, from _EL_ADD_WRITE on.
UnsubscribeSchedule ==
  /\ upc.at = "schedule"
  /\ LET c == table[upc.i] IN
     \/ /\ life[c] = "freed"
        /\ Fails(c, "useAfterFree") /\ Strained(c, "overlap")
     \/ /\ life[c] = "live" /\ OverResumes(c)
        /\ Fails(c, "overResume") /\ Strained(c, "overlap")
     \/ /\ life[c] = "live" /\ ~OverResumes(c)
        /\ AddWrite(c)
        /\ upc' = [at |-> "append", i |-> upc.i + 1]
        /\ StrainedIf(rpc[c] # "idle" \/ wpc[c] # "idle", c, "overlap")
        /\ UNCHANGED <<contextVars, isReading, readSrc, handlerVars, table, serverVars,
                       answers, fault>>

\* Mutant: the loop stops before the last entry.
UnsubscribeEndsEarly ==
  /\ upc.at = "append" /\ upc.i >= Len(table)
  /\ upc' = [upc EXCEPT !.at = "clear"]
  /\ UNCHANGED <<contextVars, sourceVars, handlerVars, table, serverVars, historyVars>>

UnsubscribeEnds ==
  /\ upc.at = "append" /\ upc.i > Len(table)
  /\ upc' = [upc EXCEPT !.at = "clear"]
  /\ UNCHANGED <<contextVars, sourceVars, handlerVars, table, serverVars, historyVars>>

UnsubscribeClear ==
  /\ upc.at = "clear"
  /\ table' = <<>>
  /\ upc' = [at |-> "idle", i |-> 1]
  /\ UNCHANGED <<contextVars, sourceVars, handlerVars, serverVars, historyVars>>

-----------------------------------------------------------------------------
(***************************************************************************)
(* Closing a connection: __redisAsyncDisconnect up to the window in which  *)
(* redisClean has resumed what was suspended, and the rest of it.          *)
(***************************************************************************)

\* Mutant: one callback is taken off the list whether there is one or not.
AbandonOne(c, f) ==
  /\ Raise(c, f)
  /\ replies' = [replies EXCEPT ![c] = @ - 1]
  /\ channel' = [channel EXCEPT ![c] = FALSE]
  /\ answers' = [answers EXCEPT ![c] = Append(@, "null")]
  /\ UNCHANGED <<kind, life, obuf>>

\* Pending callbacks get NULL; f is what the error adds to the flags.
Abandon(c, f) ==
  /\ Raise(c, f)
  /\ replies' = [replies EXCEPT ![c] = 0]
  /\ channel' = [channel EXCEPT ![c] = FALSE]
  /\ answers' = [answers EXCEPT ![c] = @ \o [i \in 1..replies[c] |-> "null"]]
  /\ UNCHANGED <<kind, life, obuf>>

\* Mutant: redisClean does not resume the source it is about to release.
TearByReadSuspended(c, f) ==
  /\ Abandon(c, f)
  /\ rpc' = [rpc EXCEPT ![c] = "tearing"]
  /\ readSrc' = [readSrc EXCEPT ![c] = "cancelled"]
  /\ UNCHANGED <<rbuf, isReading, isWriting, writeSrc, wpc, handed, callerVars, serverVars,
                 fault>>

TearByRead(c, f) ==
  \/ /\ OverResumes(c)
     /\ Fails(c, "overResume")
  \/ /\ ~OverResumes(c)
     /\ Abandon(c, f)
     /\ rpc' = [rpc EXCEPT ![c] = "tearing"]
     /\ readSrc' = [readSrc EXCEPT ![c] = "cancelled"]
     /\ AddWrite(c)
     /\ UNCHANGED <<rbuf, isReading, wpc, handed, callerVars, serverVars, fault>>

TearByWrite(c, f) ==
  /\ Abandon(c, f)
  /\ wpc' = [wpc EXCEPT ![c] = "tearing"]
  /\ AddRead(c)
  /\ UNCHANGED <<rbuf, isWriting, writeSrc, rpc, handed, callerVars, serverVars, fault>>

\* Both sources are cancelled and released, the context is freed: the other
\* handler must not be inside it, nor its source be suspended.
Release(c, other, src) ==
  \/ /\ other # "idle"
     /\ Fails(c, "useAfterFree")
  \/ /\ other = "idle" /\ src = "suspended"
     /\ Fails(c, "releasedSuspended")
  \/ /\ other = "idle" /\ src # "suspended"
     /\ life' = [life EXCEPT ![c] = "freed"]
     /\ flags' = [flags EXCEPT ![c] = {}]
     /\ obuf' = [obuf EXCEPT ![c] = <<>>]
     /\ rbuf' = [rbuf EXCEPT ![c] = <<>>]
     /\ isReading' = [isReading EXCEPT ![c] = FALSE]
     /\ isWriting' = [isWriting EXCEPT ![c] = FALSE]
     /\ readSrc' = [readSrc EXCEPT ![c] = "cancelled"]
     /\ writeSrc' = [writeSrc EXCEPT ![c] = "cancelled"]
     /\ rpc' = [rpc EXCEPT ![c] = "idle"]
     /\ wpc' = [wpc EXCEPT ![c] = "idle"]
     /\ sock' = [sock EXCEPT ![c] = "closed"]
     /\ inbound' = [inbound EXCEPT ![c] = <<>>]
     /\ heard' = heard \ {c}
     /\ UNCHANGED <<kind, replies, channel, handed, callerVars, toServer, executed, answers,
                    fault>>

ReleaseByRead(c) == rpc[c] = "tearing" /\ Release(c, wpc[c], writeSrc[c]) /\ UNCHANGED strain

ReleaseByWrite(c) == wpc[c] = "tearing" /\ Release(c, rpc[c], readSrc[c]) /\ UNCHANGED strain

-----------------------------------------------------------------------------
(***************************************************************************)
(* redisAsyncHandleWrite.                                                  *)
(***************************************************************************)

\* The event of the write source: a socket that connected, failed or closed.
Writable(c) ==
  /\ life[c] = "live" /\ wpc[c] = "idle" /\ writeSrc[c] = "active"
  /\ sock[c] \in {"open", "refused", "closed"}

\* connect(2) has failed, or the context has seen an error before.
WriteFails(c) ==
  /\ Writable(c)
  /\ \/ sock[c] = "refused" /\ "connected" \notin flags[c]
     \/ sock[c] = "closed" /\ obuf[c] # <<>>
     \/ "error" \in flags[c]
  /\ TearByWrite(c, {"error", "disconnecting"})
  /\ StrainedIf(rpc[c] = "tearing", c, "refired")

\* write(2): the socket takes all of the buffer or ends inside a command.
\* What goes to a closed socket is lost.
WriteOut(c) ==
  /\ Writable(c)
  /\ sock[c] # "refused" /\ "error" \notin flags[c]
  /\ Raise(c, {"connected"})
  /\ wpc' = [wpc EXCEPT ![c] = "writing"]
  /\ \/ /\ handed' = [handed EXCEPT ![c] = Len(obuf[c])]
        /\ toServer' = IF sock[c] = "open" THEN [toServer EXCEPT ![c] = @ \o obuf[c]]
                       ELSE toServer
        /\ StrainedIf(rpc[c] = "tearing", c, "refired")
     \/ /\ obuf[c] # <<>> /\ "partial" \notin strain[c]
        /\ rpc[c] # "tearing"
        /\ Strained(c, "partial")
        /\ UNCHANGED <<handed, toServer>>
  /\ UNCHANGED <<kind, life, replies, channel, obuf, rbuf, sourceVars, rpc, callerVars,
                 sock, inbound, heard, executed, answers, fault>>

Rest(c) == SubSeq(obuf[c], handed[c] + 1, Len(obuf[c]))

\* Mutant: a rest in the buffer does not keep the write scheduled.
WriteTrimEnds(c) ==
  /\ wpc[c] = "writing"
  /\ obuf' = [obuf EXCEPT ![c] = Rest(c)]
  /\ wpc' = [wpc EXCEPT ![c] = "done"]
  /\ handed' = [handed EXCEPT ![c] = 0]
  /\ UNCHANGED <<kind, life, flags, replies, channel, rbuf, sourceVars, rpc, callerVars,
                 serverVars, historyVars>>

\* What was written leaves the buffer.  A command appended since write(2) is
\* in the rest, or is lost with the buffer that sdsempty() replaces.
WriteTrim(c) ==
  /\ wpc[c] = "writing"
  /\ \E rest \in {Rest(c)} \cup (IF handed[c] > 0 THEN {<<>>} ELSE {}) :
       /\ obuf' = [obuf EXCEPT ![c] = rest]
       /\ IF rest = <<>>
          THEN wpc' = [wpc EXCEPT ![c] = "done"] /\ UNCHANGED sourceVars
          ELSE wpc' = [wpc EXCEPT ![c] = "idle"] /\ AddWrite(c) /\ AddRead(c)
  /\ handed' = [handed EXCEPT ![c] = 0]
  /\ UNCHANGED <<kind, life, flags, replies, channel, rbuf, rpc, callerVars, serverVars,
                 historyVars>>

\* _EL_DEL_WRITE clears its flag; the source is suspended a statement later.
WriteUnflag(c) ==
  /\ wpc[c] = "done"
  /\ isWriting' = [isWriting EXCEPT ![c] = FALSE]
  /\ wpc' = [wpc EXCEPT ![c] = "unflagged"]
  /\ UNCHANGED <<contextVars, isReading, readSrc, writeSrc, rpc, handed, callerVars,
                 serverVars, historyVars>>

\* Always schedule reads after writes.
WriteSuspend(c) ==
  /\ wpc[c] = "unflagged"
  /\ writeSrc' = [writeSrc EXCEPT ![c] = IF @ = "active" THEN "suspended" ELSE @]
  /\ wpc' = [wpc EXCEPT ![c] = "idle"]
  /\ AddRead(c)
  /\ UNCHANGED <<contextVars, isWriting, rpc, handed, callerVars, serverVars, historyVars>>

-----------------------------------------------------------------------------
(***************************************************************************)
(* redisAsyncHandleRead.                                                   *)
(***************************************************************************)

\* The event of the read source: data, the end of the stream or a failure.
Readable(c) ==
  /\ life[c] = "live" /\ rpc[c] = "idle" /\ readSrc[c] = "active"
  /\ inbound[c] # <<>> \/ sock[c] \in {"refused", "closed"}

ReadFails(c) ==
  /\ Readable(c)
  /\ inbound[c] = <<>> \/ "error" \in flags[c]
  /\ TearByRead(c, {"error", "disconnecting"})
  /\ StrainedIf(wpc[c] = "tearing", c, "refired")

\* read(2) takes some of what has arrived and feeds the reader.
ReadIn(c) ==
  /\ Readable(c)
  /\ "error" \notin flags[c]
  /\ \E k \in 1..Len(inbound[c]) :
       /\ rbuf' = [rbuf EXCEPT ![c] = @ \o SubSeq(inbound[c], 1, k)]
       /\ inbound' = [inbound EXCEPT ![c] = SubSeq(@, k + 1, Len(@))]
  /\ Raise(c, {"connected"})
  /\ rpc' = [rpc EXCEPT ![c] = "processing"]
  /\ AddRead(c)
  /\ StrainedIf(wpc[c] = "tearing", c, "refired")
  /\ UNCHANGED <<kind, life, replies, channel, obuf, isWriting, writeSrc, wpc, handed,
                 callerVars, sock, toServer, heard, executed, answers, fault>>

(***************************************************************************)
(* redisProcessCallbacks, one reply at a time.                             *)
(***************************************************************************)

\* Mutant: the callback stays on the list when it runs.
ProcessKept(c) ==
  /\ rpc[c] = "processing" /\ rbuf[c] # <<>> /\ replies[c] > 0
  /\ answers' = [answers EXCEPT ![c] = Append(@, Head(rbuf[c]))]
  /\ rbuf' = [rbuf EXCEPT ![c] = Tail(@)]
  /\ Raise(c, {"disconnecting"})
  /\ UNCHANGED <<kind, life, replies, channel, obuf, sourceVars, handlerVars, callerVars,
                 serverVars, strain, fault>>

\* Mutant: the callback leaves the connection open.
ProcessAndStay(c) ==
  /\ rpc[c] = "processing" /\ rbuf[c] # <<>> /\ replies[c] > 0
  /\ replies' = [replies EXCEPT ![c] = @ - 1]
  /\ answers' = [answers EXCEPT ![c] = Append(@, Head(rbuf[c]))]
  /\ rbuf' = [rbuf EXCEPT ![c] = Tail(@)]
  /\ UNCHANGED <<kind, life, flags, channel, obuf, sourceVars, handlerVars, callerVars,
                 serverVars, strain, fault>>

\* The callback of a PUBLISH disconnects whatever the reply says.
ProcessRegular(c) ==
  /\ rpc[c] = "processing" /\ rbuf[c] # <<>> /\ replies[c] > 0
  /\ replies' = [replies EXCEPT ![c] = @ - 1]
  /\ answers' = [answers EXCEPT ![c] = Append(@, Head(rbuf[c]))]
  /\ rbuf' = [rbuf EXCEPT ![c] = Tail(@)]
  /\ Raise(c, {"disconnecting"})
  /\ UNCHANGED <<kind, life, channel, obuf, sourceVars, handlerVars, callerVars, serverVars,
                 strain, fault>>

\* An error nobody waits for closes the connection.
ProcessError(c) ==
  /\ rpc[c] = "processing" /\ rbuf[c] # <<>> /\ replies[c] = 0
  /\ Head(rbuf[c]) = "error"
  /\ TearByRead(c, {"error", "disconnecting"})
  /\ UNCHANGED strain

\* A reply to a subscriber.  When its channel has no callback any more, what
\* is called is read from freed or from uninitialized memory.  The callback
\* compares "unsubscribe" with "UNSUBSCRIBE" and never disconnects.
ProcessSubscriber(c) ==
  /\ rpc[c] = "processing" /\ rbuf[c] # <<>> /\ replies[c] = 0
  /\ Head(rbuf[c]) # "error"
  /\ \/ /\ "subscribed" \notin flags[c]
        /\ Fails(c, "assertion")
     \/ /\ "subscribed" \in flags[c] /\ ~channel[c]
        /\ Fails(c, "useAfterFree")
     \/ /\ "subscribed" \in flags[c] /\ channel[c]
        /\ rbuf' = [rbuf EXCEPT ![c] = Tail(@)]
        /\ IF Head(rbuf[c]) = "unsubscribed"
           THEN /\ channel' = [channel EXCEPT ![c] = FALSE]
                /\ flags' = [flags EXCEPT ![c] = @ \ {"subscribed"}]
           ELSE UNCHANGED <<channel, flags>>
        /\ UNCHANGED <<kind, life, replies, obuf, sourceVars, handlerVars, callerVars,
                       serverVars, answers, fault>>
  /\ UNCHANGED strain

\* No reply left: wait for the next event, or disconnect cleanly.
ProcessEnds(c) ==
  /\ rpc[c] = "processing" /\ rbuf[c] = <<>>
  /\ ~("disconnecting" \in flags[c] /\ obuf[c] = <<>>)
  /\ rpc' = [rpc EXCEPT ![c] = "idle"]
  /\ UNCHANGED <<contextVars, sourceVars, wpc, handed, callerVars, serverVars, historyVars>>

Disconnect(c) ==
  /\ rpc[c] = "processing" /\ rbuf[c] = <<>>
  /\ "disconnecting" \in flags[c] /\ obuf[c] = <<>>
  /\ \/ /\ "error" \notin flags[c] /\ replies[c] > 0
        /\ Fails(c, "assertion")
     \/ /\ "error" \in flags[c] \/ replies[c] = 0
        /\ TearByRead(c, {})
  /\ UNCHANGED strain

-----------------------------------------------------------------------------
(***************************************************************************)
(* The server and the network.                                             *)
(***************************************************************************)

ServerKeeps ==
  UNCHANGED <<contextVars, sourceVars, handlerVars, callerVars, answers, fault>>

Accept(c) ==
  /\ sock[c] = "connecting"
  /\ sock' = [sock EXCEPT ![c] = "open"]
  /\ ServerKeeps /\ UNCHANGED <<toServer, inbound, heard, executed, strain>>

Refuse(c) ==
  /\ sock[c] = "connecting"
  /\ sock' = [sock EXCEPT ![c] = "refused"]
  /\ Strained(c, "refused")
  /\ ServerKeeps /\ UNCHANGED <<toServer, inbound, heard, executed>>

\* The server closes the connection: commands under way are lost.  What a
\* client has written before it closed arrives.
Close(c) ==
  /\ sock[c] = "open" /\ life[c] = "live"
  /\ sock' = [sock EXCEPT ![c] = "closed"]
  /\ toServer' = [toServer EXCEPT ![c] = <<>>]
  /\ heard' = heard \ {c}
  /\ Strained(c, "closed")
  /\ ServerKeeps /\ UNCHANGED <<inbound, executed>>

\* Replies and messages go to connections the client still holds.
Deliver(news) ==
  inbound' = [d \in Conn |-> IF life[d] = "live" THEN inbound[d] \o news[d] ELSE inbound[d]]

Only(c, r) == [d \in Conn |-> IF d = c THEN <<r>> ELSE <<>>]

Execute(c) ==
  /\ toServer[c] # <<>>
  /\ toServer' = [toServer EXCEPT ![c] = Tail(@)]
  /\ CASE Head(toServer[c]) = "PUBLISH" ->
            /\ executed' = executed \cup {c}
            /\ Deliver([d \in Conn |-> IF d = c THEN <<"published">>
                                       ELSE IF d \in heard THEN <<"message">> ELSE <<>>])
            /\ UNCHANGED heard
       [] Head(toServer[c]) = "SUBSCRIBE" ->
            /\ heard' = IF life[c] = "live" THEN heard \cup {c} ELSE heard
            /\ Deliver(Only(c, "subscribed"))
            /\ UNCHANGED executed
       [] Head(toServer[c]) = "UNSUBSCRIBE" ->
            /\ heard' = heard \ {c}
            /\ Deliver(Only(c, "unsubscribed"))
            /\ UNCHANGED executed
  /\ ServerKeeps /\ UNCHANGED <<sock, strain>>

\* -LOADING, -OOM, -ERR: the command is not executed.
Reject(c) ==
  /\ toServer[c] # <<>> /\ Head(toServer[c]) # "UNSUBSCRIBE"
  /\ toServer' = [toServer EXCEPT ![c] = Tail(@)]
  /\ Deliver(Only(c, "error"))
  /\ Strained(c, "error")
  /\ ServerKeeps /\ UNCHANGED <<sock, heard, executed>>

-----------------------------------------------------------------------------

WriteHandler(c) ==
  WriteFails(c) \/ WriteOut(c) \/ WriteTrim(c) \/ WriteUnflag(c) \/ WriteSuspend(c)
    \/ ReleaseByWrite(c)

ReadHandler(c) ==
  ReadFails(c) \/ ReadIn(c) \/ ProcessRegular(c) \/ ProcessError(c) \/ ProcessSubscriber(c)
    \/ ProcessEnds(c) \/ Disconnect(c) \/ ReleaseByRead(c)

Caller ==
  UnsubscribeAll \/ UnsubscribeAppend \/ UnsubscribeSchedule \/ UnsubscribeEnds
    \/ UnsubscribeClear

Answer(c) == Accept(c) \/ Refuse(c) \/ Execute(c) \/ Reject(c)

Next ==
  /\ Running
  /\ \/ Caller
     \/ \E c \in Conn : Publish(c) \/ Subscribe(c) \/ WriteHandler(c) \/ ReadHandler(c)
                        \/ Answer(c) \/ Close(c)

Spec == Init /\ [][Next]_vars

(***************************************************************************)
(* As long as a handler has an event or the network and the server have    *)
(* something to do, something of it is done; unsubscribeAll runs to its    *)
(* end.  Nobody has to publish, subscribe or unsubscribe, the server need  *)
(* not close a connection.  No thread is promised more than that.          *)
(***************************************************************************)
Progress == \E c \in Conn : WriteHandler(c) \/ ReadHandler(c) \/ Answer(c)

Fairness ==
  /\ WF_vars(Running /\ Caller /\ upc.at # "idle")
  /\ WF_vars(Running /\ Progress)

FairSpec == Spec /\ Fairness

-----------------------------------------------------------------------------

AsyncCalls == INSTANCE AsyncCall WITH
  Call <- Conn,
  issued <- {c \in Conn : kind[c] = "publish"}

(***************************************************************************)
(* Whatever happens to its connection, the callback of a PUBLISH runs at   *)
(* most once, and reports success only when the server has executed it     *)
(* (__redisShiftCallback takes a callback off the list before running it). *)
(***************************************************************************)
ImplementsAsyncCall == AsyncCalls!CallSpec

(***************************************************************************)
(* A connection to which nothing happens but the plain exchange never      *)
(* faults, and one that publishes survives the loss of the server too: its *)
(* handlers meet only after a partial write or in the window that          *)
(* redisClean opens.  A subscriber does not: the table keeps contexts that *)
(* were freed (TSRedisController.m:547), and its write handler may be at   *)
(* an UNSUBSCRIBE when the read handler closes the connection.  The        *)
(* assertions of async.c (lines 315 and 437) hold in every case.           *)
(***************************************************************************)
FaultsHaveACause ==
  \A c \in Conn :
    /\ fault[c] # "assertion"
    /\ fault[c] = "staleEntry" => strain[c] \cap {"refused", "closed", "error"} # {}
    /\ fault[c] # "none" => IF kind[c] = "publish"
                            THEN strain[c] \cap {"partial", "refired"} # {}
                            ELSE strain[c] \ {"late"} # {}

(***************************************************************************)
(* "Always schedule a write when the write buffer is non-empty"            *)
(* (async.c:615).  A command appended while the write handler is between   *)
(* its last write and its _EL_DEL_WRITE finds the flag still set and is    *)
(* left behind with the source suspended: the others are scheduled.        *)
(***************************************************************************)
WriteScheduled ==
  \A c \in Conn :
    life[c] = "live" /\ obuf[c] # <<>> /\ fault[c] = "none" /\ "overlap" \notin strain[c]
      => \/ writeSrc[c] = "active"
         \/ upc.at = "schedule" /\ table[upc.i] = c

UnderWay(c, cmd) == cmd \in {obuf[c][i] : i \in 1..Len(obuf[c])}
                              \cup {toServer[c][i] : i \in 1..Len(toServer[c])}

(***************************************************************************)
(* A connection that the table has forgotten and the server still sends    *)
(* messages to has its UNSUBSCRIBE under way: unsubscribeAll forgets no    *)
(* listener, except one that a HELLO registers behind its back or whose    *)
(* command is lost in an unlocked buffer.                                  *)
(***************************************************************************)
NoForgottenListener ==
  \A c \in heard :
    \/ \E i \in 1..Len(table) : table[i] = c
    \/ UnderWay(c, "UNSUBSCRIBE")
    \/ strain[c] \cap {"late", "overlap"} # {}

(***************************************************************************)
(* The connection of a PUBLISH is closed and its context freed in the end, *)
(* whether the server answers, refuses or goes away.  After a partial      *)
(* write it may stay open for good: the reply is processed before the      *)
(* write handler has trimmed the buffer, whose emptiness is the condition  *)
(* of the disconnect (async.c:397).                                        *)
(***************************************************************************)
PublishCloses ==
  \A c \in Publisher :
    kind[c] = "publish" ~> life[c] = "freed" \/ "partial" \in strain[c] \/ ~Running

(***************************************************************************)
(* An UNSUBSCRIBE in the buffer reaches the server: the connection ceases  *)
(* to be sent messages, unless another thread raced for the buffer.        *)
(***************************************************************************)
UnsubscribeTakesEffect ==
  \A c \in Subscriber : UnderWay(c, "UNSUBSCRIBE")
                    ~> c \notin heard \/ "overlap" \in strain[c] \/ ~Running

(***************************************************************************)
(* What the client asks to end ends: the connection of a PUBLISH and the   *)
(* delivery to a subscriber.                                               *)
(***************************************************************************)
ConnectionsEnd == PublishCloses /\ UnsubscribeTakesEffect

=============================================================================
