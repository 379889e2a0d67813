---------------------------- MODULE BlockingCall ----------------------------
(***************************************************************************)
(* One blocking command of the Redis provider (stringValueForKey and       *)
(* setStringValue, TSRedisController.m): a connection of its own, made     *)
(* through net.c and tried twice, the command written until nothing is     *)
(* left of it and bytes read until there is a reply (redisGetReply).       *)
(*                                                                         *)
(* The thread waits meanwhile.  An interrupted or empty write, which the   *)
(* code repeats, is no step.  No time-out is set, so that nothing ends but *)
(* by an answer or an error.                                               *)
(***************************************************************************)
EXTENDS RedisServer

CONSTANTS
  Addresses,   \* bound: how many addresses the name of the server resolves to
  ShortWrite,  \* bound: the lengths of a write that leaves something
  ShortRead    \* bound: the lengths of a read that leaves something

ASSUME CallAssumption ==
  /\ Addresses \in Nat \ {0}
  /\ ShortWrite \subseteq Nat \ {0} /\ ShortRead \subseteq Nat \ {0}

VARIABLES
  call,    \* the call under way, or the last one
  value,   \* the value on the server of the key that is asked for, or NoValue
  failure  \* history: what has failed in the present call

callVars == <<call, value, failure>>

NoValue == createNilObject

\* Where a call is: looking for addresses, connecting to the next of left,
\* writing, reading, or back with a reply, NoReply standing for NULL.
CallAt(at, cmd) ==
  [at |-> at, cmd |-> cmd, fails |-> 0, left |-> 0, obuf |-> <<>>, inbox |-> <<>>,
   stream |-> <<>>, reader |-> redisReaderCreate, reply |-> NoReply]

CallTypeOK ==
  /\ call.at \in {"idle", "resolve", "connect", "write", "read", "back"}
  /\ call.fails \in 0..2 /\ call.left \in 0..Addresses
  /\ IsReader(call.reader)
  /\ call.at = "write" => call.obuf # <<>>
  /\ call.at = "read" => call.obuf = <<>> /\ call.reply = NoReply
  /\ failure \subseteq {"unconnected", "lost", "refused"}

\* A call with the command cmd begins.
Ask(cmd) == call' = CallAt("resolve", cmd) /\ failure' = {}

\* redisFree: the connection is closed, but a command that has arrived completely
\* may still be executed.
Free ==
  /\ call' = [CallAt("idle", <<>>) EXCEPT
                !.inbox = IF Command(call.inbox).complete THEN call.inbox ELSE <<>>]
  /\ failure' = {}

-----------------------------------------------------------------------------
(***************************************************************************)
(* redisConnect.                                                           *)
(***************************************************************************)

\* connect, twice.
ConnectFails ==
  /\ call' = IF call.fails = 0 THEN [CallAt("resolve", call.cmd) EXCEPT !.fails = 1]
             ELSE [CallAt("back", call.cmd) EXCEPT !.fails = 2]
  /\ failure' = IF call.fails = 0 THEN failure ELSE {"unconnected"}
  /\ UNCHANGED value

\* getaddrinfo, for IPv4 and then for IPv6.
Resolve ==
  /\ call.at = "resolve"
  /\ \E n \in 1..Addresses : call' = [call EXCEPT !.at = "connect", !.left = n]
  /\ UNCHANGED <<value, failure>>

Unresolved == call.at = "resolve" /\ ConnectFails

\* No socket, or EHOSTUNREACH at once: the next address is tried.
Unreachable ==
  /\ call.at = "connect"
  /\ IF call.left > 1 THEN call' = [call EXCEPT !.left = @ - 1] /\ UNCHANGED <<value, failure>>
     ELSE ConnectFails

\* Any other error, found at once or by redisContextWaitReady, ends the attempt
\* whatever addresses are left.
Refused == call.at = "connect" /\ ConnectFails

Connected ==
  /\ call.at = "connect"
  /\ call' = [call EXCEPT !.at = "write", !.left = 0, !.obuf = call.cmd]
  /\ UNCHANGED <<value, failure>>

-----------------------------------------------------------------------------
(***************************************************************************)
(* redisGetReply.                                                          *)
(***************************************************************************)

\* How much of a sequence one write or read may transfer.
Portions(bytes, short) == {n \in short \cup {Len(bytes)} : n > 0 /\ n <= Len(bytes)}

Obuf == INSTANCE Sds

\* redisBufferWrite: what is left of the buffer when n bytes of it are written.
Written(bytes, n) ==
  IF n = Len(bytes) THEN <<>> ELSE Obuf!sdsrange(Obuf!sdsnewlen(bytes), n, -1).buf

BufferWrite ==
  \E n \in Portions(call.obuf, ShortWrite) :
    /\ call.at = "write"
    /\ call' = [call EXCEPT !.inbox = @ \o SubSeq(call.obuf, 1, n),
                            !.obuf = Written(@, n),
                            !.at = IF Written(call.obuf, n) = <<>> THEN "read" ELSE "write"]
    /\ UNCHANGED <<value, failure>>

\* Mutant: the reply is expected to come with the first read.
GotReplyAtOnce(c, got) == [c EXCEPT !.reader = got.r, !.reply = got.reply, !.at = "back"]

\* What the loop of redisGetReply does with what the reader answers.
GotReply(c, got) ==
  [c EXCEPT !.reader = got.r, !.reply = got.reply,
            !.at = IF got.r.err # "none" \/ got.reply # NoReply THEN "back" ELSE "read"]

BufferRead ==
  \E n \in Portions(call.stream, ShortRead) :
    /\ call.at = "read"
    /\ call' = GotReply([call EXCEPT !.stream = SubSeq(@, n + 1, Len(@))],
                        redisReaderGetReply(
                          redisReaderFeed(call.reader, SubSeq(call.stream, 1, n))))
    /\ UNCHANGED <<value, failure>>

\* A write or a read fails, or finds the connection closed.
CallLost ==
  /\ call.at \in {"write", "read"}
  /\ call' = [call EXCEPT !.at = "back"]
  /\ failure' = failure \cup {"lost"}
  /\ UNCHANGED value

-----------------------------------------------------------------------------

\* The server executes the command, also when the client has given it up; nobody
\* reads the reply then.
Answer(cmd, reply) ==
  call' = [call EXCEPT !.inbox = cmd.rest,
                       !.stream = IF call.at = "read" THEN Encode(reply) ELSE <<>>]

ServerExecutes ==
  \E cmd \in {Command(call.inbox)} :
    /\ cmd.complete
    /\ \/ cmd.args[1] = <<"GET">> /\ Answer(cmd, value) /\ UNCHANGED <<value, failure>>
       \/ cmd.args[1] = <<"SET">> /\ Answer(cmd, Done) /\ value' = Str(cmd.args[3])
            /\ UNCHANGED failure
       \/ /\ Answer(cmd, Loading)
          /\ failure' = IF call.at = "read" THEN {"refused"} ELSE failure
          /\ UNCHANGED value

CallProceeds ==
  \/ Resolve \/ Unresolved \/ Unreachable \/ Refused \/ Connected
  \/ BufferWrite \/ BufferRead \/ CallLost \/ ServerExecutes

=============================================================================
