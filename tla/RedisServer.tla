----------------------------- MODULE RedisServer ----------------------------
(***************************************************************************)
(* The Redis server as the client sees it: it takes the commands that have *)
(* arrived completely, one at a time, and answers in the same protocol.    *)
(* The server is not part of the repository.                               *)
(***************************************************************************)
EXTENDS RedisReader

\* The first command that a reader found, if it is complete, and what comes after it.
Parsed(got) ==
  [complete |-> got.reply.type = "array",
   args |-> IF got.reply.type # "array" THEN <<>>
            ELSE [i \in 1..Len(got.reply.element) |-> got.reply.element[i].str],
   rest |-> Left(got.r)]

Command(bytes) == Parsed(redisReaderGetReply(redisReaderFeed(redisReaderCreate, bytes)))

RECURSIVE Encode(_)
Encode(reply) ==
  CASE reply.type = "string" -> <<"$">> \o Digits(Len(reply.str)) \o CRLF \o reply.str \o CRLF
    [] reply.type = "integer" ->
         (IF reply.integer < 0 THEN <<":", "-">> \o Digits(-reply.integer)
          ELSE <<":">> \o Digits(reply.integer)) \o CRLF
    [] reply.type = "nil" -> <<"$", "-", "1">> \o CRLF
    [] reply.type = "error" -> <<"-">> \o reply.str \o CRLF
    [] reply.type = "status" -> <<"+">> \o reply.str \o CRLF
    [] reply.type = "array" ->
         FoldLeft(LAMBDA s, e : s \o Encode(e),
                  <<"*">> \o Digits(Len(reply.element)) \o CRLF, reply.element)

Str(s) == createStringObject("string", s)
Num(n) == createIntegerObject(n)
Loading == createStringObject("error", <<"LOADING">>)
Done == createStringObject("status", <<"OK">>)

\* What is pushed to a subscriber.
Push(kind, name, third) == createArrayObject(<<Str(<<kind>>), Str(name), third>>)

=============================================================================
