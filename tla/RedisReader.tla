----------------------------- MODULE RedisReader ----------------------------
(***************************************************************************)
(* The protocol parser of hiredis.c: bytes are fed to a reader as they     *)
(* come, and it is asked for replies until it has no complete one.  Between*)
(* two reads it keeps the bytes it has not consumed and a stack of tasks,  *)
(* one for each array that is not complete, and on top the item it is at.  *)
(*                                                                         *)
(* An element is put into its array when it is complete; in the code the   *)
(* array is allocated at once and filled in place.                         *)
(***************************************************************************)
EXTENDS RedisCommand

CONSTANT DiscardAt  \* consumed bytes are dropped when there are as many, 1024 in the code

NewTask == [type |-> "none", elements |-> 0, items |-> <<>>]

NoReply == [type |-> "none"]

\* The replies a finished item turns into.
createStringObject(type, str) == [type |-> type, str |-> str]
createIntegerObject(value) == [type |-> "integer", integer |-> value]
createNilObject == [type |-> "nil"]
createArrayObject(items) == [type |-> "array", element |-> items]

redisReaderCreate == [buf |-> <<>>, pos |-> 0, rstack |-> <<>>, reply |-> NoReply, err |-> "none"]

Left(r) == SubSeq(r.buf, r.pos + 1, Len(r.buf))

Cur(r) == Last(r.rstack)

IsReader(r) ==
  /\ r.pos \in 0..Len(r.buf)
  /\ Len(r.rstack) <= 9
  /\ \A i \in 1..Len(r.rstack) :
       /\ r.rstack[i].type \in {"none", "error", "status", "integer", "string", "array"}
       /\ i < Len(r.rstack) => /\ r.rstack[i].type = "array"
                               /\ Len(r.rstack[i].items) < r.rstack[i].elements

SetError(r, err) ==
  [buf |-> <<>>, pos |-> 0, rstack |-> <<>>, reply |-> NoReply, err |-> err]

\* The length of the line that s begins with, or -1.
seekNewline(s) ==
  LET at == {i \in 1..Len(s) - 1 : s[i] = "\r" /\ s[i + 1] = "\n"}
  IN  IF at = {} THEN -1 ELSE Min(at) - 1

\* The number at the beginning of the line, up to any "\r"; -1 for anything unexpected.
readLongLong(line) ==
  LET stops  == {i \in 1..Len(line) : line[i] = "\r"}
      number == IF stops = {} THEN line ELSE SubSeq(line, 1, Min(stops) - 1)
      signed == number # <<>> /\ number[1] \in {"-", "+"}
      digits == IF signed THEN Tail(number) ELSE number
  IN  IF \E i \in 1..Len(digits) : digits[i] \notin DOMAIN DigitOf THEN -1
      ELSE (IF signed /\ number[1] = "-" THEN -1 ELSE 1) * Decimal(digits)

(***************************************************************************)
(* The task on top is complete: obj is its reply.  The arrays under it     *)
(* whose last element this makes are complete as well, down to the first   *)
(* that is not, in which the next item is expected.                        *)
(***************************************************************************)
moveToNextTask(r, obj) ==
  LET n == Len(r.rstack)
      tasks == r.rstack
      prv == Max({0} \cup {i \in 1..n - 1 : Len(tasks[i].items) + 1 # tasks[i].elements})
      done[i \in prv + 1..n] ==
        IF i = n THEN obj ELSE createArrayObject(Append(tasks[i].items, done[i + 1]))
  IN  IF prv = 0 THEN [r EXCEPT !.rstack = <<>>, !.reply = done[1]]
      ELSE [r EXCEPT !.rstack =
              SubSeq(tasks, 1, prv - 1)
                \o <<[tasks[prv] EXCEPT !.items = Append(@, done[prv + 1])], NewTask>>]

\* What processing an item returns: REDIS_OK with the reader, or REDIS_ERR.
OK(r) == [ok |-> TRUE, r |-> r]
ERR(r) == [ok |-> FALSE, r |-> r]

\* The item takes bytelen bytes and its reply is obj.
Consumed(r, bytelen, obj) == OK(moveToNextTask([r EXCEPT !.pos = @ + bytelen], obj))

LineItem(r, len, line) ==
  IF len < 0 THEN ERR(r)
  ELSE Consumed(r, len + 2,
         IF Cur(r).type = "integer" THEN createIntegerObject(readLongLong(line))
         ELSE createStringObject(Cur(r).type, line))

processLineItem(r) ==
  LET len == seekNewline(Left(r)) IN LineItem(r, len, SubSeq(Left(r), 1, len))

\* Mutant: the string may lack the end of its line.
BulkStringShort(r, head, len) ==
  IF r.pos + head + len + 2 > Len(r.buf) THEN ERR(r)
  ELSE Consumed(r, head + len + 4,
                createStringObject("string", SubSeq(Left(r), head + 3, head + 2 + len)))

\* Nothing is consumed, not even the length, before the whole string is there.
BulkString(r, head, len) ==
  IF r.pos + head + len + 4 > Len(r.buf) THEN ERR(r)
  ELSE Consumed(r, head + len + 4,
                createStringObject("string", SubSeq(Left(r), head + 3, head + 2 + len)))

BulkItem(r, head, len) ==
  IF len < 0 THEN Consumed(r, head + 2, createNilObject) ELSE BulkString(r, head, len)

\* The number in the line of length head that comes next.
Header(r, head) == readLongLong(SubSeq(Left(r), 1, head))

processBulkItem(r) ==
  LET head == seekNewline(Left(r)) IN
  IF head < 0 THEN ERR(r) ELSE BulkItem(r, head, Header(r, head))

MultiBulkItem(r, bytelen, elements) ==
  CASE elements = -1 -> Consumed(r, bytelen, createNilObject)
    [] elements > 0 ->
         OK([r EXCEPT !.pos = @ + bytelen,
                      !.rstack = Front(@) \o
                        <<[type |-> "array", elements |-> elements, items |-> <<>>], NewTask>>])
    [] OTHER -> Consumed(r, bytelen, createArrayObject(<<>>))

processMultiBulkItem(r) ==
  LET head == seekNewline(Left(r)) IN
  CASE Len(r.rstack) = 9 -> ERR(SetError(r, "protocol"))
    [] Len(r.rstack) < 9 /\ head < 0 -> ERR(r)
    [] Len(r.rstack) < 9 /\ head >= 0 -> MultiBulkItem(r, head + 2, Header(r, head))

TypeOf == [c \in {"-", "+", ":", "$", "*"} |->
             CASE c = "-" -> "error" [] c = "+" -> "status" [] c = ":" -> "integer"
               [] c = "$" -> "string" [] c = "*" -> "array"]

\* The type byte is consumed by itself; the task remembers it.
WithType(r) ==
  [r EXCEPT !.pos = @ + 1, !.rstack = Append(Front(@), [Last(@) EXCEPT !.type = TypeOf[Left(r)[1]]])]

ProcessTyped(r) ==
  CASE Cur(r).type \in {"error", "status", "integer"} -> processLineItem(r)
    [] Cur(r).type = "string" -> processBulkItem(r)
    [] Cur(r).type = "array" -> processMultiBulkItem(r)

\* Mutant: the type is forgotten when the item is not complete.
Forgetful(r, p) ==
  IF p.ok \/ p.r.err # "none" THEN p ELSE ERR([p.r EXCEPT !.rstack = r.rstack])
processItemForgetful(r) ==
  CASE Cur(r).type = "none" /\ Left(r) = <<>> -> ERR(r)
    [] Cur(r).type = "none" /\ Left(r) # <<>> /\ Left(r)[1] \notin DOMAIN TypeOf ->
         ERR(SetError(r, "protocol"))
    [] OTHER -> Forgetful(r, ProcessTyped(IF Cur(r).type = "none" THEN WithType(r) ELSE r))

processItem(r) ==
  CASE Cur(r).type = "none" /\ Left(r) = <<>> -> ERR(r)
    [] Cur(r).type = "none" /\ Left(r) # <<>> /\ Left(r)[1] \notin DOMAIN TypeOf ->
         ERR(SetError(r, "protocol"))
    [] OTHER -> ProcessTyped(IF Cur(r).type = "none" THEN WithType(r) ELSE r)

\* One more item, unless the last one failed or completed the reply.
Again(p) == IF p.ok /\ p.r.rstack # <<>> THEN processItem(p.r) ELSE p

\* As often as it can succeed: an item takes its type and the end of a line, three
\* bytes, but the type of the first may be consumed already.
ProcessItems(r) ==
  LET most == (Len(Left(r)) + 1) \div 3 + 1
      round[k \in 0..most] == IF k = 0 THEN OK(r) ELSE Again(round[k - 1])
  IN  round[most].r

-----------------------------------------------------------------------------

\* A reader that has failed takes nothing more.
redisReaderFeed(r, bytes) == IF r.err = "none" THEN [r EXCEPT !.buf = @ \o bytes] ELSE r

\* Mutant: the consumed bytes are dropped and counted on.
DiscardedKeepingPos(r) ==
  IF r.pos >= DiscardAt THEN [r EXCEPT !.buf = Left(r)] ELSE r

Discarded(r) ==
  IF r.pos >= DiscardAt THEN [r EXCEPT !.buf = Left(r), !.pos = 0] ELSE r

\* The reply, NoReply if there is no complete one, and the reader after it.
Emitted(r) ==
  IF r.err = "none" /\ r.rstack = <<>>
  THEN [reply |-> r.reply, r |-> [r EXCEPT !.reply = NoReply]]
  ELSE [reply |-> NoReply, r |-> r]

redisReaderGetReply(r) ==
  IF r.err # "none" \/ Len(r.buf) = 0 THEN [reply |-> NoReply, r |-> r]
  ELSE Emitted(Discarded(ProcessItems(
         IF r.rstack = <<>> THEN [r EXCEPT !.rstack = <<NewTask>>] ELSE r)))

-----------------------------------------------------------------------------

Fed(r, bytes) == redisReaderGetReply(redisReaderFeed(r, bytes))

\* Nothing that is done to the two tells them apart.
Same(r, s) ==
  Left(s) = Left(r) /\ s.rstack = r.rstack /\ s.reply = r.reply /\ s.err = r.err

(***************************************************************************)
(* Where the bytes x and y are cut does not matter: if x has a reply, or   *)
(* an error, it is that of x and y together, and y waits behind it; if it  *)
(* has none, y completes what x and y together come to.                    *)
(***************************************************************************)
CutIsNotSeen(r, x, y) ==
  \E first \in {Fed(r, x)}, whole \in {Fed(r, x \o y)} :
    \/ /\ first.reply # NoReply /\ first.r.err = "none" /\ first.r.rstack = <<>>
       /\ whole.reply = first.reply /\ whole.r.err = "none" /\ whole.r.rstack = <<>>
       /\ whole.r.reply = NoReply /\ first.r.reply = NoReply
       /\ Left(whole.r) = Left(first.r) \o y
    \/ first.reply = NoReply /\ first.r.err # "none" /\ whole = first
    \/ /\ first.reply = NoReply /\ first.r.err = "none"
       /\ \E second \in {Fed(first.r, y)} :
            second.reply = whole.reply /\ Same(second.r, whole.r)

=============================================================================
