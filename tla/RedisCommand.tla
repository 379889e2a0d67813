---------------------------- MODULE RedisCommand ----------------------------
(***************************************************************************)
(* How a command gets on the wire: redisvFormatCommand (hiredis.c) and     *)
(* nextArgument (async.c).                                                 *)
(*                                                                         *)
(* What is on the wire is a sequence of symbols, each as long as a byte: a *)
(* word whose letters nothing looks at is one symbol.                      *)
(***************************************************************************)
EXTENDS Integers, Sequences, SequencesExt, TLC

CRLF == <<"\r", "\n">>

Figures == <<"0", "1", "2", "3", "4", "5", "6", "7", "8", "9">>

DigitOf == [d \in ToSet(Figures) |-> CHOOSE n \in 0..9 : Figures[n + 1] = d]

\* An int, divided by ten again and again.
Quotients(i) == LET q[k \in 0..10] == IF k = 0 THEN i ELSE q[k - 1] \div 10 IN q

\* How often until nothing is left, but once at least.
intlen(i) == CHOOSE k \in 1..10 : Quotients(i)[k] = 0 /\ (k > 1 => Quotients(i)[k - 1] > 0)

Digits(n) == [i \in 1..intlen(n) |-> Figures[1 + (Quotients(n)[intlen(n) - i] % 10)]]

bulklen(len) == 1 + intlen(len) + 2 + len + 2

-----------------------------------------------------------------------------

(***************************************************************************)
(* The arguments made of the format c and the values ap: curarg is the one *)
(* being put together, touched whether anything has been put into it.      *)
(* "%s", "%b" and "%%" are the conversions the client's own formats and    *)
(* the channels modelled here hold.                                        *)
(***************************************************************************)
Scanning(c, ap, curarg, touched, argv) ==
  [c |-> c, ap |-> ap, curarg |-> curarg, touched |-> touched, argv |-> argv]

\* One round of the loop over the format.
Scan(s) ==
  LET c == s.c IN
  CASE c = <<>> -> s
    [] c # <<>> /\ c[1] = " " ->
         IF s.touched THEN Scanning(Tail(c), s.ap, <<>>, FALSE, Append(s.argv, s.curarg))
         ELSE Scanning(Tail(c), s.ap, s.curarg, FALSE, s.argv)
    [] Len(c) > 1 /\ c[1] = "%" /\ c[2] = "%" ->
         Scanning(Tail(Tail(c)), s.ap, Append(s.curarg, "%"), TRUE, s.argv)
    [] Len(c) > 1 /\ c[1] = "%" /\ c[2] \in {"s", "b"} ->
         Scanning(Tail(Tail(c)), Tail(s.ap), s.curarg \o Head(s.ap), TRUE, s.argv)
    [] OTHER -> Scanning(Tail(c), s.ap, Append(s.curarg, c[1]), TRUE, s.argv)

\* The last argument ends with the format.
Ended(s) == IF s.touched THEN Append(s.argv, s.curarg) ELSE s.argv

Argv(format, ap) ==
  LET scanned[k \in 0..Len(format)] ==
        IF k = 0 THEN Scanning(format, ap, <<>>, FALSE, <<>>) ELSE Scan(scanned[k - 1])
  IN  Ended(scanned[Len(format)])

(***************************************************************************)
(* The text of SUBSCRIBE, which the client puts together itself: it is     *)
(* used as the format.  (What the client says with the other commands are  *)
(* values.)                                                                *)
(***************************************************************************)
SubscribeFormat(l) ==
  LET s[j \in 0..Len(l)] == IF j = 0 THEN <<"SUBSCRIBE", " ">> ELSE s[j - 1] \o <<" ">> \o l[j]
  IN  s[Len(l)]

\* A name that a format takes literally, and as one argument.
Plain(name) == name # <<>> /\ ~Contains(name, " ") /\ ~Contains(name, "%")

-----------------------------------------------------------------------------

Bulk(arg) == <<"$">> \o Digits(Len(arg)) \o CRLF \o arg \o CRLF

\* The arguments behind one another, and how long that is said to be.
Built(argv) ==
  LET cmd[j \in 0..Len(argv)] ==
        IF j = 0 THEN <<"*">> \o Digits(Len(argv)) \o CRLF ELSE cmd[j - 1] \o Bulk(argv[j])
  IN  cmd[Len(argv)]

Total(argv) ==
  LET totlen[j \in 0..Len(argv)] ==
        IF j = 0 THEN 1 + intlen(Len(argv)) + 2 ELSE totlen[j - 1] + bulklen(Len(argv[j]))
  IN  totlen[Len(argv)]

redisvFormatCommand(format, ap) ==
  [cmd |-> Built(Argv(format, ap)), totlen |-> Total(Argv(format, ap))]

\* The command of arguments that are split already: its length is added up first, in a
\* loop of its own, and it is then put together in as many bytes.
redisFormatCommandArgv(argv) ==
  [cmd |-> SubSeq(Built(argv), 1, Total(argv)), totlen |-> Total(argv)]

-----------------------------------------------------------------------------

Decimal(digits) ==
  LET v[i \in 0..Len(digits)] == IF i = 0 THEN 0 ELSE 10 * v[i - 1] + DigitOf[digits[i]]
  IN  v[Len(digits)]

\* The first argument in p and what comes after it; the length comes from the header.
nextArgument(p) ==
  LET dollar == SelectInSeq(p, LAMBDA c : c = "$")
      cr == SelectInSubSeq(p, dollar, Len(p), LAMBDA c : c = "\r")
      len == Decimal(SubSeq(p, dollar + 1, cr - 1))
  IN  [arg |-> SubSeq(p, cr + 2, cr + 1 + len), rest |-> SubSeq(p, cr + len + 4, Len(p))]

\* One more argument, if there is one.
WithNext(f) ==
  IF ~Contains(f.rest, "$") THEN f
  ELSE [args |-> Append(f.args, nextArgument(f.rest).arg), rest |-> nextArgument(f.rest).rest]

\* The arguments in p, in order; the shortest takes six symbols.
Arguments(p) ==
  LET found[k \in 0..Len(p) \div 6] ==
        IF k = 0 THEN [args |-> <<>>, rest |-> p] ELSE WithNext(found[k - 1])
  IN  found[Len(p) \div 6].args

=============================================================================
