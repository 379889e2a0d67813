-------------------------------- MODULE Sds ---------------------------------
(***************************************************************************)
(* The strings of sds.c, which hiredis keeps what it reads and writes in:  *)
(* the symbols, and how many more there is room for behind them.  (That a  *)
(* terminating NUL fits behind the room is by construction: every size the *)
(* code allocates is one more.)                                            *)
(*                                                                         *)
(* A symbol is one character; NUL, and those that are written "\x..", are  *)
(* symbols whose names nothing looks into.                                 *)
(***************************************************************************)
EXTENDS Integers, Sequences, SequencesExt, FiniteSetsExt, TLC

NUL == "NUL"
Backslash == "\\"
Quote == "\""

sdsnewlen(init) == [buf |-> init, free |-> 0]

sdslen(s)   == Len(s.buf)
sdsavail(s) == s.free
Size(s)     == sdslen(s) + sdsavail(s)

\* How a C string ends.
strlen(t) == LET nul == SelectInSeq(t, LAMBDA c : c = NUL) IN IF nul = 0 THEN Len(t) ELSE nul - 1

\* The string is now t, in the same place.
Put(s, t) == [buf |-> t, free |-> Size(s) - Len(t)]

-----------------------------------------------------------------------------
(***************************************************************************)
(* Growing and shrinking.                                                  *)
(***************************************************************************)

sdsupdatelen(s) == Put(s, SubSeq(s.buf, 1, strlen(s.buf)))

sdsMakeRoomFor(s, addlen) ==
  IF sdsavail(s) >= addlen THEN s ELSE [s EXCEPT !.free = (sdslen(s) + addlen) * 2 - sdslen(s)]

sdsgrowzero(s, len) ==
  IF len <= sdslen(s) THEN s
  ELSE Put(sdsMakeRoomFor(s, len - sdslen(s)), s.buf \o [i \in 1 .. len - sdslen(s) |-> NUL])

sdscatlen(s, t) == Put(sdsMakeRoomFor(s, Len(t)), s.buf \o t)

sdscpylen(s, t) ==
  Put(IF Size(s) < Len(t) THEN sdsMakeRoomFor(s, Len(t) - sdslen(s)) ELSE s, t)

\* The text is formatted into a buffer of 16, and into one twice as long until the last
\* place but one, which was set to NUL, is NUL still.
PrintBuffer(text) ==
  16 * 2^(CHOOSE k \in 0 .. 8 :
            /\ strlen(text) <= 16 * 2^k - 2
            /\ \A j \in 0 .. k - 1 : strlen(text) > 16 * 2^j - 2)

sdscatvprintf(s, text) == sdscatlen(s, SubSeq(text, 1, Min({strlen(text), PrintBuffer(text) - 1})))

\* strchr finds the terminating NUL too.
Strips(cset, c) == c \in cset \cup {NUL}

\* The forward scan stops behind the end, the backward one at the first symbol.
sdstrim(s, cset) ==
  LET sp == IF \A i \in 1 .. sdslen(s) : Strips(cset, s.buf[i]) THEN sdslen(s) + 1
            ELSE SelectInSeq(s.buf, LAMBDA c : ~Strips(cset, c))
      ep == Max({Min({1, sdslen(s)})} \cup {i \in 1 .. sdslen(s) : ~Strips(cset, s.buf[i])})
  IN  Put(s, SubSeq(s.buf, sp, ep))

\* Indexes from 0; negative ones count from the end, where -1 is the last symbol.
Index(s, i) == IF i < 0 THEN Max({0, sdslen(s) + i}) ELSE i

sdsrange(s, start, end) ==
  IF sdslen(s) = 0 THEN s
  ELSE Put(s, SubSeq(s.buf, Index(s, start) + 1, Min({Index(s, end) + 1, sdslen(s)})))

-----------------------------------------------------------------------------
(***************************************************************************)
(* Comparing, splitting and quoting.                                       *)
(***************************************************************************)

\* Negative, zero or positive; code numbers the symbols.
sdscmp(s1, s2, code) ==
  LET l1 == sdslen(s1)  l2 == sdslen(s2)
      differ == {i \in 1 .. Min({l1, l2}) : s1.buf[i] # s2.buf[i]}
  IN  IF differ = {} THEN l1 - l2
      ELSE code[s1.buf[Min(differ)]] - code[s2.buf[Min(differ)]]

\* The search goes on behind each separator found; the last token is what remains.
RECURSIVE SplitFrom(_, _, _, _)
SplitFrom(t, sep, start, j) ==
  CASE j > Len(t) - (Len(sep) - 1) -> <<SubSeq(t, start, Len(t))>>
    [] j <= Len(t) - (Len(sep) - 1) /\ SubSeq(t, j, j + Len(sep) - 1) = sep ->
         <<SubSeq(t, start, j - 1)>> \o SplitFrom(t, sep, j + Len(sep), j + Len(sep))
    [] OTHER -> SplitFrom(t, sep, start, j + 1)

sdssplitlen(t, sep) == IF t = <<>> THEN <<>> ELSE SplitFrom(t, sep, 1, 1)

sdsfromlonglong(value) ==
  LET RECURSIVE Rest(_)
      Rest(v) == IF v < 10 THEN <<ToString(v)>> ELSE Append(Rest(v \div 10), ToString(v % 10))
  IN  sdsnewlen((IF value < 0 THEN <<"-">> ELSE <<>>) \o Rest(IF value < 0 THEN -value ELSE value))

Blank == {" ", "\n", "\r", "\t", "VT", "\f"}

\* The letters that stand for what cannot be printed.
Letter == [c \in {"\n", "\r", "\t", "BEL", "BS"} |->
             CASE c = "\n" -> "n" [] c = "\r" -> "r" [] c = "\t" -> "t"
               [] c = "BEL" -> "a" [] c = "BS" -> "b"]

\* The two digits of the code of any other.
Hex(c) == <<c, "in hexadecimal">>

Unprintable == {NUL, "VT", "\f", "ESC"}

Represented(c) ==
  CASE c \in {Backslash, Quote}  -> <<Backslash, c>>
    [] c \in DOMAIN Letter       -> <<Backslash, Letter[c]>>
    [] c \in Unprintable         -> <<Backslash, "x">> \o Hex(c)
    [] OTHER                     -> <<c>>

sdscatrepr(s, t) ==
  sdscatlen(FoldLeft(LAMBDA r, c : sdscatlen(r, Represented(c)), sdscatlen(s, <<Quote>>), t), <<Quote>>)

\* What a symbol behind a backslash stands for: there is no case for "x".
Meant(c) ==
  IF \E d \in DOMAIN Letter : Letter[d] = c THEN CHOOSE d \in DOMAIN Letter : Letter[d] = c ELSE c

\* A token that begins at p: <<"error">>, or the token and where it ends.
RECURSIVE Token(_, _, _, _)
Token(line, p, inq, current) ==
  LET at(i) == IF i > Len(line) THEN NUL ELSE line[i]
      c == at(p)
  IN
  CASE inq /\ c = Backslash /\ at(p + 1) # NUL ->
         Token(line, p + 2, TRUE, Append(current, Meant(at(p + 1))))
    [] inq /\ c = Quote ->
         IF at(p + 1) # NUL /\ at(p + 1) \notin Blank THEN [error |-> TRUE]
         ELSE [error |-> FALSE, token |-> current, next |-> p + 1]
    [] inq /\ c = NUL -> [error |-> TRUE]
    [] inq /\ c \notin {Quote, NUL} /\ ~(c = Backslash /\ at(p + 1) # NUL) ->
         Token(line, p + 1, TRUE, Append(current, c))
    [] ~inq /\ c \in {" ", "\n", "\r", "\t", NUL} ->
         [error |-> FALSE, token |-> current, next |-> IF c = NUL THEN p ELSE p + 1]
    [] ~inq /\ c = Quote -> Token(line, p + 1, TRUE, current)
    [] OTHER -> Token(line, p + 1, FALSE, Append(current, c))

\* The arguments on a line, or "error".
RECURSIVE ArgsFrom(_, _, _)
ArgsFrom(line, p, vector) ==
  CASE p > Len(line) \/ (p <= Len(line) /\ line[p] = NUL) -> vector
    [] p <= Len(line) /\ line[p] \in Blank -> ArgsFrom(line, p + 1, vector)
    [] OTHER ->
         LET t == Token(line, p, FALSE, <<>>) IN
         IF t.error THEN "error" ELSE ArgsFrom(line, t.next, Append(vector, t.token))

sdssplitargs(line) == ArgsFrom(line, 1, <<>>)
=============================================================================
