-------------------------------- MODULE Wire --------------------------------
(***************************************************************************)
(* One subscription from end to end, byte by byte.  A client finds the     *)
(* peers in the list of its session and adds itself (bootWithPeers), two   *)
(* blocking calls; it subscribes to their channels.  Their texts are packed*)
(* (TSPacketSerializer), formatted and written piece by piece, taken and   *)
(* relayed by the server, read piece by piece, parsed, matched with the    *)
(* callback of their channel and unpacked for the handler.                 *)
(*                                                                         *)
(* RedisConnection models the asynchronous connections themselves, how they*)
(* are opened, scheduled and closed; here they stay open.  The texts are   *)
(* published one after the other, each on a connection of its own.         *)
(***************************************************************************)
EXTENDS BlockingCall, CallbackDict, FiniteSets

Code == INSTANCE Base64

String == INSTANCE Sds

Packets == INSTANCE Packets

CONSTANTS
  Registries,    \* what the list of the session may hold: sequences of [id, alias]
  Self,          \* the entry of the client itself
  ChannelLists,  \* subscribed to without a list, as the broadcast channel is
  Posts          \* the texts published: [by, text], by the number of the channel

ASSUME WireAssumption ==
  /\ DiscardAt \in Nat \ {0}
  /\ \A l \in ChannelLists : Len(l) > 0
  /\ \A i \in 1..Len(Posts) : Posts[i].text \in Seq(1..255)

VARIABLES
  before,      \* history: the entries of the list before the client came
  unread,      \* history: the client was refused the list
  channels,    \* the channels to subscribe to, once they are known
  phase,       \* how far the caller has come
  obuf,        \* the output buffer of the subscription
  inbox,       \* what the server has not taken of it yet
  listening,   \* the channels the server has for the subscription
  stream,      \* what is on its way to the subscriber
  reader,      \* the parser of the subscription
  table,       \* the callbacks of the subscription
  subscribed,  \* the flag REDIS_SUBSCRIBED
  open,        \* FALSE when the context has been torn down
  post,        \* the number of texts published so far
  pobuf,       \* the output buffer of the last PUBLISH
  pinbox,      \* what the server has not taken of it yet
  relayed,     \* history: the texts the server has relayed
  delivered,   \* history: the texts the handler was called with
  stray        \* history: a reply has found no callback

contextVars == <<reader, table, subscribed, open, delivered, stray>>
publishVars == <<post, pobuf, pinbox>>
bootVars == <<callVars, before, unread>>
vars == <<bootVars, channels, phase, obuf, inbox, listening, stream, publishVars,
          contextVars, relayed>>

Names(l) == {l[i] : i \in 1..Len(l)}

\* The client identifiers, joined as they are on the server.
Identifier(entry) == entry.id \o <<"_">> \o entry.alias
ListOf(entries) ==
  FoldLeft(LAMBDA s, e : IF s = <<>> THEN Identifier(e) ELSE s \o <<":">> \o Identifier(e),
           <<>>, entries)
Stored(entries) == IF entries = <<>> THEN NoValue ELSE Str(ListOf(entries))

TypeOK ==
  /\ CallTypeOK /\ unread \in BOOLEAN
  /\ channels \in ChannelLists \cup {[i \in DOMAIN l |-> l[i].id] : l \in Registries}
  /\ phase \in {"boot", "get", "put", "alone", "raised", "new", "subscribed", "left"}
  /\ IsReader(reader)
  /\ Keys(table) \subseteq DOMAIN Hash
  /\ subscribed \in BOOLEAN /\ open \in BOOLEAN /\ stray \in BOOLEAN
  /\ post \in 0..Len(Posts)
  /\ Len(delivered) <= Len(Posts)

\* A start of a session, or a subscription alone.
Init ==
  /\ \/ before \in Registries /\ phase = "boot" /\ channels = <<>>
     \/ before = <<>> /\ phase = "new" /\ channels \in ChannelLists
  /\ value = Stored(before) /\ call = CallAt("idle", <<>>) /\ failure = {}
  /\ unread = FALSE
  /\ obuf = <<>> /\ inbox = <<>> /\ listening = {} /\ stream = <<>>
  /\ reader = redisReaderCreate
  /\ table = EmptyDict
  /\ subscribed = FALSE /\ open = TRUE
  /\ post = 0 /\ pobuf = <<>> /\ pinbox = <<>>
  /\ relayed = <<>> /\ delivered = <<>>
  /\ stray = FALSE

-----------------------------------------------------------------------------
(***************************************************************************)
(* bootWithPeers, from the list of the session to the subscription.        *)
(***************************************************************************)

wireVars == <<obuf, inbox, listening, stream, publishVars, contextVars, relayed>>

Key == <<"k">>

\* componentsSeparatedByString:, for a separator of one symbol.
Components(s, separator) ==
  FoldLeft(LAMBDA parts, c : IF c = separator THEN Append(parts, <<>>)
                             ELSE Append(Front(parts), Append(Last(parts), c)),
           <<<<>>>>, s)

Set(list) == redisvFormatCommand(<<"SET", " ", "%", "s", " ", "%", "b">>, <<Key, list>>).cmd

stringValueForKey ==
  /\ phase = "boot"
  /\ phase' = "get"
  /\ Ask(redisvFormatCommand(<<"GET", " ", "%", "s">>, <<Key>>).cmd)
  /\ UNCHANGED <<value, before, unread, channels, wireVars>>

\* The first of a session, or taken for the first, for want of a string.
RegisterAlone ==
  /\ phase = "get" /\ call.at = "back" /\ call.reply.type # "string"
  /\ phase' = "put"
  /\ unread' = (failure # {})
  /\ Ask(Set(Identifier(Self)))
  /\ UNCHANGED <<value, before, channels, wireVars>>

\* Mutant: an alias with an underscore is taken for no peer.
RegisterAmongPeersStrict ==
  LET list == Components(call.reply.str, ":")
      tokens == [i \in 1..Len(list) |-> Components(list[i], "_")]
  IN  /\ phase = "get" /\ call.at = "back" /\ call.reply.type = "string"
      /\ IF \E i \in 1..Len(list) : Len(tokens[i]) # 2
         THEN phase' = "raised" /\ UNCHANGED <<callVars, channels>>
         ELSE /\ phase' = "put"
              /\ channels' = [i \in 1..Len(list) |-> tokens[i][1]]
              /\ Ask(Set(call.reply.str \o <<":">> \o Identifier(Self)))
              /\ UNCHANGED value
      /\ UNCHANGED <<before, unread, wireVars>>

\* A component without an underscore is no peer, and adding nil to the peers raises.
RegisterAmongPeers ==
  LET list == Components(call.reply.str, ":")
      tokens == [i \in 1..Len(list) |-> Components(list[i], "_")]
  IN  /\ phase = "get" /\ call.at = "back" /\ call.reply.type = "string"
      /\ IF \E i \in 1..Len(list) : Len(tokens[i]) < 2
         THEN phase' = "raised" /\ UNCHANGED <<callVars, channels>>
         ELSE /\ phase' = "put"
              /\ channels' = [i \in 1..Len(list) |-> tokens[i][1]]
              /\ Ask(Set(call.reply.str \o <<":">> \o Identifier(Self)))
              /\ UNCHANGED value
      /\ UNCHANGED <<before, unread, wireVars>>

\* setStringValue fails if there is no reply, and the assertion raises in a debug
\* build.  An error is a reply.
Registered ==
  /\ phase = "put" /\ call.at = "back"
  /\ \/ Free /\ phase' = IF channels = <<>> THEN "alone" ELSE "new"
     \/ call.reply = NoReply /\ phase' = "raised" /\ UNCHANGED <<call, failure>>
  /\ UNCHANGED <<value, before, unread, channels, wireVars>>

Proceeds == CallProceeds /\ UNCHANGED <<before, unread, channels, phase, wireVars>>

-----------------------------------------------------------------------------
(***************************************************************************)
(* Packets.  The type and the sender are left out of the JSON object; its  *)
(* library writes a slash as two characters.                               *)
(***************************************************************************)

JSONWithTextPacket(text) ==
  LET escaped == FoldLeft(LAMBDA s, c : s \o (IF c = "/" THEN <<"\\", c>> ELSE <<c>>),
                          <<>>, Code!base64_encode(text))
  IN  <<"{">> \o escaped \o <<"}">>

dictionaryFromJSON(json) ==
  Code!base64_decode(SelectSeq(SubSeq(json, 2, Len(json) - 1), LAMBDA c : c # "\\"))

(***************************************************************************)
(* The commands.  The text of SUBSCRIBE is the format itself, while the    *)
(* channel of PUBLISH is a value.                                          *)
(***************************************************************************)

subscribeToChannel ==
  LET cmd == redisvFormatCommand(SubscribeFormat(channels), <<>>).cmd
      named == Tail(Arguments(cmd))
  IN  /\ phase = "new"
      /\ phase' = "subscribed"
      /\ subscribed' = TRUE
      /\ table' = FoldLeft(LAMBDA ht, name : dictReplace(ht, name), table, named)
      /\ obuf' = obuf \o cmd
      /\ UNCHANGED <<bootVars, channels, inbox, listening, stream, publishVars, reader, open,
                     delivered, stray, relayed>>

\* Refused by __redisAsyncCommand when nothing is subscribed.
unsubscribeAll ==
  /\ phase = "subscribed" /\ open
  /\ phase' = "left"
  /\ obuf' = IF subscribed THEN obuf \o redisvFormatCommand(<<"UNSUBSCRIBE">>, <<>>).cmd ELSE obuf
  /\ UNCHANGED <<bootVars, channels, inbox, listening, stream, publishVars, contextVars,
                 relayed>>

ChannelOf(n) == channels[1 + ((Posts[n].by - 1) % Len(channels))]

Published(n) ==
  redisvFormatCommand(<<"PUBLISH", " ", "%", "s", " ", "%", "b">>,
                      <<ChannelOf(n), JSONWithTextPacket(Posts[n].text)>>)

\* The next text, when the server has taken the one before it.  What is published
\* while the client still looks for its peers is published to nobody.
publish ==
  /\ phase \in {"new", "subscribed", "left"}
  /\ post < Len(Posts) /\ pobuf = <<>> /\ pinbox = <<>>
  /\ post' = post + 1
  /\ pobuf' = Published(post + 1).cmd
  /\ UNCHANGED <<bootVars, channels, phase, obuf, inbox, listening, stream, pinbox, contextVars,
                 relayed>>

-----------------------------------------------------------------------------

WriteSubscription ==
  \E n \in Portions(obuf, ShortWrite) :
    /\ open
    /\ inbox' = inbox \o SubSeq(obuf, 1, n)
    /\ obuf' = Written(obuf, n)
    /\ UNCHANGED <<bootVars, channels, phase, listening, stream, publishVars, contextVars,
                   relayed>>

WritePublish ==
  \E n \in Portions(pobuf, ShortWrite) :
    /\ pinbox' = pinbox \o SubSeq(pobuf, 1, n)
    /\ pobuf' = Written(pobuf, n)
    /\ UNCHANGED <<bootVars, channels, phase, obuf, inbox, listening, stream, post, contextVars,
                   relayed>>

-----------------------------------------------------------------------------
(***************************************************************************)
(* The server answers a command for each of its channels.                  *)
(***************************************************************************)

Sends(replies) ==
  stream' = stream \o FlattenSeq([i \in 1..Len(replies) |-> Encode(replies[i])])

ServerSubscribes ==
  \E cmd \in {Command(inbox)} :
    LET names == Tail(cmd.args)
        count(i) == Cardinality({names[j] : j \in 1..i})
    IN
      /\ cmd.complete /\ cmd.args[1] = <<"SUBSCRIBE">>
      /\ inbox' = cmd.rest
      /\ \/ /\ listening' = Names(names)
            /\ Sends([i \in 1..Len(names) |-> Push("subscribe", names[i], Num(count(i)))])
         \/ /\ Sends(<<Loading>>)
            /\ UNCHANGED listening
      /\ UNCHANGED <<bootVars, channels, phase, obuf, publishVars, contextVars, relayed>>

ServerUnsubscribes ==
  \E cmd \in {Command(inbox)} :
    LET names == SetToSeq(listening)
        left(i) == Len(names) - i
    IN
      /\ cmd.complete /\ cmd.args[1] = <<"UNSUBSCRIBE">>
      /\ inbox' = cmd.rest
      /\ listening' = {}
      /\ Sends([i \in 1..Len(names) |-> Push("unsubscribe", names[i], Num(left(i)))])
      /\ UNCHANGED <<bootVars, channels, phase, obuf, publishVars, contextVars, relayed>>

ServerPublishes ==
  \E cmd \in {Command(pinbox)} :
  /\ cmd.complete
  /\ pinbox' = cmd.rest
  /\ IF cmd.args[2] \in listening
     THEN /\ Sends(<<Push("message", cmd.args[2], Str(cmd.args[3]))>>)
          /\ relayed' = Append(relayed, Posts[post].text)
     ELSE UNCHANGED <<stream, relayed>>
  /\ UNCHANGED <<bootVars, channels, phase, obuf, inbox, listening, post, pobuf, contextVars>>

-----------------------------------------------------------------------------
(***************************************************************************)
(* The subscriber: redisAsyncHandleRead.  A context is the part of the     *)
(* state that a reply changes.                                             *)
(***************************************************************************)

\* Mutant: the first channel that is dropped ends the subscription.
DispatchEarlyEnd(c, reply) ==
  LET kind == reply.element[1].str[1]  name == reply.element[2].str IN
  IF kind # "unsubscribe" THEN c
  ELSE [c EXCEPT !.table = dictDelete(@, name), !.subscribed = FALSE]

\* __redisGetSubscribeCallback, for a channel that is in the table.
Dispatch(c, reply) ==
  LET kind == reply.element[1].str[1]  name == reply.element[2].str IN
  IF kind # "unsubscribe" THEN c
  ELSE [c EXCEPT !.table = dictDelete(@, name),
                 !.subscribed = @ /\ reply.element[3].integer # 0]

\* rcSubscribeWithOptions: only a message has a string in the third place.
rcSubscribeWithOptions(c, reply) ==
  LET third == reply.element[3] IN
  IF third.type # "string" THEN c
  ELSE [c EXCEPT !.delivered = Append(@, dictionaryFromJSON(third.str))]

\* An error is not expected by anyone and closes the connection.  A reply for a
\* channel that is not in the table, or out of a subscription, has no callback.
Handle(c, reply) ==
  CASE reply.type = "error" -> [c EXCEPT !.open = FALSE]
    [] reply.type # "error" ->
         IF c.subscribed /\ dictFind(c.table, reply.element[2].str)
         THEN rcSubscribeWithOptions(Dispatch(c, reply), reply)
         ELSE [c EXCEPT !.stray = TRUE]

\* redisProcessCallbacks: until there is no reply left.
RECURSIVE Proceed(_, _)
Continue(c) == IF c.open THEN Proceed(c, redisReaderGetReply(c.reader)) ELSE c
Proceed(c, got) ==
  CASE got.r.err # "none" -> [c EXCEPT !.reader = got.r, !.open = FALSE]
    [] got.r.err = "none" /\ got.reply.type = "none" -> [c EXCEPT !.reader = got.r]
    [] OTHER -> Continue(Handle([c EXCEPT !.reader = got.r], got.reply))

redisProcessCallbacks(c) == Proceed(c, redisReaderGetReply(c.reader))

redisAsyncHandleRead ==
  \E n \in Portions(stream, ShortRead) :
  \E c \in {redisProcessCallbacks(
               [reader |-> redisReaderFeed(reader, SubSeq(stream, 1, n)),
                table |-> table, subscribed |-> subscribed, open |-> open,
                delivered |-> delivered, stray |-> stray])} :
    /\ open
    /\ stream' = SubSeq(stream, n + 1, Len(stream))
    /\ reader' = c.reader /\ table' = c.table /\ subscribed' = c.subscribed
    /\ open' = c.open /\ delivered' = c.delivered
    /\ stray' = c.stray
    /\ UNCHANGED <<bootVars, channels, phase, obuf, inbox, listening, publishVars, relayed>>

-----------------------------------------------------------------------------

Write == WriteSubscription \/ WritePublish

Receive ==
  \/ ServerSubscribes \/ ServerUnsubscribes \/ ServerPublishes
  \/ redisAsyncHandleRead

Boot == stringValueForKey \/ RegisterAlone \/ RegisterAmongPeers \/ Registered \/ Proceeds

Next == Boot \/ Write \/ Receive \/ subscribeToChannel \/ unsubscribeAll \/ publish

Spec == Init /\ [][Next]_vars

\* What enables Receive.
Arrived ==
  \/ Command(inbox).complete \/ Command(pinbox).complete
  \/ open /\ stream # <<>>

(***************************************************************************)
(* As long as a buffer can be written, something is written, and as long   *)
(* as a command or bytes have arrived, some are taken: the sockets are     *)
(* watched as RedisConnection shows.  No one has to subscribe, to publish  *)
(* or to leave.  The second conjunct is WF_vars(Receive), with ENABLED     *)
(* written out.                                                            *)
(***************************************************************************)
Fairness == WF_vars(Write) /\ ([]<>~Arrived \/ []<><<Receive>>_vars)

FairSpec == Spec /\ Fairness

-----------------------------------------------------------------------------

\* The list is left as it was or with the client added and nobody lost, and a GET that
\* got through makes the client listen to those on the list.
NobodyDropsOut ==
  LET added == Stored(IF unread THEN <<Self>> ELSE Append(before, Self)) IN
  /\ value \in {Stored(before), added}
  /\ phase = "put" /\ call.at = "back" /\ failure = {} =>
       value = added /\ (unread \/ channels = [i \in DOMAIN before |-> before[i].id])

\* The assertions in bootWithPeers, and the insertion of nil into the peers.
RaisedHasACause ==
  phase = "raised" =>
    failure \cap {"unconnected", "lost"} # {} \/ \E e \in Names(before) : Contains(e.alias, ":")

(***************************************************************************)
(* "Add self to list, for the benefit of future participants"              *)
(* (TSPlasterController.m:186): wherever commands and replies are cut, a   *)
(* start drops nobody from the list.  Nothing but a GET that fails, twice  *)
(* without a connection, on the way or with an error, which                *)
(* stringValueForKey does not tell from a key that is missing, makes the   *)
(* client replace the list of its peers with itself.  And a start goes     *)
(* through to its subscription, unless the SET gets no answer or the alias *)
(* of somebody in the list holds a colon, at which the list is split: then *)
(* nobody after them can join.                                             *)
(***************************************************************************)
StartsLoseNobody == NobodyDropsOut /\ RaisedHasACause

ArgumentsOf(n) == <<<<"PUBLISH">>, ChannelOf(n), JSONWithTextPacket(Posts[n].text)>>

(***************************************************************************)
(* The command of a PUBLISH is as long as computed ("assert(pos ==         *)
(* totlen)", hiredis.c:890) and, however it is cut into writes, the server *)
(* reads the three arguments from it and nothing else; formatted from the  *)
(* arguments themselves it is the same command.                            *)
(***************************************************************************)
FormatIsExact ==
  \/ pobuf = <<>> /\ pinbox = <<>>
  \/ /\ Published(post).totlen = Len(pinbox \o pobuf)
     /\ Command(pinbox \o pobuf) = [complete |-> TRUE, rest |-> <<>>, args |-> ArgumentsOf(post)]
     /\ redisFormatCommandArgv(ArgumentsOf(post)) = Published(post)

(***************************************************************************)
(* The texts the server relays reach the handler intact, in order and      *)
(* once each, wherever the stream is cut.                                  *)
(***************************************************************************)
Promise == INSTANCE MessageRelay WITH Text <- {Posts[i].text : i \in 1..Len(Posts)}

ImplementsRelay == Promise!RelaySpec

\* With no callback the code runs an uninitialised one (async.c:389, 442), and when the
\* flag has been cleared it fails an assertion (async.c:437).  The table holds each
\* channel once, in the slot of its hash, also after it has grown.
CallbacksAreFound ==
  /\ ~stray
  /\ Len(Entries(table)) = table.used /\ Cardinality(Keys(table)) = table.used
  /\ \A key \in Keys(table) : dictFind(table, key)
  /\ listening \subseteq Keys(table)

(***************************************************************************)
(* A client listens to the channels its peers publish on, unless the name  *)
(* of one holds a space or a "%": the text of SUBSCRIBE is used as a format*)
(* (TSRedisController.m:524), the channel of PUBLISH is not (:609).        *)
(***************************************************************************)
SubscribedIsPublished ==
  listening # {} /\ (\A name \in Names(channels) : Plain(name)) => listening = Names(channels)

(***************************************************************************)
(* Both commands say what the client means to say, PUBLISH always and      *)
(* SUBSCRIBE for plain names (TSRedisController.m:524 and 609), and every  *)
(* reply on a subscription finds the callback of its channel in the table, *)
(* which holds all the server has for this subscription.                   *)
(***************************************************************************)
CallsAreExact == FormatIsExact /\ SubscribedIsPublished /\ CallbacksAreFound

\* Small payloads at the edges: the lengths and the bits of the encoding.
Samples == UNION {[1..n -> {1, 63, 254, 255}] : n \in 0..4}

(***************************************************************************)
(* TSBase64 is the encoding of its definition, and decoding undoes it, for *)
(* every rest and with all bits of a byte set or not.                      *)
(***************************************************************************)
Base64IsExact ==
  post = 0 /\ phase = "new" =>
  \A b \in Samples :
    /\ Code!base64_encode(b) = Code!EncodedByBits(b)
    /\ Code!base64_decode(Code!base64_encode(b)) = b

\* A file may be empty or unreadable, a text empty.
SamplePasteboards ==
  {p \in UNION {[held -> {<<>>, <<63, 255>>, Packets!Unreadable}] : held \in SUBSET Packets!Kinds} :
     \A k \in DOMAIN p : /\ p[k] = Packets!Unreadable => k = "file"
                         /\ p[k] = <<>> => k # "image"}

(***************************************************************************)
(* What arrives is a representation that both profiles allow, whole and    *)
(* where the receiver wants it; a pasteboard with a file that may leave a  *)
(* Mac is never published as its icon or its name, even if the file cannot *)
(* be sent.  The one content that is not kept is that of an empty file,    *)
(* and a phone takes neither files nor file mode.                          *)
(***************************************************************************)
PacketsAreExact ==
  post = 0 /\ phase = "new" =>
  \A from, to \in {"mac", "phone"} : \A mode \in {"pasteboard", "file"} :
  \A pboard \in SamplePasteboards : \A out, in \in [Packets!Kinds -> BOOLEAN] :
    Packets!ArrivesWhole(from, to, pboard, out, in, mode, <<70, 58, 35>>, "s", "now")

\* An array in an array, and so on, n deep.
Nested[n \in Nat] == IF n = 0 THEN Num(-12) ELSE createArrayObject(<<Str(<<"x">>), Nested[n - 1]>>)

SampleReplies == <<
  Str(<<>>), Str(<<"\r">>), Str(<<"\r", "\n">>), Str([i \in 1..10 |-> "x"]), createNilObject,
  Num(0), Num(-1), Done, createStringObject("error", <<"E", "\r">>),
  createArrayObject(<<>>), createArrayObject(<<createNilObject, createArrayObject(<<>>), Num(7)>>), Nested[1], Nested[8]>>

(***************************************************************************)
(* Wherever the bytes of a reply are cut in two, and whatever follows it,  *)
(* the parser has none after the first piece and exactly this one after    *)
(* the second, up to the eight arrays in one another that it supports; and *)
(* it does not see the cut, inside the reply or behind it.                 *)
(***************************************************************************)
ReaderIsExact ==
  post = 0 /\ phase = "new" =>
  \A i \in 1..Len(SampleReplies) :
    \A bytes \in {Encode(SampleReplies[i])} : \A n \in 0..Len(bytes) :
      \A x \in {SubSeq(bytes, 1, n)}, y \in {SubSeq(bytes, n + 1, Len(bytes)) \o <<"*">>} :
        /\ CutIsNotSeen(redisReaderCreate, x, y)
        /\ n < Len(bytes) =>
             \E first \in {Fed(redisReaderCreate, x)} : \E second \in {Fed(first.r, y)} :
               first.reply = NoReply /\ second.reply = SampleReplies[i] /\ Left(second.r) = <<"*">>

\* All sequences of up to n of the symbols.
Texts(symbols, n) == UNION {[1..k -> symbols] : k \in 0..n}

\* What is read of a symbol that sdscatrepr has quoted: "\x" is not read as it is written.
Reread(c) == IF c \in String!Unprintable THEN <<"x">> \o String!Hex(c) ELSE <<c>>

(***************************************************************************)
(* The strings of sds.c never hold more than there is room for, nor lose   *)
(* room, and what growing and cutting them gives is what it is for.        *)
(***************************************************************************)
BuffersAreExact ==
  \A t, u \in Texts({"a", "b"}, 3) : \A s \in {String!sdsnewlen(t)} : \A n \in 0..3 :
    LET longer == String!sdscatlen(s, u) IN
    /\ longer.buf = t \o u /\ String!sdscpylen(s, u).buf = u
    /\ n <= Len(t) => String!sdsrange(s, n, -1).buf = SubSeq(t, n + 1, Len(t))
    /\ n \in 1..Len(t) => String!sdsrange(s, -n, -1) = String!sdsrange(s, Len(t) - n, Len(t) - 1)
    /\ String!sdsupdatelen(String!sdsgrowzero(s, n)).buf = t
    /\ \A r \in {longer, String!sdscpylen(s, u), String!sdsgrowzero(longer, n),
                 String!sdscatlen(longer, t), String!sdsrange(longer, n, -1)} :
         r.free \in Nat /\ String!Size(r) >= Len(t)
    /\ \E c \in {String!sdscmp(s, String!sdsnewlen(u), [a |-> 97, b |-> 98])} :
         (c = 0) = (t = u) /\ (IsPrefix(t, u) => c <= 0)

\* What is formatted is never cut at the end of a buffer.
PrintsAreExact ==
  \A n \in {0, 9, 13, 14, 15, 16, 29, 30, 31, 40} : \A t \in {[i \in 1..n |-> "a"]} :
    String!sdscatvprintf(String!sdsnewlen(<<"b">>), t).buf = <<"b">> \o t

\* What is trimmed is the middle.
TrimsAreExact ==
  \A t \in Texts({"a", " ", String!NUL}, 3) :
    \A m \in {String!sdstrim(String!sdsnewlen(t), {" "}).buf} :
      /\ \E i, j \in 0..Len(t) :
           /\ m = SubSeq(t, i + 1, j)
           /\ "a" \notin ToSet(SubSeq(t, 1, i) \o SubSeq(t, j + 1, Len(t)))
      /\ m # <<>> => m[1] = "a" /\ Last(m) = "a"

\* The tokens of a split, joined, are the text, and none holds the separator.
SplitsAreExact ==
  \A t \in Texts({"a", "-"}, 4) : \A sep \in {<<"-">>, <<"-", "-">>, <<"-", "a">>} :
    \A tokens \in {String!sdssplitlen(t, sep)} :
      /\ t # <<>> => sep \o t = FoldLeft(LAMBDA r, k : r \o sep \o k, <<>>, tokens)
      /\ \A k \in ToSet(tokens) : \A i \in 1..Len(k) :
           i + Len(sep) - 1 <= Len(k) => SubSeq(k, i, i + Len(sep) - 1) # sep

\* A quoted text is read as it was, as far as it can be printed or has a letter, and a
\* number as the number.
QuotesAreExact ==
  /\ \A t \in Texts({"x", " ", "\\", "\"", "\n", "ESC"}, 3) :
       String!sdssplitargs(String!sdscatrepr(String!sdsnewlen(<<>>), t).buf)
         = <<FlattenSeq([i \in DOMAIN t |-> Reread(t[i])])>>
  /\ \A v \in (-12..12) \cup {99, 100, -100} : readLongLong(String!sdsfromlonglong(v).buf) = v

StringsAreExact ==
  post = 0 /\ phase = "new" =>
    BuffersAreExact /\ PrintsAreExact /\ TrimsAreExact /\ SplitsAreExact /\ QuotesAreExact

(***************************************************************************)
(* What TSBase64.c, the packets and the parser of hiredis.c do with single *)
(* payloads and replies, the cuts included, is what they are for.          *)
(***************************************************************************)
CodecsAreExact == Base64IsExact /\ PacketsAreExact /\ ReaderIsExact /\ StringsAreExact

(***************************************************************************)
(* A text published while the server listens for it reaches the handler,   *)
(* unless the client leaves.                                               *)
(***************************************************************************)
EverythingArrives ==
  \A n \in 1..Len(Posts) :
    post = n /\ pobuf # <<>> /\ ChannelOf(n) \in listening
      ~> Contains(delivered, Posts[n].text) \/ phase = "left"

=============================================================================
