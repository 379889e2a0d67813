# A verification project for plaster.io

plaster.io shares the clipboards of several devices through a Redis server. A
*session* is a key that its participants exchange by hand. Every client of a
session watches its own pasteboard, publishes what its user copies on a channel
of its own, and pastes what the others publish.

This directory holds TLA+ models of the core of the program, TLC configurations
that check them on small instances, and TLAPS proofs of what they claim for
every instance. The paths below are relative to `src/`; `NA/` stands for
`src/PlasterNA/PlasterNA/`.

## 1. The system

There are three clients: `Plaster/` (a first prototype), `PlasterNA/` (the macOS
menu-bar application, the one in use) and `Plaster-iOS/`. They share their design
and much of their text. They talk to Redis through a copy of hiredis
(`TSLHiredis`, `TSLHiredisiOS`) and encode images with `TSBase64`. There are
next to no tests: `Plaster/PlasterTests` sets and reads a key. The models follow
`PlasterNA`, and say where they follow another.

### Components

| Component (source) | State it keeps | Operations | What is hard | What makes it correct |
|---|---|---|---|---|
| Session membership (`NA/TSPlasterController.m` 151-289, 729-787, 855-886; `TSPlasterPeer.m`; `TSAppDelegate.m` 94-176, 402-408) | `_plasterPeers`, running/started flags, the saved session key; on the server the string of participants under the peers key | `start`/`bootWithPeers:`, `stop`, the HELLO/GOODBYE handler, `disconnectFromSessions:` at launch, quit, crash | the participants' string is read and replaced in two round trips; broadcasts and subscriptions run on connections of their own and in any order; a process may end anywhere | whoever is in the session is listed; whoever has left is not; running clients know and hear each other; leftovers get cleaned up |
| Pasteboard monitor and paste handling (`NA/TSPlasterController.m` 331-483, 534-679; `TSPlasterString.m`, `TSPlasterImage.m`, `TSPlasterFile.m`) | `started`, the remembered change count, the pasteboard (shared with every application), the handler table with one invocation per handler | `onTimer` each 100 ms, `plaster:`, `handlePlasterInWithData:` | a tick makes three separate calls to a pasteboard that a paste or another application may replace in between; a cancelled timer may still be ticking; all connections share one argument | what was received is not sent on; what was copied before the start stays private; clipboards converge |
| File transfer (`NA/TSPlasterController.m` 360-430, 681-720, 797-824) | one slot of options in the handler table, a key with an expiry on the server | SET, EXPIRE, notification, fetch | two transfers in the one slot; the SET and the EXPIRE are separate; a fetch after the expiry | each notification names the file it is about; every key expires |
| Redis provider (`NA/TSRedisController.m`) | a table of 100 subscriber connections, a terminator connection, semaphores of waiting callers | subscribe, unsubscribe all, publish, blocking GET/SET/DEL/INCR/EXPIRE, asynchronous SET | callbacks on a concurrent queue, blocking waits without a time-out, the table's limit, the reply that closes a connection is compared in the wrong case | no connection is leaked, no caller waits for ever |
| Event dispatcher (`NA/TSEventDispatcher.m`) | named timers; per connection a read and a write source with flags | `dispatchTask`, `stopTask`, the adapter of hiredis (add/del read/write, clean-up) | flags without a lock on a concurrent queue; the context is freed while the other handler may run; cancelled timers still inside a tick | a source is never resumed or suspended twice, nothing is used after it is freed |
| hiredis asynchronous context (`TSLHiredis/async.c`) | callback lists, subscriptions, connection flags, output buffer | commands, replies, disconnect | it is written for one thread, and two handlers and a caller run it at once | a callback runs once; what is in the buffer gets written; a closed connection is freed after its last use |
| hiredis protocol (`TSLHiredis/hiredis.c`, `sds.c`, `dict.c`) | the bytes not parsed yet and the stack of incomplete arrays; the hash table of channels | formatting of commands, parsing of replies, look-up of a callback | a reply may be cut anywhere, several may arrive at once, the table grows | one reply in, one reply out, wherever the stream is cut |
| Delegate, profiles, preferences (`NA/TSAppDelegate.m`, `TSClientPreferenceController.m`, ...) | user defaults: profiles, session keys; the state of the menu | launch, start, stop, quit, rename, edit of profiles | the delegate and a window each write back whole dictionaries; edits stay in a view while the rows behind it change; panels stay open while sessions come and go | no saved profile is lost; a session has the profile that was made for it |
| iOS client (`Plaster-iOS/Plaster-iOS/`) | one controller per profile, one provider for all of them, background tasks, one session key in the user defaults | as above, per profile; profiles added, edited, removed; the expiry of a background task stops its session | a stop empties the table of subscriptions that all sessions share; a background task outlives the stop of its session; an edited profile's controller lives on; the clean-up asks for a session called "sessions" | a stop takes only its own session off the air and off the list; a session has no second self for a peer |
| Packets (`NA/TSPacketSerializer.m`, the filters of `plaster:` and `handlePlasterInWithData:`) | none | what is sent of a pasteboard, what is made of a packet | several representations of one copy, filters on both sides, an empty file | what is allowed arrives as it was copied, the rest does not |
| Base64 (`TSBase64/TSBase64/TSBase64.c`) | none | encode, decode | padding and lengths at the edges | decode inverts encode |
| Prototype (`Plaster/Plaster/`) | the session id in the user defaults, one connection to publish on, one to ask on, a table of subscribers, `_peers` | launch, the start panel, start, stop, quit, the preferences window | start and stop each read the session id from the defaults; handler bundles are freed while messages are on their way; a connection once in error stays so | whoever runs is on the list of its session, whoever stopped on none; nothing is used after it is freed |
| UI resources, `MAAttachedWindow`, `TSStack` | none of the protocol | - | - | - |

### How they interact

The delegate drives the controller from the main thread (`start`, `stop`). The
controller calls the provider: a GET, SET or DEL blocks the caller for a round
trip on a connection of its own, a PUBLISH or SUBSCRIBE is handed to a new
asynchronous connection and not waited for. The dispatcher runs the sources of
all connections and the timer of the monitor on a *concurrent* global queue
(`TSEventDispatcher.m` 87), so that handlers of different connections, a tick
and the main thread run at the same time. The provider's subscriber callback
(`TSRedisController.m` 211-255) invokes the controller's handlers on those
threads. The pasteboard is shared with every application on the device, the
participants' string with every client of the session.

## 2. The modules

| Module | What it is |
|---|---|
| `PlasterSession` | the clients of one session against the Redis server: membership |
| `SessionRoster` | abstract specification of the registry: join, leave, vanish, purge as single steps |
| `MCPlasterSession` | constants of its TLC runs |
| `PlasterSessionProofs` | types, listing, leftovers, peers are subscribed to, nobody is its own peer, settled sessions agree, the refinement of `SessionRoster` |
| `PasteboardMonitor` | the pasteboards of the clients, the monitor and the paste handler |
| `MCPasteboardMonitor` | constants of its TLC runs |
| `PasteboardMonitorProofs` | types, no echo, privacy of what was copied at rest, settled clipboards agree |
| `RedisConnection` | asynchronous connections: contexts, dispatch sources, table of subscribers, `unsubscribeAll` |
| `AsyncCall` | abstract specification of an asynchronous command |
| `MCRedisConnection` | constants of its TLC run |
| `RedisConnectionProofs` | types, the refinement of `AsyncCall`, scheduled writes, no forgotten listener, no fault without a cause |
| `FileTransfer` | the way of a copied file to the pasteboards of the others |
| `MCFileTransfer` | constants of its TLC run |
| `FileTransferProofs` | types and the four safety properties |
| `Wire` | a start and a subscription byte by byte, composed of the modules below |
| `Base64` | `TSBase64` |
| `RedisCommand`, `RedisReader` | the formatter and the parser of hiredis |
| `RedisServer` | the server's parser and answers |
| `BlockingCall` | a blocking command: `redisConnect`, `redisCommand`, the provider's second try |
| `CallbackDict` | the hash table of channels |
| `MessageRelay` | abstract specification of a subscription |
| `Packets` | what is sent of a pasteboard, and what becomes of it |
| `Sds` | the strings of hiredis |
| `CodecProofs` | Base64, packets, formatter and parser, for every payload, command and stream |
| `MCWire` | constants of its TLC run |
| `ProfileSessions` | one iOS device with several sessions over one provider, among other devices |
| `MCProfileSessions` | constants of its TLC run |
| `ProfileSessionsProofs` | types and its three safety properties |
| `ProfileWindows` | the profiles of the macOS client: user defaults, panels, preferences window |
| `MCProfileWindows` | constants of its TLC run |
| `ProfileWindowsProofs` | types and its three safety properties |
| `PlasterPrototype` | the processes of the first prototype against the server |
| `MCPlasterPrototype` | constants of its TLC run |
| `PlasterPrototypeProofs` | types and its three safety properties |

### `PlasterSession`

A main thread runs from one wait for the network to the next; that stretch is one
action, and `pc` says where it waits. `Start`, `BootGet`, `BootPut`,
`BootSubscribe` are `start` with `bootWithPeers:`; `Stop`, `StopGet`, `StopPut`
are `stop`; `Launch`, `CleanGet`, `CleanPut` are `awakeFromNib` with
`disconnectFromSessions:`; `HandleHello` and `HandleGoodbye` are the broadcast
handler; `Die` is every end of the process. `ServerPublish`, `ServerSubscribe`,
`ServerUnsubscribe` are Redis.

- `registry` is the string of identifiers joined by colons. An identifier is an
  `Entry`; entries are tagged with the start that appended them, so that the list
  keeps its multiplicities (a client that starts twice stands in it twice). The
  empty set is the empty *string*, which the code tells from a missing key
  (`NoKey`, nil): its one empty component is no peer, and the next start raises.
- `peers` is `_plasterPeers`, `saved` the session key in the user defaults.
- `conns` are the provider's subscriber connections; each goes through
  asked / live / leaving. Equal connections of one client are collapsed.
- `wire` are commands the server has not executed. It is a set: each PUBLISH has
  a connection of its own, and the server may execute them in any order.
- Delivery is one message at a time per client; a client with two live broadcast
  subscriptions handles a message once.
- The alias of a device is fixed (a rename is part of hazard `TSPlasterController.m` 869), there
  is one session key, and test mode, logging and notifications are left out.
- `NSAssert` is active in a debug build only: a failed SET or DEL has both outcomes.

`Allowed` names what the environment may do beyond a tidy life: `haste` (begin an
operation while messages are in flight), `overlap` (two devices inside an
operation at once), `rejoin` (start again from a join window left open), `quit`
(which never calls `stop`: `applicationWillTerminate:` compares a menu title that
is never set), `crash` at any step, `outage` (a blocking command fails). Each run
and theorem says which of these it survives; the violation runs show what
happens beyond.

### `SessionRoster`

What a registry should do: `Join`, `Leave`, `Vanish` (a device disappears and its
entry stays), `Purge` (a device that came back removes what it left), each one
step, the roster deleted with its last entry. `PlasterSession` implements it with
`roster <- registry` and `present` the entries of the clients between their
`BootPut` and their `StopPut`.

### `PasteboardMonitor`

Between any two calls to the pasteboard anything may happen, so a tick of the
timer is three actions: `TickCount` (new change count), `TickLook`
(`canReadItemWithDataConformingToTypes:`), `TickRead` (`plaster:` reads the
contents and publishes); `FirstTick` is the tick that finds `started` set. A
received paste is three: `Receive` (the argument of the shared invocation),
`HandleClear`, `HandleWrite`. Another application copies in two steps,
`CopyClear` and `CopyWrite`; `pasteCurrentPasscode:` does what such an
application does.

- `pb` records who cleared the pasteboard last, since `writeObjects:` is refused
  to anybody else, and the entries. `peer` is the type that `TSPlasterString` and
  `TSPlasterImage` add to what they write.
- `fresh` is "`changeCount` differs from the remembered one"; it is all that
  the code asks of the two numbers. Comparing and storing the count
  (345-349) is one step. Only `clearContents` moves the count.
- `timer` is the scheduled timer; a cancelled one keeps its stage in `tick`, so it
  may go on beside its successor. A timer never runs its own handler twice at
  once (a property of dispatch sources).
- `slot` is the one argument of the `NSInvocation` that all connections share.
- Start and stop are single steps, and the peers of a running client are the
  other running clients: their protocol is `PlasterSession`'s matter. There is one
  connection per peer.
- The profile lets text and images in and out and pastes to the pasteboard: what the
  filters, the file mode and the test mode make of a copy is in `Packets`. The entry
  from the Services menu (`plaster:userData:error:`) is left out.

`Haste = FALSE` makes users wait until nothing is under way before they copy,
start or stop.

### `RedisConnection`

The provider opens a connection for each PUBLISH and for each SUBSCRIBE. Its read
and its write source run on a concurrent queue, `unsubscribeAll` on a thread of its
own, and nothing locks the context of hiredis they share. A handler is therefore
cut into the stretches between which another thread can change or see something:

- `WriteOut` (`write(2)`), `WriteTrim` (the buffer is shortened), `WriteUnflag` and
  `WriteSuspend` (`_EL_DEL_WRITE` clears its flag, then suspends the source) are
  `redisAsyncHandleWrite`; `WriteFails` is its way into the tear-down.
- `ReadIn`, then one action per reply (`ProcessRegular`, `ProcessError`,
  `ProcessSubscriber`), then `ProcessEnds` or `Disconnect` are
  `redisAsyncHandleRead`; `ReadFails` is its way into the tear-down.
- A tear-down is `TearByRead` or `TearByWrite`, up to the point where `redisClean`
  has resumed a suspended source in order to cancel it, then `ReleaseByRead` or
  `ReleaseByWrite`, which frees the context. In between the resumed source may
  still run its handler (`refired`).
- `UnsubscribeAppend` and `UnsubscribeSchedule` are one `redisAsyncCommand` of the
  loop in `unsubscribeAll`, cut between the buffer and `_EL_ADD_WRITE`.
- `Accept`, `Refuse`, `Close`, `Execute` and `Reject` are the network and Redis.

Use of a freed context, a stale table entry, a source resumed or released in the
wrong state and a failed assertion set `fault`, after which nothing is claimed.
`strain` records what happened to a connection beyond the plain exchange, and the
properties say which of it they survive. The order of the two handlers' steps is
free; a source does not run twice at once.

### `FileTransfer`

A transfer is one copied file. `Plaster` puts its options into `slot`, the one place
"set-options" of the handler table, and sends the SET; the callback of the SET
(`ReadOptions`, `SetArgument`, `Invoke`) reads that slot again, puts what it finds into the
one invocation of the handler, and queues an operation, which expires the key
(`Expire`) and notifies the others (`Announce`). `got`, `arg` and `op` say at each
of these places which transfer's options are there. A receiver takes a notification
(`Refuse`, `Fetch`, `Miss`), saves the file (`Save`) and pastes its path (`Paste`).

- The size is checked before the file is read and again by the receiver, in whole
  megabytes rounded up. `Name` is the file's name split at each `#`, since the
  receiver splits the notification there.
- `Miss` and an oversized file in pasteboard mode end the receiver's process
  (`Falls`): nil reaches `strlen` and `fileURLWithPath:`.
- Options that the table has released are used after they are freed
  (`SetArgument`): the callback gets away with it, or the process ends.
- The two halves of a client have two names; what a user does within one transfer
  (`Plaster` as a whole, the handler's reads of the options in `Invoke`) is one step,
  as it runs on one thread and reads nothing that another one writes.

### `Wire`

What `PlasterSession` and `RedisConnection` abstract: the contents. A client fetches the
list of its session, adds itself (`stringValueForKey`, `RegisterAlone` or
`RegisterAmongPeers`, `Registered`: `bootWithPeers:` from line 170) and subscribes to
the peers it found. Two texts are encoded
(`TSBase64`), packed, formatted as PUBLISH commands, written in pieces, relayed by the
server, read in pieces, parsed, matched with a callback and unpacked. What travels
is a sequence of symbols, each as long as a byte; a word whose letters nothing looks
at is one symbol.

- `RedisCommand` is `redisvFormatCommand` for the conversions the client uses, with
  the length it computes beforehand, and the walk over the arguments by which
  `async.c` finds the channels. `RedisReader` is the parser with its task stack:
  all reply types, the limit of nested arrays, the moment at which consumed bytes
  are dropped. `CallbackDict` is `dict.c` with its chains and its growth.
- The loops of the formatter and of the parser are recursive functions: the n-th value is the
  state after n rounds, and the number of rounds is one that is enough. An item of the
  protocol takes three bytes at least, so `ProcessItems` goes on for a third of what is in the
  buffer; that this is enough is proved (`MostIsEnough`). `moveToNextTask` closes the innermost
  arrays that are complete in one step.
- `Fed` is what happens to the bytes of one read: `redisReaderFeed`, then
  `redisReaderGetReply`. `CutIsNotSeen` compares a stream fed in two pieces with the same in one.
- `BlockingCall` is one round trip: the addresses of `net.c` one after the other,
  only an unreachable one being skipped; two attempts; the command written until the
  buffer is empty, bytes read until there is a reply. No time-out is set. A command
  that has arrived completely may be executed after the client gave it up.
- `unread` says that the GET failed; the code cannot tell that from a missing key.
- A start that finds an alias with a colon adds nil to its peers and raises.
- The text of a SUBSCRIBE is itself the format (`TSRedisController.m` 524), so that
  a space or a `%` in a session key changes what is subscribed to; `PUBLISH`
  passes the channel as a value (609).
- The JSON of Foundation is external: its one effect modelled is the backslash
  before a slash, which Base64 may produce.
- The server's parser is the client's; Redis answers a SUBSCRIBE once per channel.
- `redisFormatCommandArgv`, given the same arguments, makes the same command.
- `Packets` are pure functions. `plaster` looks at a file first and at nothing else if
  there is one, at an image next, then at a text; a filter on either side drops what
  it does not allow. `ArrivesWhole` says what a copy comes to on the other device, each of the two
  a Mac or a phone. In file mode the name of a file is made of the second and the
  sender: two pastes of one sender in one second share it. The iOS client takes
  no files and drops everything in file mode. Of no bytes the encoder makes nothing at all, so that the
  string of an empty file is memory nobody has written to (`Strays`).
- `Sds` is `sds.c` with its free space: growing, ranges, trimming, splitting, quoting
  and the reading of quoted arguments. `sdssplitargs` does not read the "\xNN" that
  `sdscatrepr` writes, although its comment has it as its example:
  such a symbol comes back as the letter x and its digits (`Reread`).

### `ProfileSessions`

The iOS client, `Plaster-iOS/Plaster-iOS/`, is a port of the macOS client with one
`TSLPlasterController` per profile over one `TSLRedisController`. The module is the
device (`TSLAppDelegate`, `TSLSessionViewController`, the controllers) and, in
outline, other devices that join and leave the same sessions.

- Taps and the expiry handlers of background tasks run on the main thread, which
  blocks in each round trip: `op` says where it waits and `held` which list it has
  read, so operations of the device never overlap. `HandleHello` and
  `HandleGoodbye` run beside it. `Start`, `BootGet`, `BootPut` are
  `startWithSessionKey:` and `bootWithPeers:`; `Stop`, `StopGet`, `StopPut` are
  `stop`; `Launch`, `CleanGet`, `CleanPut` are the launch with its clean-up, which
  asks for the list of a session with the literal name "sessions"; `StartRefused`
  is a start for which the system grants no background time and which reports
  success; `Expire` ends such a time and stops the controller, running or not;
  `addProfile` and `removeProfile` replace and drop controllers.
- A controller is its session and a copy number. What a controller that left the table
  still does is part of the model: it is leaked (`-profiles` returns a copy that
  nobody releases) and keeps its subscriptions, its flag and its background task.
- `list` is the participants' string as in `PlasterSession`, an entry being a
  controller with its start, or another device. No name occurs in another's.
- `subs` is the table of subscriptions that all controllers share: `Quieten` empties it
  as a whole. That a subscription takes effect is `RedisConnection`'s matter.
- Other devices join and leave in one step each, and not between this device's read
  and write of the same list: the lost update is `PlasterSession`'s matter.
- A broadcast under the device's own name is ignored by all its controllers and left out.
- A start that finds the empty text inserts nil into its peers: the process ends
  (`Ends`), as does the failed write of a stop in a debug build, which is one
  of the ends `Die` covers.
- `strain` records what has happened to a session: `outage` (a call failed), `late`
  (an expiry stopped a session that had been stopped before), `ended` (the process
  ended with an entry on the list; the clean-up repairs it for "sessions"),
  `replaced` (its profile was saved or deleted while it ran). Each property names
  those it survives. `Allowed` says which of them may happen at all.

### `ProfileWindows`

An action is an event on the main thread. `stored` is the dictionary of profiles
in the user defaults; `rows`, `configs`, `profiles`, `row` are what the preferences
window holds, `view` the configuration view in it. A profile is two stamps, name
and settings, that tell for which session the user gave them. The rows are the keys
of a dictionary in whatever order it lists them (the constant function `allKeys`).

- `ReloadAndConfigure` is the filling of the window, whenever it becomes key: when
  it is shown, when another window gives the key back, when the sheet that asks for
  a folder ends (`Browse`). What is in the view goes to the row that is selected,
  whichever profile that is by now. A Cancel leaves the edits in the view, and rows
  that were deleted come back if the window is filled before they are saved.
- `-getProfileConfiguration` hands out the dictionary it holds autoreleased, having retained
  it once (`TSProfileConfigurationViewController.m` 93, 98). `view.retained` counts; a save in
  the window and its reopening use the dictionary after it was freed (`faulty`),
  after which nothing is claimed.
- `SaveProfile` is `saveProfile:`, which closes its panel (265) before it writes the
  defaults (268); the window behind may become key in between, with the old dictionary.
- `FreshSession` and `StartFreshSession`, `ShowJoinPanel` and `JoinSession`,
  `ShowSavePanel` and `SaveProfile` are panels. They are no sheets: other items of the
  menu work while one is open, so that its session may not be the one it was opened for.
- `mixed` records what has come between profiles and their owners: `moved` (the
  window was filled with other rows than it showed), `early` (while a profile was being
  saved), `panel` (a panel used for another session), `saved` (a save in the window).

### `PlasterPrototype`

The client in `Plaster/Plaster/`. Its session id is a user default that the start
panel and the preferences window set, and that `start` and `stop` each read for
themselves. A process has one asynchronous connection for all it publishes (`pub`,
`outbox`), one blocking connection (`sync`), and a connection for each subscription.

- `Launch`, `Start`, `UseSessionKey`, `Cancel`, `BootGet`, `BootPut`, `Stop`, `StopGet`,
  `StopPut`, `Quit` are the main thread; `HandlePeer` and `OnTimer` run beside it.
- A participants' text is the bag of its components: nothing the prototype does depends on
  their order.
- At first nobody has been asked for a session id, or all share one from earlier launches
  (`asked` is the default "plaster-init"). What the defaults register as a fallback
  is merged into `setting`.
- `stop` acts on the id it reads then. If that is another session's, it removes
  nobody from its own list, deletes the other one if it has a single entry, and
  returns early, peers kept, if there is none. That is the strain `moved`.
- The preferences window copies the id when it is first shown and writes its copy back at
  every close (`WindowWillClose`), which undoes what the start panel set in between.
- A blocking connection in error stays so: every later call fails. A publishing
  connection that broke leaves its pointer (`freed`), which `OnTimer` and the next
  start use. A failed launch leaves the menu and nothing else (`hollow`).
- `unsubscribeAll` frees the bundles of the handlers at once (`freed`), and a HELLO
  that comes later is handled with a freed one. `damage` says what was used after it was
  freed; the process goes on or ends (`Fall`).
- Texts are for nobody, since the prototype subscribes to the broadcasts only: the
  monitor is its use of the connection. `PublishText` reads any other pasteboard
  content as an end of the process, which is `Crash`.
- A process that has ended keeps nothing of its past, which keeps the states few.
  `Blank`, the component of an empty text, needs a list with one client twice;
  the bounds of the run do not reach it.

## 3. Runs

| Run | Instance | Shows |
|---|---|---|
| `exclusive` | 2 devices, 2 launches each, 2 starts, haste and quits; 709,189 states | `SelfListed`, `StoppedIsUnlisted`, `PeersAreHeard`, `NeverOwnPeer`; an entry nobody stands behind has a device that will remove it (`LeftoverRemembered`); the protocol implements `SessionRoster` |
| `calm` | 3 devices, 1 launch, 3 starts, quits and crashes, fairness; 154,962 states | `SettledSessionsAgree`: once settled the running clients know and hear each other (`MutuallyAware`), a stopped one hears nothing (`StoppedIsDeaf`), nobody lists one that stopped (`NoGhostPeer`); they get there (`EventuallyHeard`) |
| `paste` | 2 devices, 2 copies, 2 starts, haste; 1.5 million states | `NoEcho`, `StaleStaysPrivate` |
| `calm_copy` | 2 devices, 2 copies, 4 starts, no haste, fairness; 99,056 states | `ClipboardsAgree`, `CopyArrives` |
| `connection` | 1 connection that publishes, 1 that subscribes, any two strains; 666,250 states | `FaultsHaveACause`, `WriteScheduled`, `NoForgottenListener`, `ConnectionsEnd` (a PUBLISH connection closes, an UNSUBSCRIBE takes effect); the connections implement `AsyncCall` |
| `transfer` | 3 files of 2 senders, 1 receiver, any two strains; 191,816 states | `AnnouncesItsOwn`, `KeptHasACause`, `FallsHaveACause`, `PathLeadsToFile`, `TransfersComplete` (files arrive, keys expire) |
| `wire` | 4 lists of peers, 2 session keys, 2 addresses, 2 texts, short reads of one byte; 81,036 states | `StartsLoseNobody` (nobody drops out of the list, a start raises only over an alias with a colon or a failed call), `CallsAreExact` (formats, channels, callbacks), `CodecsAreExact` (Base64, packets, the parser, strings), `EverythingArrives`; the subscription implements `MessageRelay` |
| `profiles` | 2 sessions, one called "sessions", 1 other device in that one, 2 controllers per session, 3 starts, 1 strain; 6,141,613 states | `OthersStayListed`, `RunningHears`, `NoOtherSelf` |
| `windows` | 2 saved profiles of 3 keys, 2 starts, 2 edits, 3 openings of the window; 3,730,019 states | `ProfilesPersist`, `ProfilesAreTheirOwn`, `FaultHasACause` |
| `prototype` | 2 processes, 3 session ids, 2 starts, 1 visit to the preferences or trouble, symmetry; 4,918,386 states | `ListsAreRight`, `PeersAreRight`, `DamageHasACause` |
| `overlap` | violation of `SelfListed` | item 1 of section 4 |
| `crash` | violation of `LeftoverRemembered` | item 3 of section 4 |

`exclusive`, `wire`, `windows` and `prototype` check the type invariant too; in `paste`,
`calm_copy`, `connection`, `transfer` and `profiles` it is proved and not checked.

### Why the bounds are enough

- Two devices and two launches each give a leftover entry, its clean-up, a rejoin
  by the same device under a new client ID, and every order of two operations of
  different devices. The listing properties relate one device to the registry; a
  third one changes nothing for them, and the theorems hold for any number. What
  depends on *two others* (a HELLO that two clients must hear) runs with three.
- `MaxBacklog` bounds only when an operation may begin, not what the network does;
  1 lets an operation start while a message or a command per device is still in
  flight.
- In `paste`, two copies are one to be received and one that interferes, and two
  starts are one restart of a device alone, or a session of two. A third start is
  what takes the run past twenty million states; the theorems about `NoEcho` and
  `StaleStaysPrivate` cover any number. `calm_copy` has four starts: a session of
  two, and a device that leaves and comes back, or both.
- With two devices each client has one connection, so two handlers never compete
  for the shared argument in the runs; with three, pastes that echo (see `caught`)
  multiply the states beyond reach. The theorems are for any number of devices
  and include that race.

- In `connection`, connections meet only at the server (a message relayed) and in the
  table, so one of each kind shows every interleaving of the handlers of a
  connection with each other and with the caller. Two strains give every pair of
  causes, for one connection or for two; a fault needs one.
- In `transfer`, two files of one sender are what the shared slot confuses, a third by
  another sender has the name of the first and runs on another thread of the receiver.
  The receiver pastes (`pasteboard` mode); in `file` mode it does less.
  The limit is 1 MB instead of 100, which only comparisons look at.
- In `wire`, the first text has a slash in its encoding, the second a length of two
  digits. The lists hold three peers (the table of 2 slots instead of 4 grows), one
  peer twice and another with an underscore in its alias, an alias with a colon, and
  nobody; two session keys hold a space and `%%`. A read is one byte or all
  there is, so that a reply is cut anywhere; a write is ten bytes or all. Two
  addresses are a first that may be skipped and a last.
  Consumed bytes are dropped from 20 on instead of 1024, so that it happens within a
  message. `CodecsAreExact` is about pure functions and is evaluated on
  341 payloads, on 13 replies at every cut, on pasteboards with any of a file, an image and a
  text under every filter, and on short strings over the characters that `sds.c` looks at.
- In `profiles`, a stop of one session must find another one running, and the clean-up
  can only reach the session of its literal name: two sessions, one with that name. The
  second controller of a session is the one that an edit or a relaunch makes; three
  starts are both sessions and a start again. Nothing in the device tells one other
  device from two. One strain shows each cause alone; the theorems are
  for any number of each.

- In `windows`, three keys are two profiles that can change places in the table and a
  session without a profile. Two edits are one that a view keeps and one that is saved, or a
  save under a name beside an edit; three openings are one to edit in, one that
  moves the rows, and one more after a save.
- In `prototype`, two processes are a session. Three ids are the one of the session, that of a
  panel or window, and a third for the other process. One event is a visit to the preferences
  or one trouble; each cause a property names comes up alone. Two starts are a session of two,
  or one client that starts again, and stop and quit are free.

### Fairness

`PlasterSession`: the server executes commands (WF of `Server`), and a client's
threads go on (WF of `Progress`, of `Handle`): a blocking call returns and libdispatch
runs a pending handler. Nothing makes a user launch, start or stop.
`PasteboardMonitor`: in addition the timer fires every 100 ms (WF of `Monitor`),
and an application that has cleared the pasteboard writes to it (WF of
`CopyWrite`). No strong fairness is assumed. WF of `Server` is one condition for
all commands; `wire` and `conns` being finite and users few, all of them get executed.

`RedisConnection`: a running `unsubscribeAll` goes on, and as long as some handler has
an event or the network or the server something to do, one of them proceeds (WF of
the union `Progress`). `FileTransfer`: likewise WF of `Progress`, the union of server,
callbacks, operations, expiries and receivers; nobody has to copy or quit. Since
the transfers are finitely many, that is enough. `Wire`: WF of `Write` and of
`Receive`; the second is written out, `ENABLED` of it being the plain condition
`Arrived`. No run assumes that the server answers in time, only that it or
somebody else does something. `ProfileSessions`, `ProfileWindows` and `PlasterPrototype` state no fairness:
their properties are safety.

`CHECK_DEADLOCK FALSE` everywhere: with their starts, copies and texts used up the
clients rest.

## 4. What holds, and where it stops

1. **Listing.** As long as no two operations overlap, the registry lists exactly
   whom it should, whatever the order of messages, whoever quits or crashes. The run
   `overlap` shows the lost update: two devices start together, both read the
   same list, the later SET drops the other (`TSPlasterController.m` 172-189).
2. **Awareness.** If users wait for the network, all running clients know and hear each
   other. In haste they need not: a device is listed and running, its SUBSCRIBE to the
   broadcast channel is not executed yet, and the HELLO of the next device goes by.
3. **Leftovers.** A quit leaves an entry behind, which the next launch removes. The
   run `crash`: a crash after the registration and before the session key is saved
   (`TSAppDelegate.m` 118-121) leaves one that nobody removes.
4. **The first tick.** "if Plaster just started, ignore existing pasteboard content"
   (337): the code clears the pasteboard at the first tick *that finds a peer*, so
   that it may remove a copy that the user made long after the start. The other
   half of the comment holds: what was copied while the client was at rest is never
   published (`StaleStaysPrivate`).
5. **Echo.** A paste is not published again, with one exception that `NoEcho` names:
   it is written between the look and the read of a tick (`caught`).
6. **Convergence.** A copy made with nothing else going on reaches the others, and
   then all hold it alone. Copies made in haste may be lost: a tick between another
   application's `clearContents` and `writeObjects:` remembers the new count and
   never looks again. `latest` excludes exactly that.
7. **Connections.** The callback of a PUBLISH runs at most once, and says "published"
   only after the server has executed it, whatever happens (`ImplementsAsyncCall`). A
   connection to which nothing happens does not fault. What does not hold, each
   visible as an exception in a property:
   - After a partial write a PUBLISH connection may stay open for good: the reply is
     processed before the buffer is trimmed, and `async.c` 397 wants it empty.
   - If the server closes a subscriber, its context is freed and its entry stays in
     the table: the next `unsubscribeAll` uses it (`TSRedisController.m` 549).
   - If the connection closes while a handler or the caller is inside it, the
     context is used after it is freed.
   - A command appended while the write handler is past its last write finds
     `isWriting` still set and is not scheduled ("Always schedule a write when the
     write buffer is non-empty", `async.c` 615).
   - A subscription that a HELLO registers while `unsubscribeAll` runs is forgotten
     and stays open.
8. **Files.** A transfer with nothing else going on reaches every receiver, and its
   key expires. Two transfers of one sender before the first callback may announce one file
   twice and the other never, and leave a key without an expiry. A receiver
   process ends over a key that is gone, a failed GET, or a file that grew. A `#`
   in a name makes the receiver read a part of it as the length, and the file is saved under
   the part before it.
9. **Bytes.** Wherever the stream is cut, replies come out complete and once, and find
   their callback. A start adds itself to the list and drops nobody from it,
   unless its GET failed: `stringValueForKey:` answers nil for a missing key, a failed
   connection and an error alike, and the client then replaces the list with itself.
   An error in answer to the SET counts as success (`TSRedisController.m` 656), and the
   client runs unlisted. An alias with a colon in the list makes every later start raise. A session
   key with a space or a `%` subscribes to other channels than the peers publish on
   (`SubscribedIsPublished`, a part of `CallsAreExact`, excludes such names).
10. **Several sessions on one device.** Whatever the order of taps, expiries, edits and
   broadcasts, a session keeps the others on its list, listens to everybody it shows and
   has no other self of the device for a peer. The exceptions, each named in a property:
   - The stop of one session ends the subscriptions of all. The others go on showing
     themselves as running and hear nothing (`deaf`).
   - `controlPlaster` keeps the identifier of the background task in a copy, so that a
     stop does not end the task. Its expiry stops the session again: when another device
     is alone on the list by then, the list is deleted under it (`late`).
   - A profile that is saved while its session runs gets a new controller. The old one
     runs on, and a start of the new one takes it for a peer (`replaced`).
   - After an end of the process nothing removes the device from its lists but from that
     of a session called "sessions" (`ended`).
11. **Profiles.** A saved profile stays until it is deleted in the window and saved there, and a
   session has its own profile's settings, with these exceptions:
   - The window that becomes key while `saveProfile:` has closed its panel and not yet
     written fills itself with the old dictionary; a save there loses the new profile (`early`).
   - Edits in the view go to the row that is selected when the window is filled. After a
     row has come or gone that is another profile (`moved`).
   - The panel of a fresh session starts whatever key the delegate has by then, and so does
     the one that saves a profile; "Once this session has been saved, it cannot be saved again (not even
     with another name - for now.)" (`TSAppDelegate.m` 263) does not hold for a save panel left
     open (`panel`).
   - After a save in the window the next opening uses a freed dictionary (`saved`).
12. **The prototype.** Whoever runs is on its list and whoever stopped on none, running clients
   know each other, and nothing is used after it is freed, unless two clients are in an operation
   together, a call fails, a connection breaks, a process ends, or the session id was changed
   between start and stop. A HELLO that crosses a stop is handled with a freed bundle.
   `PeersAreRight` excepts a session id that `moved` because its proof would not go through
   without: a stop under another id may delete the list of a session that a third start, after it,
   then finds empty. With `MaxStarts = 3` TLC shows the same; the run's two starts do not reach it.
   `incrementKey` waits on a semaphore that nobody signals, so that the test
   `Plaster/PlasterTests/PlasterTests.m` 80, which expects 101 of it, cannot end.
13. **Packets.** Whatever is allowed on both sides arrives as it was copied, and nothing else
   arrives, whichever clients, modes and filters; an empty file is the exception.

## 5. Proofs

The theorems of `CodecProofs` are about pure functions; all others are about `Spec` for every value of the constants under the named
assumptions of the modules: the bounds are natural numbers, `Occurs` contains
every pair of equal aliases, `NoKey` is no set of entries (`PlasterSession`); senders and receivers
have different names, a file's name has at least one part (`FileTransfer`);
`Allowed` is a set of strains (both and `RedisConnection`) or of `Conduct`
(`ProfileSessions`, where controllers, other devices and the channel differ as well); `allKeys`
lists each set of keys once (`ProfileWindows`); the two values that stand for no session id and no list
are none, and no client is called `Blank` (`PlasterPrototype`).

`Orderly` says: no overlap, rejoin or outage, and no device's name occurs in another's. It is
what the run `overlap`, the conduct `rejoin` and `outage`, and the clean-up's substring
comparison (`TSPlasterController.m` 869), show to be needed. `Patient` adds that nobody is in
haste: an operation begins only when nothing is under way. Section 4 tells what haste does to
awareness and to the clipboards. `Haste = FALSE` is the same for the users of
`PasteboardMonitor`. The runs `calm` and `calm_copy` are instances of the two.

| Theorem | Assumes | Says |
|---|---|---|
| `PlasterSessionProofs!TypeCorrect` | - | `[]TypeOK` |
| `SelfListedWhenOrderly` | `Orderly` | `[]SelfListed` |
| `StoppedIsUnlistedWhenOrderly` | `Orderly` | `[]StoppedIsUnlisted` |
| `LeftoversAreRemembered` | no crash | `[]LeftoverRemembered` |
| `PeersAreHeardWhenOrderly` | `Orderly` | `[]PeersAreHeard` |
| `NeverOwnPeerWhenOrderly` | `Orderly`, no crash | `[]NeverOwnPeer` |
| `RosterImplemented` | `Orderly` | `ImplementsRoster` |
| `SessionsAgreeWhenPatient` | `Patient` | `[]SettledSessionsAgree` |
| `PasteboardMonitorProofs!TypeCorrect` | - | `[]TypeOK` |
| `NoEchoEver` | - | `[]NoEcho` |
| `StaleIsPrivate` | - | `[]StaleStaysPrivate` |
| `ClipboardsAgreeWhenCalm` | `Haste = FALSE` | `[]ClipboardsAgree` |
| `FileTransferProofs!TypeCorrect` | - | `[]TypeOK` |
| `OperationAnnouncesItsOwn` | - | `[]AnnouncesItsOwn` |
| `KeptKeysHaveACause` | - | `[]KeptHasACause` |
| `FallsOnlyWithCause` | - | `[]FallsHaveACause` |
| `PathLeadsToItsFile` | - | `[]PathLeadsToFile` |
| `RedisConnectionProofs!TypeCorrect` | - | `[](TypeOK /\ Pointed)` |
| `ConnectionImplementsAsyncCall` | - | `ImplementsAsyncCall` |
| `WritesAreScheduled` | - | `[]WriteScheduled` |
| `NoListenerIsForgotten` | - | `[]NoForgottenListener` |
| `FaultsAreExplained` | - | `[]FaultsHaveACause` |
| `ProfileSessionsProofs!TypeCorrect` | - | `[]TypeOK` |
| `RunningOnesHear` | - | `[]RunningHears` |
| `OthersAreListed` | - | `[]OthersStayListed` |
| `NoSelfToHear` | - | `[]NoOtherSelf` |
| `ProfileWindowsProofs!TypeCorrect` | - | `[]TypeOK` |
| `NoProfileIsLost` | - | `[]ProfilesPersist` |
| `FaultsComeFromSaving` | - | `[]FaultHasACause` |
| `ProfilesStayWithTheirOwners` | - | `[]ProfilesAreTheirOwn` |
| `PlasterPrototypeProofs!TypeCorrect` | - | `[]TypeOK` |
| `DamagesHaveCauses` | - | `[]DamageHasACause` |
| `ListsStayRight` | - | `[]ListsAreRight` |
| `PeersStayRight` | - | `[]PeersAreRight` |
| `CodecProofs!DecodeUndoesEncode` | - | decoding gives back any bytes that were encoded |
| `EncodesByDefinition` | - | the encoder makes what the bits of any bytes define (`EncodedByBits`) |
| `PacketsArriveWhole` | - | `ArrivesWhole`, for any content, profiles, names and pair of devices |
| `CutsDoNotMatter` | - | `CutIsNotSeen`, for any two pieces and any reader that waits for more bytes |
| `PiecesMakeTheReply` | - | any number of pieces gives the reply of all in one |
| `CommandsAreExact` | lengths below 10^10 | the length added up is that of the command, and both entry points make the same one |
| `ArgumentsComeBack` | lengths below 10^10 | the walk of `async.c` over a command gives the arguments it was made of |
| `ValuesArriveWhole` | - | `PUBLISH %s %b` and `SET %s %b` have the values as arguments, as they are |
| `NamesComeBack` | `Plain` names, one at least | the text of SUBSCRIBE, used as a format, has the peers as arguments |

The arguments:

- *Types.* `TypeOK` is not inductive: a client that appends `Me(c)` must have a
  launch and a start, one that writes back must have read a list (`Begun`); a
  handler that was called must find an argument (`Armed`).
- *Listing* (`RegistryInv`). `StopPut` and `CleanPut` write back an old list, so
  `SelfListed` needs `OneAtATime`: one device at a time is inside an operation and
  the list it holds is still the registry. That the registry is never the empty
  string, and that no entry is of a launch to come, complete it.
- *Leftovers* (`LeftoverInv`). Operations may overlap here, so copies of the
  registry travel; the invariant says of every copy what `LeftoverRemembered` says
  of the registry.
- *Peers.* `NeverOwnPeer` rests on `OwnEntriesAreOfThisLaunch`: past its clean-up a
  client finds no entry of its own from an earlier launch, and none of this one
  unless it is in the session.
- *Roster.* Each step of `PlasterSession` under `RegistryInv` is a step of
  `SessionRoster` or leaves `registry` and `Present` alone: `BootPut` joins,
  `StopPut` leaves, `Die` vanishes, `CleanPut` purges, the rest stutters.
- *Settled sessions* (`SettleInv`, on top of `RegistryInv`). `SettledSessionsAgree` speaks of
  settled states only, so it needs an invariant of the unsettled ones. An operation begins only
  when nothing is under way, so one client acts at a time and all that is under way is its own
  (`OneActor`). A HELLO under way is of one that starts or runs, a GOODBYE of one that stops or
  has stopped, unless its process has ended (`MailIsTruthful`). Whoever runs has its broadcast
  subscription executed while a message of another is on the wire (`Tuned`); one at rest lists
  nobody and has no mail from others (`Lonely`). Who comes is met: by those who run, through its
  HELLO, and by itself, through the registry, which lists them by `SelfListed` (`Meets`). Who
  goes is shown only until its GOODBYE is handled, and a later start does not find it, by
  `StoppedIsUnlisted` (`Forgets`). TLC checked the invariant with three devices, two launches,
  four starts and crashes (3.5 million states) before it was proved.
- *Echo* (`Circulating`, `Copied`, `Checked`). Everything on the wire, in an inbox,
  in a slot, in a handler or marked as a peer's has been published; what is not
  marked was copied here; a tick past its check sees nothing marked unless `caught`.
- *Privacy* (`Private`). While an item copied at rest lies on its pasteboard, no
  tick is under way there and the next one is a first tick, which clears it.
- *Clipboards* (`AgreeInv`). The latest copy was made when nothing was under way, so that no
  first tick and no UNSUBSCRIBE is left (`Undisturbed`). At first its client alone holds it and
  is about to publish it (`Announcing`); from its publication on everything under way carries
  it, and every running client holds it or has it coming (`Spreading`). A paste that falls
  between the check and the reading of a tick is published once more, but it carries the same
  item. TLC checked the invariant on `calm_copy`, and on 25 million states of three devices.
- *Transfers.* `OwnInv` (types, `Overlapping`, `OptionsMixed`): while a sender has two
  transfers unannounced both are marked, and whenever the slot, the argument or a
  callback holds another transfer's options than its own, overlap is the reason.
  `KeyInv` follows a key from the SET to the EXPIRE, through the end of the sender.
  `FallInv` follows a notification from the operation to the inbox: what is announced had
  its SET answered, and a key that is gone while an operation or a notification about
  it is pending is marked. `PathInv` says that from the save on the file on disk is
  the one fetched, unless another of its name was fetched.
- *Connections.* `TypeOK` needs that the index of `unsubscribeAll` stays in the table
  (`Pointed`). The refinement rests on `CallInv`. Of each PUBLISH it says that the
  command is in the buffer, with the server or executed, in the buffer beside one of the others
  only until the running write trims it, so that it is not executed twice; that what
  the connection has been told is "published" only once it is executed; and that a callback
  still on the list has not been called. The table holds subscribers only, so that no
  UNSUBSCRIBE gets into such a buffer.
- *Scheduled writes* (`Writes`). While the write handler of a connection is not inside it,
  `isWriting` tells whether the source is active; the handler takes the flag down only
  with the buffer empty. So whoever fills the buffer beside the handler either finds the
  flag set and the source active, or resumes it.
- *Listeners* (`Hears`). The SUBSCRIBE is the first command in the buffer and on the way,
  and at one place only (`Ordered`); until the server gets to an UNSUBSCRIBE nothing comes
  back that would make `redisAsyncCommand` refuse one (`Tuned`). So `unsubscribeAll` has
  each listener ahead of it (`Ahead`) or has appended its UNSUBSCRIBE, which no trim of
  the buffer drops (`Coming`), unless the strain says why not.
- *Faults* (`FaultInv`). Of a PUBLISH to which nothing but the exchange happens the two
  handlers take turns (`Turns`): the write handler is at it and the read source suspended, or
  the other way round, or one of them closes the connection while the other is idle; and its
  command or reply is in one place, with its callback on the list (`Single`). Of a subscriber
  there is one UNSUBSCRIBE at most, since no connection is in the table twice (`Distinct`);
  nothing follows it through the buffer and the socket, and its reply is the last one that
  comes back (`Final`). So no reply finds its channel without a callback, unless the connection is
  being closed, and that happens only after an error or a loss (`Kept`), which the
  strain knows (`Marked`). The assertions of `async.c` need no such excuse.
- *Several sessions.* `HearsInv`: a start that goes on has subscribed to the broadcasts
  (`StartHears`), and nothing runs before the clean-up is over (`Fresh`). `ListInv`: a
  list about to be replaced is still the one read (`HeldIsList`), who runs is listed,
  and who stops runs unless it is late; so a stop that finds a single entry finds its
  own, and the deletion takes nobody else along. `SelfInv`: entries are in their own
  session and of running controllers; a start is by the one controller shown, and a
  running one that is not shown has been replaced, so that no start finds another self.
- *Profiles.* The window replaces the stored dictionary by its own, so `Complete` says that
  while it is key its rows name every profile that was saved and is not deleted there. `Own`
  relates what is stored, the rows, the view and the panels to the sessions they are for:
  the view shows the profile of the selected row and writes it back there, and is the
  owner's as long as rows stay in place. `LetGo` counts who holds the dictionary.
- *The prototype's memory* (`Sound`). The bundle of a subscription is in the table or freed,
  never both, since `unsubscribeAll` empties the one as it does the other.
- *The prototype's lists* (`Orderly`). As long as nothing has disturbed a list, one process is
  in an operation on it (`Serial`), what that process is about to write follows from what the
  list is now (`Fresh`), and who stands on it is who runs (`Listed`, `Only`).
- *The prototype's peers* (`Met`). Of two processes of a session the later found the earlier on
  the list and has it from there; the earlier has an ear that is not freed (`Ear`), and the
  later one's HELLO is in its outbox, in the earlier one's inbox, or handled (`Known`).
- *Base64.* Three bytes become four characters and back by the arithmetic of the shifts
  (`ChunkComesBack`); the one or two bytes that may be left over have a case of their own in the code
  and in the proof (`RestComesBack`). A character of the result depends on two bytes at most, so that
  nothing has to be said of the whole by induction. The definition takes the bits one by one,
  six at a time.
- *Packets.* By cases of what is on the pasteboard and of what the profiles allow; the content
  itself comes back by `DecodeUndoesEncode`.
- *The parser.* What a reader does may depend on the bytes it has not consumed (`Left`), and on
  nothing it has consumed or dropped; `Reader` describes it between two reads. With more bytes
  behind the same ones (`Longer`), an item is taken in the same way, is broken in the same way,
  or waits, and then has changed nothing, except that its type may be consumed
  (`ItemLonger`). So the rounds of `ProcessItems` go together until the shorter reader waits, and
  the longer one goes on from where the shorter will be when its bytes come. Once a
  round waits, fails or completes the reply, further ones change nothing, and any other takes three
  bytes (`MostIsEnough`). `PiecesMakeTheReply` is an induction over the pieces with `CutsDoNotMatter`.
- *The formatter.* A number below 10^10 is the value of its digits (`DigitsComeBack`), so a bulk is
  as long as `bulklen` says (`BulkIs`), and the sums go along with what is built (`BuiltIs`, `TotalIs`).
  The walk looks for a `$` and an end of line, and both can be in an argument; but it skips as
  many bytes as the header says, so that it looks for them in headers only (`NextIs`).
  The loop over the format is followed round by round: `Runs(s, m, t)` says that m rounds lead from
  s to t. A name takes a round for each symbol (`Named`), the blank before it ends the name before
  (`NextNamed`), and the text of SUBSCRIBE is taken apart from behind (`RemainsOf`).
- *Induction.* The library's induction theorems take an operator, which the provers cannot
  instantiate. `Induct` is induction for a *set* of naturals, by the least element of the rest
  (`WFMin` of `WellFoundedInduction`); each use defines the set of the numbers its formula is true of.

Only model-checked: the liveness properties (`EventuallyHeard`, `CopyArrives`,
`TransfersComplete`, `ConnectionsEnd`, `EverythingArrives`: fairness is out of the prover's
reach), and of `Wire` its types, `StartsLoseNobody`, `CallsAreExact`, the strings in
`CodecsAreExact`, and `ImplementsRelay`. The theorems of `CodecProofs` say for all inputs what
`CodecsAreExact` checks of Base64, packets and cuts on samples, and what the state part of
`CallsAreExact` rests on in the formatter; they are not about the
steps of `Wire`. The server's encoder, the callbacks of one read and the splitting of strings
are RECURSIVE operators, with which the prover loses its arithmetic.

## 6. Not modelled

- **Of the iOS client** the timing of its pasteboard monitor, which differs from the macOS one
  at the first tick (it resets the flag and does not clear), notifications and views.
- **The Services entry, `TSPasteboardPacket`** and the subscription of the test mode to itself: a
  second way into `plaster:`, and the log of a developer.
- **Of the delegate** the alias field, the log-in item and the animations of the menu. A rename is
  hazard `TSPlasterController.m` 869.
- **The limit of 100 entries of the table** (`TSRedisController.m` 532): the models
  bound the subscriptions below it. It is listed as a hazard.
- **`incrementKey`**, which no client calls but in a test.
- **In hiredis:** allocation failures, the `printf` conversions beyond `%s`, `%b` and `%%`,
  time-outs, keep-alive and Unix sockets of `net.c`, patterns, MONITOR,
  `redisAsyncFree`. The client uses none of them or has no state in them that lasts.
  The blocking DEL and EXPIRE are round trips like GET and SET and are steps of
  `PlasterSession` and `FileTransfer`.
- **Of the prototype** its handler of received texts, which nothing subscribes, the preferences of
  types, `_readables`, which is not retained, and the test mode.
- **Copies and resources:** the libevent headers and the second copy of hiredis that come with the
  prototype and the iOS client; `MAAttachedWindow` and the nib files; `TSStack`, which nobody uses.

The C sources of the repository are for the larger part such copies and headers; of
`async.c`, `hiredis.c`, `sds.c`, `dict.c` and `TSBase64.c` the models cover what the client uses.

What would come next: the monitor of the iOS client as a variant of `PasteboardMonitor`;
and `ProfileSessions` composed with `RedisConnection`, so that its stops race with the
subscriptions of its starts.

## 7. Running

    tlc -workers 2 -config SessionExclusive.cfg MCPlasterSession
    tlc -workers 2 -config MonitorPaste.cfg MCPasteboardMonitor
    tlc -workers 2 -config Connection.cfg MCRedisConnection
    tlc -workers 2 -config Transfer.cfg MCFileTransfer
    tlc -workers 2 -config Wire.cfg MCWire
    tlc -workers 2 -config Profiles.cfg MCProfileSessions
    tlc -workers 2 -config Windows.cfg MCProfileWindows
    tlc -workers 2 -config Prototype.cfg MCPlasterPrototype
    tlapm PlasterSessionProofs.tla

Every other configuration (`Session*.cfg`, `Monitor*.cfg`) and proof module runs
the same way. The operators whose comment begins with "Mutant:" are not part of what is
claimed: they are plausible mistakes in the code, which the properties tell from it.
