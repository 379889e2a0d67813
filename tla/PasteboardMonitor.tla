-------------------------- MODULE PasteboardMonitor --------------------------
(***************************************************************************)
(* What the macOS clients of one session do with their pasteboards: the    *)
(* monitor of TSPlasterController (onTimer, every 100 ms), the publication *)
(* of what it finds (plaster:) and the handler of what the peers publish   *)
(* (handlePlasterInWithData:).                                             *)
(*                                                                         *)
(*   - The pasteboard is shared with every application of the device.  It  *)
(*     is replaced in two calls, clearContents and writeObjects; only the  *)
(*     first one moves the change count, and the second one is refused if  *)
(*     another process has cleared the pasteboard in between.              *)
(*   - Timers and connections run on a concurrent queue: a tick and the    *)
(*     handlers of several connections interleave between any two calls to *)
(*     the pasteboard, and a cancelled timer may be inside a tick.         *)
(*   - All connections share one NSInvocation of the handler, with one     *)
(*     place for its argument.                                             *)
(*                                                                         *)
(* Who is in the session is the matter of PlasterSession; here a start and *)
(* a stop are single steps and the peers of a client are the others that   *)
(* run.  A profile that lets everything in and out of the pasteboard is    *)
(* assumed; files are left out.                                            *)
(***************************************************************************)
EXTENDS Naturals, Sequences

CONSTANTS
  Client,      \* the devices of the session
  MaxCopy,     \* bound: copies made by the users, of all devices together
  MaxStart,    \* bound: session starts, of all devices together
  MaxBacklog,  \* bound: pastes received on one connection and not handled yet
  Haste        \* whether users act while something is still under way

ASSUME MonitorBounds ==
  /\ MaxCopy \in Nat \ {0}
  /\ MaxStart \in Nat \ {0}
  /\ MaxBacklog \in Nat \ {0}

ASSUME HasteAssumption == Haste \in BOOLEAN

Item == 1..MaxCopy
Timer == 1..MaxStart
None == 0

VARIABLES
  running,  \* running[c], the session is started on c
  started,  \* started[c], no tick with peers has run since the start
  timer,    \* timer[c], the scheduled timer of c, or None
  starts,   \* how often a session was started, by anyone
  pb,       \* pb[c], the general pasteboard of c: who cleared it, what it holds
  fresh,    \* fresh[c], the change count differs from the one c remembers
  tick,     \* tick[c][t], how far a tick of timer t of c has come
  copying,  \* copying[c], the item a user has cleared the pasteboard for
  hears,    \* hears[c], the server delivers the channels of the peers to c
  wire,     \* published pastes that the server has not relayed yet
  inbox,    \* inbox[c][d], pastes of d delivered to c and not handled yet
  slot,     \* slot[c], the argument of the shared invocation of the handler
  handler,  \* handler[c][d], the handler of c on the connection to d
  copies,   \* history: the number of items copied so far
  origin,   \* history: origin[i], the client whose user copied i
  hidden,   \* history: items copied while their client was at rest
  out,      \* history: <<c, i>> when c has published i
  caught,   \* history: clients pasted to between a look and a read of a tick
  latest    \* history: an item copied in the session while nothing was
            \* under way, with no start, stop or copy since, or None

session == <<running, started, timer, starts>>
network == <<hears, wire, inbox>>
handling == <<slot, handler>>
history == <<copies, origin, hidden, out, caught, latest>>
vars == <<session, pb, fresh, tick, copying, network, handling, history>>

-----------------------------------------------------------------------------

\* An entry of a pasteboard; the handler adds a type of its own to a peer's.
Entry == [item : Item, peer : BOOLEAN]

\* writeObjects succeeds for the process that cleared the pasteboard last.
Pasteboard == [owner : {"user", "plaster"}, entries : Seq(Entry)]

Cleared(process) == [owner |-> process, entries |-> <<>>]

\* What a pasteboard holds after writeObjects by a process.
Written(board, process, entry) ==
  IF board.owner = process THEN [board EXCEPT !.entries = Append(@, entry)] ELSE board

EntriesOf(board) == {board.entries[k] : k \in DOMAIN board.entries}

Holds(c) == EntriesOf(pb[c])

\* canReadItemWithDataConformingToTypes: for the types of the peers' entries.
HoldsPeerType(c) == \E e \in Holds(c) : e.peer

Paste == [from : Client, item : Item]

\* A tick between its calls to the pasteboard: before the check for a peer's
\* paste, before the reading of the contents.
Stage == {"none", "look", "read"}

\* A handler: none, its argument set, the pasteboard cleared for the item.
Handling == [at : {"none", "called", "paste"}, item : Item \cup {None}]
Unused == [at |-> "none", item |-> None]

\* _plasterPeers, once PlasterSession has settled.
Peers(c) == IF running[c] THEN {d \in Client \ {c} : running[d]} ELSE {}

Ticking(c) == \E t \in Timer : tick[c][t] # "none"

\* Nothing is under way, and nothing is left for a tick to do.
Settled ==
  /\ wire = {}
  /\ \A c \in Client :
       /\ copying[c] = None
       /\ ~Ticking(c)
       /\ \A d \in Client : inbox[c][d] = <<>> /\ handler[c][d] = Unused
       /\ running[c] = hears[c]
       /\ Peers(c) # {} => ~started[c] /\ ~fresh[c]

MayBegin == Haste \/ Settled

Init ==
  /\ running = [c \in Client |-> FALSE]
  /\ started = [c \in Client |-> FALSE]
  /\ timer = [c \in Client |-> None]
  /\ starts = 0
  /\ pb = [c \in Client |-> Cleared("user")]
  /\ fresh = [c \in Client |-> FALSE]
  /\ tick = [c \in Client |-> [t \in Timer |-> "none"]]
  /\ copying = [c \in Client |-> None]
  /\ hears = [c \in Client |-> FALSE]
  /\ wire = {}
  /\ inbox = [c \in Client |-> [d \in Client |-> <<>>]]
  /\ slot = [c \in Client |-> None]
  /\ handler = [c \in Client |-> [d \in Client |-> Unused]]
  /\ copies = 0
  /\ origin = <<>>
  /\ hidden = {}
  /\ out = {}
  /\ caught = {}
  /\ latest = None

-----------------------------------------------------------------------------

\* start: flags, subscriptions, and a timer unless one is scheduled already
\* (a second start from a join window left open).
Start(c) ==
  /\ starts < MaxStart
  /\ MayBegin
  /\ starts' = starts + 1
  /\ running' = [running EXCEPT ![c] = TRUE]
  /\ started' = [started EXCEPT ![c] = TRUE]
  /\ timer' = [timer EXCEPT ![c] = IF @ = None THEN starts + 1 ELSE @]
  /\ hears' = [hears EXCEPT ![c] = TRUE]
  /\ latest' = None
  /\ UNCHANGED <<pb, fresh, tick, copying, wire, inbox, handling,
                 copies, origin, hidden, out, caught>>

\* stop: the timer is cancelled, a tick of it that has begun goes on; the
\* UNSUBSCRIBE is sent and not waited for.
Stop(c) ==
  /\ running[c]
  /\ MayBegin
  /\ running' = [running EXCEPT ![c] = FALSE]
  /\ started' = [started EXCEPT ![c] = FALSE]
  /\ timer' = [timer EXCEPT ![c] = None]
  /\ latest' = None
  /\ UNCHANGED <<starts, pb, fresh, tick, copying, network, handling,
                 copies, origin, hidden, out, caught>>

\* A user copies in some application, which first clears the pasteboard ...
CopyClear(c) ==
  /\ copies < MaxCopy
  /\ copying[c] = None
  /\ MayBegin
  /\ copies' = copies + 1
  /\ origin' = Append(origin, c)
  /\ copying' = [copying EXCEPT ![c] = copies + 1]
  /\ pb' = [pb EXCEPT ![c] = Cleared("user")]
  /\ fresh' = [fresh EXCEPT ![c] = TRUE]
  /\ latest' = IF Settled /\ running[c] THEN copies + 1 ELSE None
  /\ UNCHANGED <<session, tick, network, handling, hidden, out, caught>>

\* ... and then writes the item.
CopyWrite(c) ==
  /\ copying[c] # None
  /\ pb' = [pb EXCEPT ![c] = Written(@, "user", [item |-> copying[c], peer |-> FALSE])]
  /\ hidden' = IF running[c] \/ Ticking(c) THEN hidden ELSE hidden \cup {copying[c]}
  /\ copying' = [copying EXCEPT ![c] = None]
  /\ UNCHANGED <<session, fresh, tick, network, handling,
                 copies, origin, out, caught, latest>>

-----------------------------------------------------------------------------

\* A tick begins: its timer is scheduled and not inside an earlier tick, and
\* there are peers to publish to.
MayTick(c) == timer[c] # None /\ tick[c][timer[c]] = "none" /\ Peers(c) # {}

\* Mutant: the first tick ignores the contents without clearing them, as the
\* iOS client does.
FirstTickSparing(c) ==
  /\ MayTick(c)
  /\ started[c]
  /\ started' = [started EXCEPT ![c] = FALSE]
  /\ UNCHANGED <<running, timer, starts, pb, fresh, tick, copying, network, handling, history>>

\* onTimer, the first time with peers since the start: clear the pasteboard.
FirstTick(c) ==
  /\ MayTick(c)
  /\ started[c]
  /\ started' = [started EXCEPT ![c] = FALSE]
  /\ pb' = [pb EXCEPT ![c] = Cleared("plaster")]
  /\ fresh' = [fresh EXCEPT ![c] = TRUE]
  /\ UNCHANGED <<running, timer, starts, tick, copying, network, handling, history>>

\* onTimer up to the new change count.
TickCount(c) ==
  /\ MayTick(c)
  /\ ~started[c]
  /\ fresh[c]
  /\ fresh' = [fresh EXCEPT ![c] = FALSE]
  /\ tick' = [tick EXCEPT ![c][timer[c]] = "look"]
  /\ latest' = IF copying[c] # None THEN None ELSE latest
  /\ UNCHANGED <<session, pb, copying, network, handling, copies, origin, hidden, out, caught>>

\* onTimer, the check whether the pasteboard holds a paste of a peer.
TickLook(c, t) ==
  /\ tick[c][t] = "look"
  /\ tick' = [tick EXCEPT ![c][t] = IF HoldsPeerType(c) THEN "none" ELSE "read"]
  /\ UNCHANGED <<session, pb, fresh, copying, network, handling, history>>

\* plaster: reads the pasteboard again and publishes the first object on the
\* channel of the client, on a connection of its own.
TickRead(c, t) ==
  /\ tick[c][t] = "read"
  /\ tick' = [tick EXCEPT ![c][t] = "none"]
  /\ IF pb[c].entries = <<>>
       THEN UNCHANGED <<wire, out>>
       ELSE LET i == Head(pb[c].entries).item
            IN  /\ wire' = wire \cup {[from |-> c, item |-> i]}
                /\ out' = out \cup {<<c, i>>}
  /\ UNCHANGED <<session, pb, fresh, copying, hears, inbox, handling,
                 copies, origin, hidden, caught, latest>>

-----------------------------------------------------------------------------

\* The server relays a paste, in no order, to every client that subscribes.
ServerPublish(m) ==
  /\ m \in wire
  /\ \A c \in Client : Len(inbox[c][m.from]) < MaxBacklog
  /\ wire' = wire \ {m}
  /\ inbox' = [c \in Client |->
                 IF c # m.from /\ hears[c]
                   THEN [inbox[c] EXCEPT ![m.from] = Append(@, m.item)] ELSE inbox[c]]
  /\ UNCHANGED <<session, pb, fresh, tick, copying, hears, handling, history>>

\* The server executes the UNSUBSCRIBE commands of a client that has stopped.
ServerUnsubscribe(c) ==
  /\ hears[c] /\ ~running[c]
  /\ hears' = [hears EXCEPT ![c] = FALSE]
  /\ UNCHANGED <<session, pb, fresh, tick, copying, wire, inbox, handling, history>>

\* Mutant: the invocation is not given its argument.
ReceiveUnset(c, d) ==
  /\ handler[c][d].at = "none"
  /\ inbox[c][d] # <<>>
  /\ inbox' = [inbox EXCEPT ![c][d] = Tail(@)]
  /\ handler' = [handler EXCEPT ![c][d] = [at |-> "called", item |-> None]]
  /\ UNCHANGED <<session, pb, fresh, tick, copying, hears, wire, slot, history>>

\* Mutant: the invocation keeps the first argument it was given.
ReceiveFirst(c, d) ==
  /\ handler[c][d].at = "none"
  /\ inbox[c][d] # <<>>
  /\ slot' = [slot EXCEPT ![c] = IF @ = None THEN Head(inbox[c][d]) ELSE @]
  /\ inbox' = [inbox EXCEPT ![c][d] = Tail(@)]
  /\ handler' = [handler EXCEPT ![c][d] = [at |-> "called", item |-> None]]
  /\ UNCHANGED <<session, pb, fresh, tick, copying, hears, wire, history>>

\* rcSubscribeWithOptions: a paste becomes the argument of the invocation ...
Receive(c, d) ==
  /\ handler[c][d].at = "none"
  /\ inbox[c][d] # <<>>
  /\ slot' = [slot EXCEPT ![c] = Head(inbox[c][d])]
  /\ inbox' = [inbox EXCEPT ![c][d] = Tail(@)]
  /\ handler' = [handler EXCEPT ![c][d] = [at |-> "called", item |-> None]]
  /\ UNCHANGED <<session, pb, fresh, tick, copying, hears, wire, history>>

\* Mutant: the pasteboard is not cleared first.
HandleKeeping(c, d) ==
  /\ handler[c][d].at = "called"
  /\ handler' = [handler EXCEPT ![c][d] = [at |-> "paste", item |-> slot[c]]]
  /\ pb' = [pb EXCEPT ![c].owner = "plaster"]
  /\ fresh' = [fresh EXCEPT ![c] = TRUE]
  /\ UNCHANGED <<session, tick, copying, network, slot, history>>

\* ... handlePlasterInWithData: is invoked with the argument of that moment and
\* clears the pasteboard ...
HandleClear(c, d) ==
  /\ handler[c][d].at = "called"
  /\ handler' = [handler EXCEPT ![c][d] = [at |-> "paste", item |-> slot[c]]]
  /\ pb' = [pb EXCEPT ![c] = Cleared("plaster")]
  /\ fresh' = [fresh EXCEPT ![c] = TRUE]
  /\ UNCHANGED <<session, tick, copying, network, slot, history>>

\* Mutant: the paste is written without the type that marks it as a peer's.
HandleWritePlain(c, d) ==
  /\ handler[c][d].at = "paste"
  /\ pb' = [pb EXCEPT ![c] =
              Written(@, "plaster", [item |-> handler[c][d].item, peer |-> FALSE])]
  /\ handler' = [handler EXCEPT ![c][d] = Unused]
  /\ UNCHANGED <<session, fresh, tick, copying, network, slot, history>>

\* ... and writes the paste, with the type that marks it as a peer's.
HandleWrite(c, d) ==
  /\ handler[c][d].at = "paste"
  /\ pb' = [pb EXCEPT ![c] =
              Written(@, "plaster", [item |-> handler[c][d].item, peer |-> TRUE])]
  /\ handler' = [handler EXCEPT ![c][d] = Unused]
  /\ caught' = IF \E t \in Timer : tick[c][t] = "read" THEN caught \cup {c} ELSE caught
  /\ UNCHANGED <<session, fresh, tick, copying, network, slot,
                 copies, origin, hidden, out, latest>>

-----------------------------------------------------------------------------

User(c) == Start(c) \/ Stop(c) \/ CopyClear(c)

Monitor(c) ==
  \/ FirstTick(c) \/ TickCount(c)
  \/ \E t \in Timer : TickLook(c, t) \/ TickRead(c, t)

Handle(c, d) == Receive(c, d) \/ HandleClear(c, d) \/ HandleWrite(c, d)

Server == (\E m \in wire : ServerPublish(m)) \/ (\E c \in Client : ServerUnsubscribe(c))

Next ==
  \/ Server
  \/ \E c \in Client : User(c) \/ CopyWrite(c) \/ Monitor(c)
  \/ \E c, d \in Client : Handle(c, d)

Spec == Init /\ [][Next]_vars

\* The timer fires every 100 ms, the server and the threads go on, and an
\* application that has cleared the pasteboard writes to it.
Fairness ==
  /\ WF_vars(Server)
  /\ \A c \in Client : WF_vars(CopyWrite(c)) /\ WF_vars(Monitor(c))
  /\ \A c, d \in Client : WF_vars(Handle(c, d))

FairSpec == Spec /\ Fairness

-----------------------------------------------------------------------------

TypeOK ==
  /\ running \in [Client -> BOOLEAN]
  /\ started \in [Client -> BOOLEAN]
  /\ timer \in [Client -> Timer \cup {None}]
  /\ starts \in 0..MaxStart
  /\ pb \in [Client -> Pasteboard]
  /\ fresh \in [Client -> BOOLEAN]
  /\ tick \in [Client -> [Timer -> Stage]]
  /\ copying \in [Client -> Item \cup {None}]
  /\ hears \in [Client -> BOOLEAN]
  /\ wire \in SUBSET Paste
  /\ inbox \in [Client -> [Client -> Seq(Item)]]
  /\ slot \in [Client -> Item \cup {None}]
  /\ handler \in [Client -> [Client -> Handling]]
  /\ copies \in 0..MaxCopy
  /\ origin \in Seq(Client) /\ Len(origin) = copies
  /\ hidden \in SUBSET Item
  /\ out \in SUBSET (Client \X Item)
  /\ caught \in SUBSET Client
  /\ latest \in Item \cup {None}

\* The check in onTimer ("Packet is from a peer, discarding publish.."): what a
\* client received it does not publish again, or a paste would travel for ever.
\* The one way around the check is a paste written after it and before the
\* reading of the contents.
NoEcho == \A p \in out : origin[p[2]] = p[1] \/ p[1] \in caught

\* The comment in onTimer: "if Plaster just started, ignore existing pasteboard
\* content".  What was copied while the client was at rest never leaves it, over
\* any number of starts, stops and ticks of cancelled timers.
StaleStaysPrivate == \A p \in out : p[2] \notin hidden

\* onTimer and handlePlasterInWithData: once nothing is under way, an item that
\* was copied with nothing else going on is what every running client holds.
ClipboardsAgree ==
  Settled /\ latest # None =>
    \A c \in Client : running[c] /\ Peers(c) # {} =>
      {e.item : e \in Holds(c)} = {latest}

\* A copy made with nothing else going on reaches every client of the session.
CopyArrives ==
  \A c \in Client, i \in Item :
    latest = i /\ running[c] ~>
      (latest # i \/ \E e \in Holds(c) : e.item = i)

=============================================================================
