--------------------------- MODULE PlasterSession ---------------------------
(***************************************************************************)
(* The clients of one clipboard-sharing session: TSPlasterController       *)
(* (start, stop, the broadcast handler, the clean-up at launch) against a  *)
(* Redis server that holds one registry key and relays two kinds of        *)
(* channels.                                                               *)
(*                                                                         *)
(*   - The registry is the string under the session's peers key, the       *)
(*     identifiers of the participants joined by colons.  It is read with  *)
(*     GET and replaced with SET or DEL, each a blocking round trip of its *)
(*     own: an operation on it is a read step and a write step.            *)
(*   - A PUBLISH or a SUBSCRIBE runs on a connection of its own and is not *)
(*     waited for: the server executes it at any later moment, in any      *)
(*     order with the client's other commands.                             *)
(*   - Broadcast messages (HELLO, GOODBYE) reach the handler of every      *)
(*     client whose broadcast subscription the server has executed.        *)
(*                                                                         *)
(* Every action runs from one wait for the network to the next one.        *)
(***************************************************************************)
EXTENDS Naturals, Sequences, FiniteSets

CONSTANTS
  Client,      \* the devices that use this session key
  Alias,       \* Alias[c], the device name under which c appears to the others
  Occurs,      \* {<<c, d>> : the alias of c is a substring of the alias of d}
  NoKey,       \* the registry key does not exist (nil)
  Broadcast,   \* the session's broadcast channel
  Allowed,     \* what the users and the network may do, see Conduct
  MaxLaunch,   \* bound: launches of the application per device
  MaxBacklog,  \* bound: messages, and commands per device, in flight at a start
  MaxStart     \* bound: session starts, of all devices together

(***************************************************************************)
(* What the environment may do beyond the tidy life of a session:          *)
(*   haste    begin an operation while messages are still in flight        *)
(*   overlap  begin one while another device is inside its own             *)
(*   rejoin   start again from a join window left open while running       *)
(*   quit     quit the application at rest (which never calls stop)        *)
(*   crash    lose the application at any step                             *)
(*   outage   fail to reach the server for a blocking command              *)
(***************************************************************************)
Conduct == {"haste", "overlap", "rejoin", "quit", "crash", "outage"}

ASSUME ConductAssumption == Allowed \subseteq Conduct

ASSUME BoundAssumption ==
  /\ MaxLaunch \in Nat \ {0}
  /\ MaxStart \in Nat \ {0}
  /\ MaxBacklog \in Nat

ASSUME OccursAssumption ==
  /\ Occurs \subseteq Client \X Client
  /\ \A c, d \in Client : Alias[c] = Alias[d] => <<c, d>> \in Occurs

(***************************************************************************)
(* An entry is one occurrence of an identifier "clientID_alias".  Two      *)
(* occurrences are the same text when client and launch agree: the client  *)
(* ID is drawn once per launch.  The registry and the list of peers keep   *)
(* their multiplicities and forget their order.                            *)
(***************************************************************************)
Entry == [client : Client, launch : 1..MaxLaunch, start : 1..MaxStart]

\* A missing key is no list, not even the empty one.
ASSUME NoKeyAssumption == \A s \in SUBSET Entry : s # NoKey

VARIABLES
  pc,        \* pc[c], where the main thread of c is between two network waits
  launch,    \* launch[c], how often the application was launched: its client ID
  starts,    \* how often the session was started, by anyone
  stay,      \* stay[c], the start with which c entered the session last
  saved,     \* saved[c], the session key is in the user defaults of c
  list,      \* list[c], the registry value that c read and has not replaced yet
  peers,     \* peers[c], _plasterPeers
  registry,  \* the value under the peers key on the server
  conns,     \* conns[c], the subscriber connections of c
  wire,      \* published messages that the server has not executed yet
  inbox      \* inbox[c], messages delivered to c and not handled yet

vars == <<pc, launch, starts, stay, saved, list, peers, registry, conns, wire, inbox>>

-----------------------------------------------------------------------------

Me(c) == [client |-> c, launch |-> launch[c], start |-> stay[c]]

SameText(e, f) == e.client = f.client /\ e.launch = f.launch

\* -isEqual: of a peer looks at the alias alone.
SamePeer(e, f) == Alias[e.client] = Alias[f.client]

\* The channel on which a peer publishes what it copies.
PeerChannel(e) == <<e.client, e.launch>>

Channel == {Broadcast} \cup (Client \X (1..MaxLaunch))

\* A subscriber connection: SUBSCRIBE sent, executed, both commands sent,
\* executed and UNSUBSCRIBE sent.
ConnState == {"asked", "live", "both", "leaving"}
Conn == [chans : SUBSET Channel, st : ConnState]

Message == [kind : {"HELLO", "GOODBYE"}, from : Entry]

\* A registry value has one component: one entry, or none for the empty text.
OneComponent(s) == \E e \in Entry : s \subseteq {e}

InRegistryStep == {"bootGet", "bootPut", "stopGet", "stopPut", "cleanGet", "cleanPut"}
PC == InRegistryStep \cup {"down", "idle", "bootSub", "running"}

\* c has entered the registry and not left it.
InSession(c) == pc[c] \in {"bootSub", "running", "stopGet", "stopPut"}

Hears(c, ch) == \E k \in conns[c] : ch \in k.chans /\ k.st \in {"live", "leaving"}

Knows(c, e) == \E p \in peers[c] : SamePeer(p, e)

\* Nobody is inside an operation and nothing is in flight.
Settled ==
  /\ wire = {}
  /\ \A c \in Client : /\ pc[c] \in {"down", "idle", "running"}
                       /\ inbox[c] = <<>>
                       /\ \A k \in conns[c] : k.st = "live"

\* The environment lets c begin an operation on the session.
MayBegin(c) ==
  /\ "overlap" \in Allowed \/ \A d \in Client \ {c} : pc[d] \notin InRegistryStep
  /\ "haste" \in Allowed \/ Settled
  /\ Cardinality(wire) <= MaxBacklog
  /\ \A d \in Client : /\ Cardinality({k \in conns[d] : k.st # "live"}) <= MaxBacklog
                       /\ Len(inbox[d]) <= MaxBacklog

-----------------------------------------------------------------------------

Init ==
  /\ pc = [c \in Client |-> "down"]
  /\ launch = [c \in Client |-> 0]
  /\ starts = 0
  /\ stay = [c \in Client |-> 0]
  /\ saved = [c \in Client |-> FALSE]
  /\ list = [c \in Client |-> NoKey]
  /\ peers = [c \in Client |-> {}]
  /\ registry = NoKey
  /\ conns = [c \in Client |-> {}]
  /\ wire = {}
  /\ inbox = [c \in Client |-> <<>>]

\* awakeFromNib: a new process, a new client ID; with a saved key it first
\* removes what an earlier life left in the registry.
Launch(c) ==
  /\ pc[c] = "down"
  /\ launch[c] < MaxLaunch
  /\ MayBegin(c)
  /\ launch' = [launch EXCEPT ![c] = @ + 1]
  /\ pc' = [pc EXCEPT ![c] = IF saved[c] THEN "cleanGet" ELSE "idle"]
  /\ UNCHANGED <<starts, stay, saved, list, peers, registry, conns, wire, inbox>>

\* disconnectFromSessions, the read; without a key there is nothing to clean.
CleanGet(c) ==
  /\ pc[c] = "cleanGet"
  /\ \/ /\ registry # NoKey
        /\ list' = [list EXCEPT ![c] = registry]
        /\ pc' = [pc EXCEPT ![c] = "cleanPut"]
     \/ /\ registry = NoKey \/ "outage" \in Allowed
        /\ pc' = [pc EXCEPT ![c] = "idle"]
        /\ UNCHANGED list
  /\ UNCHANGED <<launch, starts, stay, saved, peers, registry, conns, wire, inbox>>

\* Mutant: the clean-up removes its own identifier, which a new launch never has.
StaleByText(c, e) == SameText(e, Me(c))

\* DEL, and whether it counts as done: not without an answer, nor for a key that is gone.
deleteKey(done) ==
  \/ registry' = NoKey /\ done = (registry # NoKey)
  \/ "outage" \in Allowed /\ UNCHANGED registry /\ ~done

\* SET of a list.
setStringValue(entries, done) ==
  \/ registry' = entries /\ done
  \/ "outage" \in Allowed /\ UNCHANGED registry /\ ~done

\* Whether the clean-up of c removes entry e: the alias of c occurs in its text.
Stale(c, e) == <<c, e.client>> \in Occurs

\* disconnectFromSessions, the write.  No component left: DEL.  The empty text
\* has one component, which never matches, and is written back.
CleanPut(c) ==
  /\ pc[c] = "cleanPut"
  /\ LET rest == {e \in list[c] : ~Stale(c, e)}
     IN  \E done \in BOOLEAN :
           IF rest = {} /\ list[c] # {} THEN deleteKey(done) ELSE setStringValue(rest, done)
  /\ pc' = [pc EXCEPT ![c] = "idle"]
  /\ list' = [list EXCEPT ![c] = NoKey]
  /\ UNCHANGED <<launch, starts, stay, saved, peers, conns, wire, inbox>>

-----------------------------------------------------------------------------

\* Mutant: the start is not announced.
StartQuietly(c) ==
  /\ pc[c] = "idle" \/ (pc[c] = "running" /\ "rejoin" \in Allowed)
  /\ starts < MaxStart
  /\ MayBegin(c)
  /\ starts' = starts + 1
  /\ stay' = [stay EXCEPT ![c] = starts + 1]
  /\ conns' = [conns EXCEPT ![c] = @ \cup {[chans |-> {Broadcast}, st |-> "asked"]}]
  /\ pc' = [pc EXCEPT ![c] = "bootGet"]
  /\ UNCHANGED <<launch, saved, list, peers, registry, wire, inbox>>

\* start and the beginning of bootWithPeers: HELLO, then the subscription to
\* the broadcast channel, both sent and neither waited for.
Start(c) ==
  /\ pc[c] = "idle" \/ (pc[c] = "running" /\ "rejoin" \in Allowed)
  /\ starts < MaxStart
  /\ MayBegin(c)
  /\ starts' = starts + 1
  /\ stay' = [stay EXCEPT ![c] = starts + 1]
  /\ wire' = wire \cup {[kind |-> "HELLO", from |-> [Me(c) EXCEPT !.start = starts + 1]]}
  /\ conns' = [conns EXCEPT ![c] = @ \cup {[chans |-> {Broadcast}, st |-> "asked"]}]
  /\ pc' = [pc EXCEPT ![c] = "bootGet"]
  /\ UNCHANGED <<launch, saved, list, peers, registry, inbox>>

\* bootWithPeers reads the registry and takes every entry for a peer, itself
\* included.  The empty text has a component that is no peer: the insertion of
\* nil raises and the start is abandoned.
BootGet(c) ==
  /\ pc[c] = "bootGet"
  /\ \/ /\ registry \notin {NoKey, {}}
        /\ list' = [list EXCEPT ![c] = registry]
        /\ peers' = [peers EXCEPT ![c] = @ \cup registry]
        /\ pc' = [pc EXCEPT ![c] = "bootPut"]
     \/ /\ registry = {}
        /\ pc' = [pc EXCEPT ![c] = "idle"]
        /\ UNCHANGED <<list, peers>>
     \/ /\ registry = NoKey \/ "outage" \in Allowed
        /\ list' = [list EXCEPT ![c] = NoKey]
        /\ pc' = [pc EXCEPT ![c] = "bootPut"]
        /\ UNCHANGED peers
  /\ UNCHANGED <<launch, starts, stay, saved, registry, conns, wire, inbox>>

\* Mutant: everyone registers as the first participant.
BootPutAlone(c) ==
  /\ pc[c] = "bootPut"
  /\ registry' = {Me(c)}
  /\ pc' = [pc EXCEPT ![c] = "bootSub"]
  /\ list' = [list EXCEPT ![c] = NoKey]
  /\ UNCHANGED <<launch, starts, stay, saved, peers, conns, wire, inbox>>

\* Mutant: the missing key is not told from a list.
BootPutOnNil(c) ==
  /\ pc[c] = "bootPut"
  /\ registry' = (IF list[c] = NoKey THEN {NoKey} ELSE list[c]) \cup {Me(c)}
  /\ pc' = [pc EXCEPT ![c] = "bootSub"]
  /\ list' = [list EXCEPT ![c] = NoKey]
  /\ UNCHANGED <<launch, starts, stay, saved, peers, conns, wire, inbox>>

\* bootWithPeers writes back the list it read with itself appended.  A failed
\* SET trips NSAssert in a debug build and goes unnoticed in a release build.
BootPut(c) ==
  /\ pc[c] = "bootPut"
  /\ \E done \in BOOLEAN :
       /\ setStringValue((IF list[c] = NoKey THEN {} ELSE list[c]) \cup {Me(c)}, done)
       /\ \E next \in IF done THEN {"bootSub"} ELSE {"idle", "bootSub"} :
            pc' = [pc EXCEPT ![c] = next]
  /\ list' = [list EXCEPT ![c] = NoKey]
  /\ UNCHANGED <<launch, starts, stay, saved, peers, conns, wire, inbox>>

\* Mutant: the peers found in the registry are listed but not subscribed to.
BootSubscribeNobody(c) ==
  /\ pc[c] = "bootSub"
  /\ saved' = [saved EXCEPT ![c] = TRUE]
  /\ pc' = [pc EXCEPT ![c] = "running"]
  /\ UNCHANGED <<launch, starts, stay, list, peers, registry, conns, wire, inbox>>

\* Mutant: the session key is not saved.
BootSubscribeUnsaved(c) ==
  /\ pc[c] = "bootSub"
  /\ conns' = [conns EXCEPT ![c] = @ \cup
       {[chans |-> {PeerChannel(p) : p \in peers[c]}, st |-> "asked"]}]
  /\ pc' = [pc EXCEPT ![c] = "running"]
  /\ UNCHANGED <<launch, starts, stay, saved, list, peers, registry, wire, inbox>>

\* bootWithPeers subscribes to all peers it has by now with one command, and
\* the application delegate saves the session key.
BootSubscribe(c) ==
  /\ pc[c] = "bootSub"
  /\ conns' = IF peers[c] = {} THEN conns ELSE
       [conns EXCEPT ![c] = @ \cup
          {[chans |-> {PeerChannel(p) : p \in peers[c]}, st |-> "asked"]}]
  /\ saved' = [saved EXCEPT ![c] = TRUE]
  /\ pc' = [pc EXCEPT ![c] = "running"]
  /\ UNCHANGED <<launch, starts, stay, list, peers, registry, wire, inbox>>

-----------------------------------------------------------------------------

\* Mutant: only the broadcast channel is left.
UnsubscribedBroadcast(k) ==
  IF Broadcast \notin k.chans THEN k ELSE
    [k EXCEPT !.st = CASE @ = "asked" -> "both" [] @ = "live" -> "leaving" [] OTHER -> @]

\* unsubscribeAll appends UNSUBSCRIBE to every subscriber connection.
Unsubscribed(k) ==
  [k EXCEPT !.st = CASE @ = "asked" -> "both" [] @ = "live" -> "leaving" [] OTHER -> @]

\* stop: GOODBYE and unsubscribeAll, neither waited for.
Stop(c) ==
  /\ pc[c] = "running"
  /\ MayBegin(c)
  /\ wire' = wire \cup {[kind |-> "GOODBYE", from |-> Me(c)]}
  /\ conns' = [conns EXCEPT ![c] = {Unsubscribed(k) : k \in @}]
  /\ pc' = [pc EXCEPT ![c] = "stopGet"]
  /\ UNCHANGED <<launch, starts, stay, saved, list, peers, registry, inbox>>

\* stop reads the registry; without a key it returns and keeps its peers.
StopGet(c) ==
  /\ pc[c] = "stopGet"
  /\ \/ /\ registry # NoKey
        /\ list' = [list EXCEPT ![c] = registry]
        /\ pc' = [pc EXCEPT ![c] = "stopPut"]
     \/ /\ registry = NoKey \/ "outage" \in Allowed
        /\ pc' = [pc EXCEPT ![c] = "idle"]
        /\ UNCHANGED list
  /\ UNCHANGED <<launch, starts, stay, saved, peers, registry, conns, wire, inbox>>

\* The end of stop after its DEL or SET.  Success, or a failure in a release
\* build: the peers are forgotten.  A failure in a debug build raises: they
\* stay and so does the Stop item of the menu.
Stopped(c, succeeded) ==
  \/ /\ pc' = [pc EXCEPT ![c] = "idle"]
     /\ peers' = [peers EXCEPT ![c] = {}]
  \/ /\ ~succeeded
     /\ pc' = [pc EXCEPT ![c] = "running"]
     /\ UNCHANGED peers

\* Mutant: the list is written back unchanged.
StopPutSame(c) ==
  /\ pc[c] = "stopPut"
  /\ registry' = IF OneComponent(list[c]) THEN NoKey ELSE list[c]
  /\ Stopped(c, TRUE)
  /\ list' = [list EXCEPT ![c] = NoKey]
  /\ UNCHANGED <<launch, starts, stay, saved, conns, wire, inbox>>

\* Mutant: the key is never deleted.
StopPutEmpty(c) ==
  /\ pc[c] = "stopPut"
  /\ registry' = {e \in list[c] : ~SameText(e, Me(c))}
  /\ Stopped(c, TRUE)
  /\ list' = [list EXCEPT ![c] = NoKey]
  /\ UNCHANGED <<launch, starts, stay, saved, conns, wire, inbox>>

\* stop deletes the key when the list it read has one component, whatever that
\* is, and otherwise writes the list back without itself.
StopPut(c) ==
  /\ pc[c] = "stopPut"
  /\ \E done \in BOOLEAN :
       /\ IF OneComponent(list[c]) THEN deleteKey(done)
          ELSE setStringValue({e \in list[c] : ~SameText(e, Me(c))}, done)
       /\ Stopped(c, done)
  /\ list' = [list EXCEPT ![c] = NoKey]
  /\ UNCHANGED <<launch, starts, stay, saved, conns, wire, inbox>>

-----------------------------------------------------------------------------

\* The server executes a PUBLISH: a copy goes to every broadcast subscriber,
\* the sender included.
ServerPublish(m) ==
  /\ m \in wire
  /\ wire' = wire \ {m}
  /\ inbox' = [c \in Client |->
                 IF Hears(c, Broadcast) THEN Append(inbox[c], m) ELSE inbox[c]]
  /\ UNCHANGED <<pc, launch, starts, stay, saved, list, peers, registry, conns>>

\* The server executes the SUBSCRIBE of a connection.
ServerSubscribe(c, k) ==
  /\ k \in conns[c]
  /\ k.st \in {"asked", "both"}
  /\ conns' = [conns EXCEPT ![c] = (@ \ {k}) \cup
                 {[k EXCEPT !.st = IF @ = "asked" THEN "live" ELSE "leaving"]}]
  /\ UNCHANGED <<pc, launch, starts, stay, saved, list, peers, registry, wire, inbox>>

\* The server executes the UNSUBSCRIBE of a connection.
ServerUnsubscribe(c, k) ==
  /\ k \in conns[c]
  /\ k.st = "leaving"
  /\ conns' = [conns EXCEPT ![c] = @ \ {k}]
  /\ UNCHANGED <<pc, launch, starts, stay, saved, list, peers, registry, wire, inbox>>

\* Mutant: the new peer is listed without a subscription.
HandleHelloSilently(c) ==
  /\ inbox[c] # <<>>
  /\ Head(inbox[c]).kind = "HELLO"
  /\ LET e == Head(inbox[c]).from
     IN  peers' = IF SamePeer(e, Me(c)) \/ Knows(c, e) THEN peers
                  ELSE [peers EXCEPT ![c] = @ \cup {e}]
  /\ inbox' = [inbox EXCEPT ![c] = Tail(@)]
  /\ UNCHANGED <<pc, launch, starts, stay, saved, list, registry, conns, wire>>

\* handlePeerAttachAndDetachWithData on HELLO, at any time while the process
\* lives: a message under the own alias is ignored, any other is subscribed to
\* whether or not its alias is known already.
HandleHello(c) ==
  /\ inbox[c] # <<>>
  /\ LET m == Head(inbox[c])
         e == m.from
     IN  /\ m.kind = "HELLO"
         /\ IF SamePeer(e, Me(c))
              THEN UNCHANGED <<conns, peers>>
              ELSE /\ conns' = [conns EXCEPT ![c] = @ \cup
                                  {[chans |-> {PeerChannel(e)}, st |-> "asked"]}]
                   /\ peers' = IF Knows(c, e) THEN peers
                               ELSE [peers EXCEPT ![c] = @ \cup {e}]
  /\ inbox' = [inbox EXCEPT ![c] = Tail(@)]
  /\ UNCHANGED <<pc, launch, starts, stay, saved, list, registry, wire>>

\* Mutant: the departure is notified and the peer kept.
HandleGoodbyeKeeping(c) ==
  /\ inbox[c] # <<>>
  /\ Head(inbox[c]).kind = "GOODBYE"
  /\ inbox' = [inbox EXCEPT ![c] = Tail(@)]
  /\ UNCHANGED <<pc, launch, starts, stay, saved, list, peers, registry, conns, wire>>

\* ... and on GOODBYE: every peer of that alias is forgotten; the subscription
\* to its channel stays.
HandleGoodbye(c) ==
  /\ inbox[c] # <<>>
  /\ LET m == Head(inbox[c])
         e == m.from
     IN  /\ m.kind = "GOODBYE"
         /\ peers' = IF SamePeer(e, Me(c)) THEN peers
                     ELSE [peers EXCEPT ![c] = {p \in @ : ~SamePeer(p, e)}]
  /\ inbox' = [inbox EXCEPT ![c] = Tail(@)]
  /\ UNCHANGED <<pc, launch, starts, stay, saved, list, registry, conns, wire>>

\* The process ends: its connections close, and of its commands that the
\* server has not executed any may be lost with it.
Die(c) ==
  /\ \/ "quit" \in Allowed /\ pc[c] \in {"idle", "running"}
     \/ "crash" \in Allowed /\ pc[c] # "down"
  /\ pc' = [pc EXCEPT ![c] = "down"]
  /\ list' = [list EXCEPT ![c] = NoKey]
  /\ peers' = [peers EXCEPT ![c] = {}]
  /\ conns' = [conns EXCEPT ![c] = {}]
  /\ inbox' = [inbox EXCEPT ![c] = <<>>]
  /\ \E lost \in SUBSET {m \in wire : m.from.client = c} : wire' = wire \ lost
  /\ UNCHANGED <<launch, starts, stay, saved, registry>>

-----------------------------------------------------------------------------

\* What the user decides.
User(c) == Launch(c) \/ Start(c) \/ Stop(c) \/ Die(c)

\* What a client does without being asked.
Progress(c) ==
  \/ CleanGet(c) \/ CleanPut(c)
  \/ BootGet(c) \/ BootPut(c) \/ BootSubscribe(c)
  \/ StopGet(c) \/ StopPut(c)

Handle(c) == HandleHello(c) \/ HandleGoodbye(c)

ServerConn(c) == \E k \in conns[c] : ServerSubscribe(c, k) \/ ServerUnsubscribe(c, k)

Server == (\E m \in wire : ServerPublish(m)) \/ (\E c \in Client : ServerConn(c))

Next == Server \/ \E c \in Client : User(c) \/ Progress(c) \/ Handle(c)

Spec == Init /\ [][Next]_vars

\* The server executes what it is sent and a client's threads keep running;
\* nothing makes a user start, stop or launch.
Fairness ==
  /\ WF_vars(Server)
  /\ \A c \in Client : WF_vars(Progress(c)) /\ WF_vars(Handle(c))

FairSpec == Spec /\ Fairness

-----------------------------------------------------------------------------

(***************************************************************************)
(* Properties.  Which environment each of them survives is said by the     *)
(* runs that check it.                                                     *)
(***************************************************************************)

\* The shape of the state.
TypeOK ==
  /\ pc \in [Client -> PC]
  /\ launch \in [Client -> 0..MaxLaunch]
  /\ starts \in 0..MaxStart
  /\ stay \in [Client -> 0..MaxStart]
  /\ saved \in [Client -> BOOLEAN]
  /\ list \in [Client -> (SUBSET Entry) \cup {NoKey}]
  /\ peers \in [Client -> SUBSET Entry]
  /\ registry \in (SUBSET Entry) \cup {NoKey}
  /\ conns \in [Client -> SUBSET Conn]
  /\ wire \in SUBSET Message
  /\ inbox \in [Client -> Seq(Message)]

\* Entries in the registry; none when the key does not exist.
Listed == IF registry = NoKey THEN {} ELSE registry

\* The comment in bootWithPeers: "Add self to list, for the benefit of future
\* participants joining this session".  Whoever is in the session is listed, so
\* that whoever joins later finds them.
SelfListed == \A c \in Client : InSession(c) => Me(c) \in Listed

\* stop removes the client from the list of participants: an entry of a live
\* process belongs to its present stay in the session, never to an earlier one.
StoppedIsUnlisted ==
  \A e \in Listed :
    LET c == e.client
    IN  pc[c] # "down" /\ e.launch = launch[c] => InSession(c) /\ e = Me(c)

\* The comment in -start of the application delegate: the session key is saved
\* to "clean up from a crash/failure".  An entry that nobody stands behind has a
\* device that remembers to remove it at its next launch.
LeftoverRemembered ==
  \A e \in Listed : saved[e.client] \/ (InSession(e.client) /\ e = Me(e.client))

\* bootWithPeers and the HELLO handler: a running client that shows a peer in
\* its menu has asked the server for what that peer publishes.
PeersAreHeard ==
  \A c \in Client : pc[c] = "running" =>
    \A p \in peers[c] : \E k \in conns[c] :
      PeerChannel(p) \in k.chans /\ k.st \in {"asked", "live"}

\* Two running clients of different name list and hear each other.
MutuallyAware ==
  \A c, d \in Client :
    pc[c] = "running" /\ pc[d] = "running" /\ Alias[c] # Alias[d] =>
      Knows(c, Me(d)) /\ Hears(c, PeerChannel(Me(d)))

\* A stopped client has no subscription, so that no paste reaches its clipboard.
StoppedIsDeaf == \A c \in Client : pc[c] = "idle" => conns[c] = {}

\* No running client still lists the stay that a stopped one has ended.
NoGhostPeer ==
  \A c, d \in Client : pc[c] = "running" /\ pc[d] = "idle" => Me(d) \notin peers[c]

\* Once nothing is in flight everybody has it right.  The broadcast handler "enables the
\* plaster client to be aware of future additions to the plaster session"
\* (TSPlasterController.m:726), whatever HELLO, GOODBYE and subscription came first; stop
\* is to "unsubscribe from the broadcast channel, and from all peer paste channels" (:244),
\* whatever HELLO was still being handled; and the GOODBYE handler forgets who has left.
SettledSessionsAgree == Settled => MutuallyAware /\ StoppedIsDeaf /\ NoGhostPeer

\* The HELLO handler ignores itself, bootWithPeers does not: still a client
\* never lists its own name, because its clean-up at launch came first.
NeverOwnPeer == \A c \in Client : \A p \in peers[c] : ~SamePeer(p, Me(c))

OwnerOf(e) == e.client

Present == {Me(c) : c \in {d \in Client : InSession(d)}}

\* The whole registry protocol, two round trips an operation, does what the
\* single steps of SessionRoster do.
Roster == INSTANCE SessionRoster WITH
  Device <- Client, Item <- Entry, Owner <- OwnerOf, Gone <- NoKey,
  roster <- registry, present <- Present

ImplementsRoster == Roster!RosterSpec

\* Two clients that stay in the session get to hear each other: start is done
\* when the subscriptions it asked for are.
EventuallyHeard ==
  \A c, d \in Client : Alias[c] # Alias[d] =>
    (pc[c] = "running" /\ pc[d] = "running") ~>
      \/ Hears(c, PeerChannel(Me(d)))
      \/ pc[c] # "running" \/ pc[d] # "running"

=============================================================================
