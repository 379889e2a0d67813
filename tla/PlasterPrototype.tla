-------------------------- MODULE PlasterPrototype --------------------------
(***************************************************************************)
(* The first prototype of the client, src/Plaster/Plaster: its processes,  *)
(* from launch to end, against the Redis server.  It differs from the      *)
(* client that replaced it in what makes a session: the session id is a    *)
(* user default, which the start panel and the preferences window set, and *)
(* which start and stop each read for themselves; one asynchronous         *)
(* connection lasts for all that a process publishes, and one blocking     *)
(* connection for all that it reads and writes; peers are collected and    *)
(* not listened to.                                                        *)
(*                                                                         *)
(* The main thread goes from one wait for the server to the next in one    *)
(* step; handlers of connections run beside it.  A process that has used   *)
(* memory after it was freed goes on or ends: see Fall.                    *)
(***************************************************************************)
EXTENDS Naturals, FiniteSets, SequencesExt, BagsExt

CONSTANTS
  Client,       \* processes; the client id is created at launch
  Id,           \* session ids
  Allowed,      \* what may happen beyond a tidy life, see Trouble
  MaxStarts,    \* bound: starts of sessions
  MaxEvents,    \* bound: visits to the preferences window and troubles
  NoId, NoKey,
  Blank         \* the one component of an empty text

Trouble == {"outage", "loss", "crash"}

ASSUME AllowedAssumption == Allowed \subseteq Trouble
ASSUME BoundsAssumption == {MaxStarts, MaxEvents} \subseteq Nat

Parts == Client \cup {Blank}

\* A text between colons is a bag of components: nothing depends on their order.
IsText(t) == \E P \in SUBSET Parts : t \in [P -> Nat]

ASSUME NamesAssumption == NoId \notin Id /\ Blank \notin Client /\ ~IsText(NoKey)

VARIABLES
  lists,     \* the server: participants' texts, split at the colons
  setting,   \* user defaults: the session id, NoId until the first launch
  asked,     \* user defaults: "plaster-init"
  window,    \* the preferences window: "none" (never loaded), "open", "closed"
  copied,    \* the session id it holds
  pc,        \* where the main thread is
  quitting,  \* is it on its way out?
  session,   \* the session of the latest start
  key,       \* the session id that the running start or stop has read
  held,      \* the list it has read
  peers,     \* _peers
  sync,      \* _blockingContext: "live" or "broken"
  pub,       \* _asyncPubSessionContext: "live", "null" or "freed"
  outbox,    \* commands on it that the server has not executed
  subs,      \* subscriptions with a connection, by the number of their start
  table,     \* _subscribers: numbers of starts
  freed,     \* numbers of starts whose handler bundle has been freed
  inbox,     \* broadcasts that have arrived and are not handled
  starts, events,
  strain,    \* history: what has happened to a session
  past,      \* history: what has happened to a process
  damage     \* what it has used after it was freed

server   == <<lists>>
settings == <<setting, asked, window, copied>>
thread   == <<pc, quitting, session, key, held>>
links    == <<sync, pub, outbox, subs, table, freed, inbox>>
bounds   == <<starts, events>>
history  == <<strain, past, damage>>
vars == <<server, settings, thread, peers, links, bounds, history>>

NoList == EmptyBag
Sub    == [n : 1 .. MaxStarts, id : Id, st : {"asked", "live"}]
Post   == [n : 1 .. MaxStarts, from : Client]
Busy   == {"boot_get", "boot_put", "stop_get", "stop_put"}
Alive  == Busy \cup {"idle", "running"}
Strain == {"overlap", "haste", "outage", "moved", "loss", "ended"}
Event  == {"loss", "crossed", "kept"}
Damage == {"publisher", "subscriber", "bundle", "twice"}

TypeOK ==
  /\ \A k \in Id : lists[k] = NoKey \/ (IsText(lists[k]) /\ lists[k] # NoList)
  /\ DOMAIN lists = Id
  /\ setting \in [Client -> Id \cup {NoId}] /\ asked \in [Client -> BOOLEAN]
  /\ window \in [Client -> {"none", "open", "closed"}] /\ copied \in [Client -> Id \cup {NoId}]
  /\ pc \in [Client -> Alive \cup {"down", "hollow", "over"}]
  /\ quitting \in [Client -> BOOLEAN]
  /\ session \in [Client -> Id \cup {NoId}] /\ key \in [Client -> Id \cup {NoId}]
  /\ DOMAIN held = Client /\ \A c \in Client : IsText(held[c])
  /\ peers \in [Client -> SUBSET Parts]
  /\ sync \in [Client -> {"live", "broken"}] /\ pub \in [Client -> {"live", "null", "freed"}]
  /\ outbox \in [Client -> Seq(Id)]
  /\ subs \in [Client -> SUBSET Sub] /\ inbox \in [Client -> SUBSET Post]
  /\ \A c \in Client : (table[c] \cup freed[c]) \subseteq 1 .. starts
  /\ starts \in 0 .. MaxStarts /\ events \in 0 .. MaxEvents
  /\ strain \in [Id -> SUBSET Strain] /\ past \in [Client -> SUBSET Event]
  /\ damage \in [Client -> SUBSET Damage]

\* Nobody has been asked for a session id, or all of them share one since earlier launches.
Init ==
  /\ lists = [k \in Id |-> NoKey]
  /\ \E k \in Id \cup {NoId} : setting = [c \in Client |-> k]
  /\ asked = [c \in Client |-> setting[c] # NoId]
  /\ window = [c \in Client |-> "none"] /\ copied = [c \in Client |-> NoId]
  /\ pc = [c \in Client |-> "down"] /\ quitting = [c \in Client |-> FALSE]
  /\ session = copied /\ key = copied /\ held = [c \in Client |-> NoList]
  /\ peers = [c \in Client |-> {}]
  /\ sync = [c \in Client |-> "live"] /\ pub = sync
  /\ outbox = [c \in Client |-> <<>>]
  /\ subs = peers /\ table = peers /\ freed = peers /\ inbox = peers
  /\ starts = 0 /\ events = 0
  /\ strain = [k \in Id |-> {}] /\ past = peers /\ damage = peers

-----------------------------------------------------------------------------
\* A UUID that nobody has.
Unused ==
  Id \ (UNION {{setting[c], copied[c], session[c]} : c \in Client} \cup {k \in Id : lists[k] # NoKey})

Strained(k, s) == [strain EXCEPT ![k] = @ \cup s]
Mark(f, c, s)  == [f EXCEPT ![c] = @ \cup s]

Happens == events < MaxEvents /\ events' = events + 1

Troubled(t) == t \in Allowed /\ Happens

\* Another client in the middle of an operation on the same list.
Overlap(c, k) == IF \E d \in Client \ {c} : pc[d] \in Busy /\ key[d] = k THEN {"overlap"} ELSE {}

\* The end of a process, of its connections and of what has happened to it.
Closed(c) ==
  /\ pc' = [pc EXCEPT ![c] = "over"]
  /\ subs' = [subs EXCEPT ![c] = {}] /\ inbox' = [inbox EXCEPT ![c] = {}]
  /\ peers' = [peers EXCEPT ![c] = {}]
  /\ table' = [table EXCEPT ![c] = {}] /\ freed' = [freed EXCEPT ![c] = {}]
  /\ pub' = [pub EXCEPT ![c] = "null"]
  /\ window' = [window EXCEPT ![c] = "none"] /\ copied' = [copied EXCEPT ![c] = NoId]
  /\ past' = [past EXCEPT ![c] = {}] /\ damage' = [damage EXCEPT ![c] = {}]

\* The main thread has no session.
NoSession(c) ==
  /\ session' = [session EXCEPT ![c] = NoId] /\ key' = [key EXCEPT ![c] = NoId]
  /\ held' = [held EXCEPT ![c] = NoList]

Gone(c) ==
  /\ NoSession(c) /\ Closed(c)
  /\ strain' = IF session[c] # NoId THEN Strained(session[c], {"ended"}) ELSE strain
  /\ UNCHANGED <<lists, setting, asked, quitting, sync, outbox, starts>>

-----------------------------------------------------------------------------
\* The connections.

\* initWithIPAddress: opens both lasting connections.  Without the blocking one there is
\* no provider, and without a provider no controller: the menu works, and nothing else.
Launch(c) ==
  /\ pc[c] = "down"
  /\ IF setting[c] = NoId THEN \E k \in Unused : setting' = [setting EXCEPT ![c] = k]
                         ELSE setting' = setting
  /\ \/ pc' = [pc EXCEPT ![c] = "idle"] /\ UNCHANGED <<pub, events>>
     \/ /\ Troubled("outage")
        /\ \/ pc' = [pc EXCEPT ![c] = "hollow"] /\ pub' = pub
           \/ pc' = [pc EXCEPT ![c] = "idle"] /\ pub' = [pub EXCEPT ![c] = "null"]
  /\ UNCHANGED <<server, asked, window, copied, quitting, session, key, held, peers, sync,
                 outbox, subs, table, freed, inbox, starts, history>>

\* What is published goes to the one connection, in order.
Publish(c, m) ==
  /\ outbox' = IF pub[c] = "live" THEN [outbox EXCEPT ![c] = Append(@, m)] ELSE outbox
  /\ damage' = IF pub[c] = "live" THEN damage ELSE Mark(damage, c, {"publisher"})

\* A HELLO that nobody gets to hear.
Unheard(c) == IF pub[c] = "live" THEN {} ELSE {"loss"}

\* The connection it opens, when it can, and on which SUBSCRIBE is under way.
connectAndDispatch(c, n, k) ==
  subs' = [subs EXCEPT ![c] = @ \cup {[n |-> n, id |-> k, st |-> "asked"]}]

\* A subscription has a connection, an entry in the table and a bundle.
Subscribe(c, k) ==
  LET n == starts' IN
  \/ /\ connectAndDispatch(c, n, k)
     /\ table' = [table EXCEPT ![c] = @ \cup {n}]
     /\ strain' = Strained(k, Overlap(c, k) \cup Unheard(c))
     /\ UNCHANGED events
  \/ /\ Troubled("outage")
     /\ strain' = Strained(k, {"outage"} \cup Overlap(c, k) \cup Unheard(c))
     /\ UNCHANGED <<subs, table>>

\* UNSUBSCRIBE goes out on every connection of the table, and the bundles are freed at once.
Lost(c) == table[c] \ {s.n : s \in subs[c]}

freeBundle(c) == freed' = [freed EXCEPT ![c] = @ \cup table[c]]

\* Mutant: the table keeps its entries.
UnsubscribeAllKeeping(c) ==
  /\ freeBundle(c)
  /\ damage' = Mark(damage, c, (IF Lost(c) # {} THEN {"subscriber"} ELSE {})
                          \cup (IF table[c] \cap freed[c] # {} THEN {"twice"} ELSE {}))
  /\ table' = table

UnsubscribeAll(c) ==
  /\ freeBundle(c)
  /\ damage' = Mark(damage, c, (IF Lost(c) # {} THEN {"subscriber"} ELSE {})
                          \cup (IF table[c] \cap freed[c] # {} THEN {"twice"} ELSE {}))
  /\ table' = [table EXCEPT ![c] = {}]

\* A blocking call gets its answer, or not; then the connection is in error for good.
Answered(c) == sync[c] = "live" /\ UNCHANGED <<sync, events>>
Unanswered(c) ==
  \/ sync[c] = "broken" /\ UNCHANGED <<sync, events>>
  \/ sync[c] = "live" /\ Troubled("outage") /\ sync' = [sync EXCEPT ![c] = "broken"]

\* A command may be executed although its answer does not come.
Executed(c, k, after) ==
  \/ /\ Answered(c)
     /\ lists' = after
     /\ UNCHANGED strain
  \/ /\ Unanswered(c)
     /\ lists' \in {lists} \cup (IF sync[c] = "live" THEN {after} ELSE {})
     /\ strain' = Strained(k, {"outage"})

SetStringValue(c, k, text) == Executed(c, k, [lists EXCEPT ![k] = text])

\* Mutant: the key stays, without a text.
DeleteKeyNot(c, k) == Executed(c, k, [lists EXCEPT ![k] = NoList])

DeleteKey(c, k) == Executed(c, k, [lists EXCEPT ![k] = NoKey])

-----------------------------------------------------------------------------
\* start.

\* bootWithPeers: says HELLO, subscribes and asks for the list.
Boot(c, k) ==
  /\ starts < MaxStarts /\ starts' = starts + 1
  /\ session' = [session EXCEPT ![c] = k] /\ key' = [key EXCEPT ![c] = k]
  /\ Publish(c, k)
  /\ Subscribe(c, k)
  /\ pc' = [pc EXCEPT ![c] = "boot_get"]
  /\ UNCHANGED <<server, window, copied, quitting, held, peers, sync, pub, freed, inbox,
                 past>>

Start(c) ==
  /\ pc[c] = "idle" /\ asked[c]
  /\ Boot(c, setting[c])
  /\ UNCHANGED <<setting, asked>>

\* The first start shows a modal panel before: the user gives a session id ...
UseSessionKey(c, k) ==
  /\ pc[c] = "idle" /\ ~asked[c]
  /\ setting' = [setting EXCEPT ![c] = k] /\ asked' = [asked EXCEPT ![c] = TRUE]
  /\ Boot(c, k)

\* ... or cancels the panel, not the start.
Cancel(c) ==
  /\ pc[c] = "idle" /\ ~asked[c]
  /\ asked' = [asked EXCEPT ![c] = TRUE] /\ UNCHANGED setting
  /\ Boot(c, setting[c])

\* A handler may be adding to the set of peers at the same time: its addition gets lost.
Together(c) ==
  \/ UNCHANGED inbox
  \/ \E m \in inbox[c] : inbox' = [inbox EXCEPT ![c] = @ \ {m}]

BootGet(c) ==
  /\ pc[c] = "boot_get"
  /\ pc' = [pc EXCEPT ![c] = "boot_put"]
  /\ \/ /\ Answered(c) /\ lists[key[c]] # NoKey
        /\ peers' = Mark(peers, c, BagToSet(lists[key[c]]))
        /\ held' = [held EXCEPT ![c] = BagAdd(lists[key[c]], c)]
        /\ Together(c)
        /\ UNCHANGED strain
     \/ /\ Answered(c) /\ lists[key[c]] = NoKey
        /\ held' = [held EXCEPT ![c] = SetToBag({c})]
        /\ UNCHANGED <<peers, inbox, strain>>
     \/ /\ Unanswered(c)
        /\ held' = [held EXCEPT ![c] = SetToBag({c})]
        /\ strain' = Strained(key[c], {"outage"})
        /\ UNCHANGED <<peers, inbox>>
  /\ UNCHANGED <<server, settings, quitting, session, key, pub, outbox, subs, table, freed,
                 starts, past, damage>>

BootPut(c) ==
  /\ pc[c] = "boot_put"
  /\ SetStringValue(c, key[c], held[c])
  /\ pc' = [pc EXCEPT ![c] = "running"]
  /\ key' = [key EXCEPT ![c] = NoId] /\ held' = [held EXCEPT ![c] = NoList]
  /\ UNCHANGED <<settings, quitting, session, peers, pub, outbox, subs, table, freed, inbox,
                 starts, past, damage>>

-----------------------------------------------------------------------------
\* stop.

\* stop acts on the session id that the defaults say now.
Stopping(c, k) ==
  /\ UnsubscribeAll(c)
  /\ key' = [key EXCEPT ![c] = k]
  /\ pc' = [pc EXCEPT ![c] = "stop_get"]
  /\ strain' = [j \in Id |-> strain[j]
                  \cup (IF j = k THEN Overlap(c, k) ELSE {})
                  \cup (IF j \in {k, session[c]} /\ k # session[c] THEN {"moved"} ELSE {})]
  /\ past' = Mark(past, c, IF inbox[c] # {} THEN {"crossed"} ELSE {})
  /\ UNCHANGED <<server, settings, session, held, peers, sync, pub, outbox, subs, inbox,
                 bounds>>

Stop(c) ==
  /\ pc[c] = "running"
  /\ Stopping(c, setting[c])
  /\ UNCHANGED quitting

\* The end of stop, and, when the application terminates, of the process.
Stopped(c, remain, event) ==
  /\ NoSession(c)
  /\ IF quitting[c]
     THEN Closed(c)
     ELSE /\ pc' = [pc EXCEPT ![c] = "idle"]
          /\ peers' = [peers EXCEPT ![c] = remain]
          /\ past' = Mark(past, c, event)
          /\ UNCHANGED <<window, copied, pub, subs, inbox, table, freed, damage>>
  /\ UNCHANGED <<setting, asked, quitting, outbox, starts>>

StopGet(c) ==
  /\ pc[c] = "stop_get"
  /\ \/ /\ Answered(c) /\ lists[key[c]] # NoKey
        /\ held' = [held EXCEPT ![c] = lists[key[c]]]
        /\ pc' = [pc EXCEPT ![c] = "stop_put"]
        /\ UNCHANGED <<settings, quitting, session, key, peers, pub, outbox, subs, table, freed,
                       inbox, starts, history>>
     \/ /\ Answered(c) /\ lists[key[c]] = NoKey
        /\ Stopped(c, peers[c], {"kept"})
        /\ UNCHANGED strain
     \/ /\ Unanswered(c)
        /\ Stopped(c, peers[c], {"kept"})
        /\ strain' = Strained(key[c], {"outage"})
  /\ UNCHANGED server

\* What is left of a list without c; a list of nobody is the empty text.
Without(list, c) ==
  LET rest == BagRemoveAll(list, c) IN IF rest = NoList THEN SetToBag({Blank}) ELSE rest

\* Mutant: one more is taken for nobody.
OnlyTwo(list) == BagCardinality(list) <= 2

\* The only participant is taken to be the client itself.
OnlyParticipant(list) == \E p \in Parts : list = SetToBag({p})

Leave(c, k) ==
  IF OnlyParticipant(held[c]) THEN DeleteKey(c, k) ELSE SetStringValue(c, k, Without(held[c], c))

\* Mutant: the peers stay.
StopPutKeeping(c) ==
  /\ pc[c] = "stop_put"
  /\ Leave(c, key[c])
  /\ Stopped(c, peers[c], {})

StopPut(c) ==
  /\ pc[c] = "stop_put"
  /\ Leave(c, key[c])
  /\ Stopped(c, {}, {})

-----------------------------------------------------------------------------
\* The end of a process: stop if the menu offers it.  (Nothing is lost by leaving out the
\* quit of a process at rest, which may as well rest for ever.)
Quit(c) ==
  /\ pc[c] = "running"
  /\ quitting' = [quitting EXCEPT ![c] = TRUE]
  /\ Stopping(c, setting[c])

Crash(c) ==
  /\ pc[c] \in Alive
  /\ Troubled("crash")
  /\ Gone(c)

\* Memory used after it was freed: the process goes on, or ends sooner or later.
Fall(c) ==
  /\ pc[c] \in Alive
  /\ damage[c] # {}
  /\ Gone(c)
  /\ UNCHANGED events

-----------------------------------------------------------------------------
\* The timer runs from the end of start; a tick may be under way when stop cancels it.
Ticking(c) == pc[c] \in {"running", "stop_get", "stop_put"}

\* The monitor: a text is read and published.  (What holds no text ends the process, as
\* Crash does; texts are for nobody, as nothing subscribes to the channels of peers.)
PublishText(c) ==
  damage' = IF pub[c] = "live" THEN damage ELSE Mark(damage, c, {"publisher"})

OnTimer(c) ==
  /\ Ticking(c)
  /\ PublishText(c)
  /\ UNCHANGED <<server, settings, thread, peers, links, bounds, strain, past>>

\* The preferences window copies the session id when it is first shown ...
ShowPreferences(c) ==
  /\ pc[c] \in {"idle", "running"} /\ window[c] # "open"
  /\ Happens
  /\ window' = [window EXCEPT ![c] = "open"]
  /\ copied' = IF window[c] = "none" THEN [copied EXCEPT ![c] = setting[c]] ELSE copied
  /\ UNCHANGED <<server, setting, asked, thread, peers, links, starts, history>>

\* ... may replace its copy by a new one ...
GenerateSessionID(c) ==
  /\ pc[c] \in {"idle", "running"} /\ window[c] = "open"
  /\ \E k \in Unused : copied' = [copied EXCEPT ![c] = k]
  /\ UNCHANGED <<server, setting, asked, window, thread, peers, links, bounds, history>>

\* ... and writes it back whenever it closes.
WindowWillClose(c) ==
  /\ pc[c] \in {"idle", "running"} /\ window[c] = "open"
  /\ window' = [window EXCEPT ![c] = "closed"]
  /\ setting' = [setting EXCEPT ![c] = copied[c]]
  /\ UNCHANGED <<server, asked, copied, thread, peers, links, bounds, history>>

-----------------------------------------------------------------------------
\* Handlers and the server.

\* handlePeer adds whoever says HELLO; its bundle may have been freed.
HandlePeer(c) ==
  /\ pc[c] \in Alive
  /\ \E m \in inbox[c] :
       /\ inbox' = [inbox EXCEPT ![c] = @ \ {m}]
       /\ peers' = Mark(peers, c, {m.from})
       /\ damage' = IF m.n \in freed[c] THEN Mark(damage, c, {"bundle"}) ELSE damage
  /\ UNCHANGED <<server, settings, thread, sync, pub, outbox, subs, table, freed, bounds,
                 strain, past>>

\* PUBLISH reaches every subscription in force.
ServerPublish(c) ==
  /\ outbox[c] # <<>>
  /\ outbox' = [outbox EXCEPT ![c] = Tail(@)]
  /\ LET k == Head(outbox[c])
         To(d) == {s \in subs[d] : s.st = "live" /\ s.id = k} IN
     /\ inbox' = [d \in Client |-> inbox[d] \cup {[n |-> s.n, from |-> c] : s \in To(d)}]
     /\ past' = [d \in Client |->
                   IF \E s \in To(d) : s.n \in freed[d] THEN past[d] \cup {"crossed"} ELSE past[d]]
     /\ strain' = IF \E d \in Client : \E s \in subs[d] : s.st = "asked" /\ s.id = k
                  THEN Strained(k, {"haste"}) ELSE strain
  /\ UNCHANGED <<server, settings, thread, peers, sync, pub, subs, table, freed, bounds,
                 damage>>

ServerSubscribe(c) ==
  /\ \E s \in subs[c] :
       /\ s.st = "asked"
       /\ subs' = [subs EXCEPT ![c] = (@ \ {s}) \cup {[s EXCEPT !.st = "live"]}]
  /\ UNCHANGED <<server, settings, thread, peers, sync, pub, outbox, table, freed, inbox,
                 bounds, history>>

\* The reply to UNSUBSCRIBE is told by its lower case, and closes the connection.
ServerUnsubscribe(c) ==
  /\ \E s \in subs[c] :
       /\ s.st = "live" /\ s.n \in freed[c]
       /\ subs' = [subs EXCEPT ![c] = @ \ {s}]
  /\ UNCHANGED <<server, settings, thread, peers, sync, pub, outbox, table, freed, inbox,
                 bounds, history>>

\* A connection breaks: its context is freed, and the pointer to it stays.
Lose(c) ==
  /\ pc[c] \in Alive
  /\ Troubled("loss")
  /\ past' = Mark(past, c, {"loss"})
  /\ \/ /\ pub[c] = "live"
        /\ pub' = [pub EXCEPT ![c] = "freed"] /\ outbox' = [outbox EXCEPT ![c] = <<>>]
        /\ strain' = [k \in Id |-> IF k \in ToSet(outbox[c]) THEN strain[k] \cup {"loss"} ELSE strain[k]]
        /\ subs' = subs
     \/ \E s \in subs[c] :
        /\ subs' = [subs EXCEPT ![c] = @ \ {s}]
        /\ strain' = Strained(s.id, {"loss"})
        /\ UNCHANGED <<pub, outbox>>
  /\ UNCHANGED <<server, settings, thread, peers, sync, table, freed, inbox, starts,
                 damage>>

-----------------------------------------------------------------------------
User(c) ==
  \/ Launch(c) \/ Start(c) \/ Cancel(c) \/ \E k \in Id : UseSessionKey(c, k)
  \/ Stop(c) \/ Quit(c)
  \/ ShowPreferences(c) \/ GenerateSessionID(c) \/ WindowWillClose(c)

Thread(c) == BootGet(c) \/ BootPut(c) \/ StopGet(c) \/ StopPut(c) \/ OnTimer(c) \/ HandlePeer(c)

World(c) ==
  \/ ServerPublish(c) \/ ServerSubscribe(c) \/ ServerUnsubscribe(c)
  \/ Lose(c) \/ Crash(c) \/ Fall(c)

Next == \E c \in Client : User(c) \/ Thread(c) \/ World(c)

Spec == Init /\ [][Next]_vars

-----------------------------------------------------------------------------
\* "Add self to list, for the benefit of future participants" (TSPlasterController.m:196)
\* and "removing yourself from the list of participants" (:228): who runs is on the list
\* of its session, who has stopped or quit on none.  Not so when two clients start or
\* stop together, when a call gets no answer, when a process just ends, and when the
\* session id in the defaults has changed between the start and the stop.
ListsAreRight ==
  \A c \in Client, k \in Id :
    LET listed == lists[k] # NoKey /\ BagIn(c, lists[k]) IN
    \/ strain[k] \cap {"overlap", "outage", "moved", "ended"} # {}
    \/ /\ pc[c] = "running" /\ session[c] = k => listed
       /\ pc[c] \in {"idle", "over"} => ~listed

\* "It enables the plaster client to be aware of future additions to the plaster
\* session" (TSPlasterController.m:29).  Running clients of a session know each other
\* once the HELLOs are handled, unless two clients were in an operation together, the
\* server was slower to subscribe one than to pass on the other's HELLO, a call failed or
\* a connection broke; and who has stopped knows nobody, "also empty the list of
\* peers" (:230), unless it found no list to leave or handled a HELLO after its stop.
\* Nor if one of them stopped while the defaults said another session id than it had
\* started with: it may have deleted the list of a session it was not in.
PeersAreRight ==
  /\ \A c, d \in Client :
       \/ c = d \/ session[c] # session[d] \/ ~({pc[c], pc[d]} \subseteq {"running"})
       \/ strain[session[c]] \cap {"overlap", "haste", "outage", "loss", "moved"} # {}
       \/ inbox[c] # {} \/ Contains(outbox[d], session[c])
       \/ d \in peers[c]
  /\ \A c \in Client :
       pc[c] = "idle" /\ peers[c] # {} => past[c] \cap {"kept", "crossed"} # {}

\* A process uses nothing after it was freed, unless a connection broke (or was never
\* there) or a HELLO crossed its stop.  And no bundle is freed twice.
DamageHasACause ==
  \A c \in Client :
    /\ damage[c] \cap {"publisher", "subscriber"} # {} => "loss" \in past[c] \/ pub[c] = "null"
    /\ "bundle" \in damage[c] => "crossed" \in past[c]
    /\ "twice" \notin damage[c]
=============================================================================
