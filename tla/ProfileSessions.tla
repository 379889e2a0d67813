--------------------------- MODULE ProfileSessions ---------------------------
(***************************************************************************)
(* One device with the iOS client: several sessions at a time, each with a *)
(* profile and a TSLPlasterController of its own, all over one provider    *)
(* and so over one table of subscriptions, among other devices that join   *)
(* and leave the same sessions.                                            *)
(*                                                                         *)
(*   - Taps and the expiry handlers of background tasks run on the main    *)
(*     thread, which blocks in the round trips of a start or a stop: op    *)
(*     says where it waits.  The broadcast handler runs beside it.         *)
(*   - A controller has a client ID of its own.  Every controller of the   *)
(*     device has the name of the device, and ignores a HELLO or a GOODBYE *)
(*     under that name.                                                    *)
(*   - A controller that left the table of profiles lives on: -profiles    *)
(*     returns a copy that nobody releases, so that -dealloc, which would  *)
(*     stop it, does not run.                                              *)
(*   - That a subscription takes effect, and what a connection may do      *)
(*     instead, is RedisConnection; the lost update of two devices that    *)
(*     change a list together is PlasterSession.                           *)
(***************************************************************************)
EXTENDS Naturals, FiniteSets

CONSTANTS
  Session,     \* the session keys in use
  SessionsKey, \* the literal "sessions", which may be one of them
  Other,       \* the other devices
  Visits,      \* {<<d, s>> : device d knows the key s}
  NoKey,       \* the key of a list does not exist (nil)
  Broadcast,   \* the broadcast channel of a controller's session
  Allowed,     \* what the user and the system may do, see Conduct
  MaxCopy,     \* bound: controllers made for a session
  MaxStart,    \* bound: starts
  MaxStrain    \* bound: what happens beyond starts and stops

(***************************************************************************)
(* Beyond starts and stops by the user:                                    *)
(*   edit    save a profile anew, or delete it, while its session runs     *)
(*   expire  end the background time that a start asked for                *)
(*   end     end the application (applicationWillTerminate: does nothing)  *)
(*   outage  fail to reach the server                                      *)
(***************************************************************************)
Conduct == {"edit", "expire", "end", "outage"}

Controller == [session : Session, copy : 1..MaxCopy]

\* One occurrence of an identifier in a list; 0 stands for any start of another device.
Entry == [who : Controller \cup Other, start : 0..MaxStart]

ASSUME ConductAssumption == Allowed \subseteq Conduct

ASSUME BoundAssumption == MaxCopy \in Nat \ {0} /\ MaxStart \in Nat /\ MaxStrain \in Nat

ASSUME VisitsAssumption == Visits \subseteq Other \X Session

ASSUME NameAssumption ==
  /\ Other \cap Controller = {}
  /\ Broadcast \notin Controller \cup Other
  /\ \A l \in SUBSET Entry : l # NoKey

VARIABLES
  up,       \* the application runs
  stored,   \* the session keys with a profile in the user defaults
  saved,    \* a current session key is in the user defaults
  shown,    \* shown[s], the controller in the table of profiles; 0: no profile
  made,     \* made[s], the controllers made for s
  running,  \* the controllers whose running flag is set
  peers,    \* peers[c], _plasterPeers
  subs,     \* the provider's subscriptions: whose handler, which channel
  inbox,    \* broadcasts delivered and not handled yet
  tasks,    \* background registrations not ended: of which start
  starts,   \* how often a session was started
  op,       \* where the main thread waits
  held,     \* the list that it read and has not replaced yet
  list,     \* list[s], the value under the peers key on the server
  inside,   \* the other devices in a session
  deaf,     \* the running controllers whose subscriptions another stop ended
  strain    \* what has happened to which session

appVars == <<up, stored, saved, shown, made>>
netVars == <<list, inside, inbox>>
vars == <<appVars, running, peers, subs, tasks, starts, op, held, netVars, deaf, strain>>

Strain == {"outage", "late", "ended", "replaced"}

Stage == {"bootGet", "bootPut", "stopGet", "stopPut"}

Rest == [at |-> "rest"]
Message == [to : Controller, kind : {"HELLO", "GOODBYE"}, from : Other]

-----------------------------------------------------------------------------

AtRest == up /\ op = Rest
In(stage, c) == op = [at |-> stage, who |-> c]
GoTo(stage, c) == op' = [at |-> stage, who |-> c]
Engaged(c) == \E stage \in Stage : In(stage, c)
Cleans(stage) == op = [at |-> stage]

Shown(c) == shown[c.session] = c.copy
Stands(who, l) == l # NoKey /\ \E e \in l : e.who = who
Mine(e) == e.who \in Controller

\* A list has one component: one entry, or none for the empty text.
OneComponent(l) == \E e \in Entry : l \subseteq {e}

\* -removeObject: removes every equal component.
Without(who, l) == {e \in l : e.who # who}

\* What stop writes: DEL for a single component, whose it is does not matter.
StopWrites(who, l) == IF OneComponent(l) THEN NoKey ELSE Without(who, l)

Marks(set) == strain' = strain \cup set /\ Cardinality(strain') <= MaxStrain
Mark(s, what) == Marks({<<s, what>>})
MarkIf(condition, s, what) == IF condition THEN Mark(s, what) ELSE UNCHANGED strain

-----------------------------------------------------------------------------

(***************************************************************************)
(* The provider.  Every call makes a connection of its own; one that fails *)
(* has no effect.                                                          *)
(***************************************************************************)

\* Whether a blocking command gets a reply; an error is one.
processReply(ok) == ok \/ "outage" \in Allowed

\* What GET may answer: nil for a missing key and for a failure alike.
stringValueForKey(s) == {list[s]} \cup {nil \in {NoKey} : processReply(FALSE)}

setStringValue(s, value, ok) ==
  /\ processReply(ok)
  /\ list' = IF ok THEN [list EXCEPT ![s] = value] ELSE list

deleteKey(s, ok) ==
  /\ processReply(ok)
  /\ list' = IF ok THEN [list EXCEPT ![s] = NoKey] ELSE list

\* Whether a connection for a subscription, or to publish on, is made.
connectAndDispatch(ok) == ok \/ "outage" \in Allowed

\* Whether a message goes out; what the other devices make of it is left to them.
publishObject(ok) == connectAndDispatch(ok)

\* The connection is registered; its handler is the controller's.
subscribeToChannel(c, channels) == subs' = subs \cup ({c} \X channels)

\* Every connection registered is given up, whose handler it has does not matter.
unsubscribeAll == subs' = {}

-----------------------------------------------------------------------------

\* The main thread is not between the read and the write of this list.
Undisturbed(s) ==
  /\ \A c \in Controller : In("bootPut", c) \/ In("stopPut", c) => c.session # s
  /\ Cleans("cleanPut") => s # SessionsKey

Init ==
  /\ up = FALSE /\ stored = {} /\ saved = FALSE
  /\ shown = [s \in Session |-> 0] /\ made = [s \in Session |-> 0]
  /\ running = {} /\ peers = [c \in Controller |-> {}]
  /\ subs = {} /\ inbox = {} /\ tasks = {} /\ starts = 0
  /\ op = Rest /\ held = NoKey
  /\ list = [s \in Session |-> NoKey] /\ inside = {}
  /\ deaf = {} /\ strain = {}

-----------------------------------------------------------------------------

(***************************************************************************)
(* The application and its table of profiles.                              *)
(***************************************************************************)

\* The process ends and takes all but the user defaults with it.
Ends ==
  /\ up' = FALSE /\ shown' = [s \in Session |-> 0]
  /\ running' = {} /\ peers' = [c \in Controller |-> {}]
  /\ subs' = {} /\ inbox' = {} /\ tasks' = {} /\ deaf' = {}
  /\ op' = Rest /\ held' = NoKey
  /\ Marks({s \in Session : list[s] # NoKey /\ \E e \in list[s] : Mine(e)} \X {"ended"})
  /\ UNCHANGED <<stored, saved, made, starts, list, inside>>

Die == "end" \in Allowed /\ up /\ Ends

\* A launch makes a controller for each stored profile and, if a session was
\* ever started or stopped, cleans up.
Launch ==
  /\ ~up
  /\ \A s \in stored : made[s] < MaxCopy
  /\ up' = TRUE
  /\ made' = [s \in Session |-> IF s \in stored THEN made[s] + 1 ELSE made[s]]
  /\ shown' = [s \in Session |-> IF s \in stored THEN made[s] + 1 ELSE 0]
  /\ op' = IF saved THEN [at |-> "cleanGet"] ELSE Rest
  /\ UNCHANGED <<stored, saved, running, peers, subs, tasks, starts, held, netVars, deaf, strain>>

\* The clean-up asks for the list of the session called "sessions".
CleanGet ==
  /\ Cleans("cleanGet")
  /\ \E found \in IF SessionsKey \in Session THEN stringValueForKey(SessionsKey) ELSE {NoKey} :
       /\ op' = IF found = NoKey THEN Rest ELSE [at |-> "cleanPut"]
       /\ held' = IF found = NoKey THEN held ELSE found
  /\ UNCHANGED <<appVars, running, peers, subs, tasks, starts, netVars, deaf, strain>>

\* It removes the components with the name of the device, none of which is
\* left of an earlier life then.
CleanPut ==
  /\ Cleans("cleanPut")
  /\ LET rest == {e \in held : ~Mine(e)}
     IN  \E ok \in BOOLEAN :
           /\ \/ rest = {} /\ held # {} /\ deleteKey(SessionsKey, ok)
              \/ ~(rest = {} /\ held # {}) /\ setStringValue(SessionsKey, rest, ok)
           /\ strain' = IF ok THEN strain \ {<<SessionsKey, "ended">>} ELSE strain
  /\ op' = Rest /\ held' = NoKey
  /\ UNCHANGED <<appVars, running, peers, subs, tasks, starts, inside, inbox, deaf>>

\* A profile is saved: a new one, or an edited one, whose controller is replaced.
addProfile(s) ==
  /\ AtRest /\ made[s] < MaxCopy
  /\ LET runs == [session |-> s, copy |-> shown[s]] \in running
     IN  (runs => "edit" \in Allowed) /\ MarkIf(runs, s, "replaced")
  /\ stored' = stored \cup {s}
  /\ made' = [made EXCEPT ![s] = @ + 1]
  /\ shown' = [shown EXCEPT ![s] = made[s] + 1]
  /\ UNCHANGED <<up, saved, running, peers, subs, tasks, starts, op, held, netVars, deaf>>

removeProfile(s) ==
  /\ AtRest /\ s \in stored
  /\ LET runs == [session |-> s, copy |-> shown[s]] \in running
     IN  (runs => "edit" \in Allowed) /\ MarkIf(runs, s, "replaced")
  /\ stored' = stored \ {s}
  /\ shown' = [shown EXCEPT ![s] = 0]
  /\ UNCHANGED <<up, saved, made, running, peers, subs, tasks, starts, op, held, netVars, deaf>>

-----------------------------------------------------------------------------

(***************************************************************************)
(* A start and a stop, from one wait for the server to the next.           *)
(***************************************************************************)

\* stop, to its read of the list: GOODBYE, and unsubscribeAll, which empties
\* the table that all controllers share.
Quieten(c) ==
  /\ unsubscribeAll
  /\ deaf' = running \ {c}
  /\ GoTo("stopGet", c)

\* A tap on a profile that does not run: the key is saved, background time
\* asked for, HELLO published, the broadcast channel subscribed to.  When a
\* connection cannot be made the controller stops.
Start(c) ==
  /\ AtRest /\ Shown(c) /\ c \notin running /\ starts < MaxStart
  /\ saved' = TRUE
  /\ starts' = starts + 1
  /\ tasks' = tasks \cup {[who |-> c, start |-> starts + 1]}
  /\ \/ /\ publishObject(TRUE) /\ subscribeToChannel(c, {Broadcast})
        /\ GoTo("bootGet", c)
        /\ UNCHANGED <<deaf, strain>>
     \/ (publishObject(FALSE) \/ connectAndDispatch(FALSE)) /\ Quieten(c) /\ Mark(c.session, "outage")
  /\ UNCHANGED <<up, stored, shown, made, running, peers, held, netVars>>

\* The system grants no background time: the start reports success.
StartRefused(c) ==
  /\ AtRest /\ Shown(c) /\ c \notin running
  /\ saved' = TRUE
  /\ UNCHANGED <<up, stored, shown, made, running, peers, subs, tasks, starts, op, held,
                 netVars, deaf, strain>>

\* Mutant: without a list it takes nobody for a peer.
BootGetNil(c) ==
  /\ In("bootGet", c)
  /\ held' = list[c.session]
  /\ peers' = [peers EXCEPT ![c] =
       @ \cup (IF held' = NoKey THEN {NoKey} ELSE {e.who : e \in held'})]
  /\ GoTo("bootPut", c)
  /\ UNCHANGED <<appVars, running, subs, tasks, starts, netVars, deaf, strain>>

\* bootWithPeers reads the list and takes everyone on it for a peer.  The one
\* component of an empty text is none: the insertion of nil ends the process.
BootGet(c) ==
  /\ In("bootGet", c)
  /\ \E found \in stringValueForKey(c.session) :
       \/ /\ found # {}
          /\ MarkIf(found # list[c.session], c.session, "outage")
          /\ held' = found
          /\ peers' = IF found = NoKey THEN peers
                      ELSE [peers EXCEPT ![c] = @ \cup {e.who : e \in found}]
          /\ GoTo("bootPut", c)
          /\ UNCHANGED <<appVars, running, subs, tasks, starts, netVars, deaf>>
       \/ found = {} /\ Ends

\* It appends itself to what it read and subscribes to its peers: it runs.  A
\* failure of either makes it stop.
BootPut(c) ==
  /\ In("bootPut", c)
  /\ \E ok \in BOOLEAN :
       /\ setStringValue(c.session, (IF held = NoKey THEN {} ELSE held)
                                      \cup {[who |-> c, start |-> starts]}, ok)
       /\ \/ /\ ok /\ subscribeToChannel(c, peers[c])
             /\ running' = running \cup {c}
             /\ op' = Rest
             /\ UNCHANGED <<deaf, strain>>
          \/ /\ ok => connectAndDispatch(FALSE) /\ peers[c] # {}
             /\ Quieten(c) /\ Mark(c.session, "outage")
             /\ UNCHANGED running
  /\ held' = NoKey
  /\ UNCHANGED <<appVars, peers, tasks, starts, inside, inbox>>

\* A tap on a profile that runs.  The background registration of its start is
\* not ended: controlPlaster wrote its identifier to a copy.
Stop(c) ==
  /\ AtRest /\ Shown(c) /\ c \in running
  /\ saved' = TRUE
  /\ Quieten(c)
  /\ UNCHANGED <<up, stored, shown, made, running, peers, tasks, starts, held, netVars, strain>>

\* The background time of a start is over: its controller stops, whether it
\* runs or has been stopped before.
Expire(t) ==
  /\ "expire" \in Allowed
  /\ AtRest /\ t \in tasks
  /\ tasks' = tasks \ {t}
  /\ Quieten(t.who)
  /\ MarkIf(t.who \notin running, t.who.session, "late")
  /\ UNCHANGED <<appVars, running, peers, starts, held, netVars>>

\* stop reads the list; without one it returns and keeps its peers.
StopGet(c) ==
  /\ In("stopGet", c)
  /\ \E found \in stringValueForKey(c.session) :
       \/ /\ found # NoKey
          /\ held' = found
          /\ GoTo("stopPut", c)
          /\ UNCHANGED <<running, strain>>
       \/ /\ found = NoKey
          /\ MarkIf(list[c.session] # NoKey, c.session, "outage")
          /\ running' = running \ {c}
          /\ op' = Rest
          /\ UNCHANGED held
  /\ UNCHANGED <<appVars, peers, subs, tasks, starts, netVars, deaf>>

\* Mutant: a list of two components counts as one.
StopPutOfTwo(c) ==
  /\ In("stopPut", c)
  /\ list' = [list EXCEPT ![c.session] =
       IF \E d, e \in held : held = {d, e} THEN NoKey ELSE Without(c, held)]
  /\ peers' = [peers EXCEPT ![c] = {}]
  /\ running' = running \ {c}
  /\ op' = Rest /\ held' = NoKey
  /\ UNCHANGED <<appVars, subs, tasks, starts, inside, inbox, deaf, strain>>

\* Mutant: the list is written back as it was read.
StopPutSame(c) ==
  /\ In("stopPut", c)
  /\ list' = [list EXCEPT ![c.session] = IF OneComponent(held) THEN NoKey ELSE held]
  /\ peers' = [peers EXCEPT ![c] = {}]
  /\ running' = running \ {c}
  /\ op' = Rest /\ held' = NoKey
  /\ UNCHANGED <<appVars, subs, tasks, starts, inside, inbox, deaf, strain>>

\* It removes itself from the list; a failure goes unnoticed in a release build.
StopPut(c) ==
  /\ In("stopPut", c)
  /\ \E ok \in BOOLEAN :
       /\ \/ OneComponent(held) /\ deleteKey(c.session, ok)
          \/ ~OneComponent(held) /\ setStringValue(c.session, Without(c, held), ok)
       /\ MarkIf(~ok, c.session, "outage")
  /\ peers' = [peers EXCEPT ![c] = {}]
  /\ running' = running \ {c}
  /\ op' = Rest /\ held' = NoKey
  /\ UNCHANGED <<appVars, subs, tasks, starts, inside, inbox, deaf>>

-----------------------------------------------------------------------------

(***************************************************************************)
(* The others, and what the broadcast handler makes of them.               *)
(***************************************************************************)

Announced(d, s, kind) ==
  {[to |-> c, kind |-> kind, from |-> d] :
     c \in {k \in Controller : k.session = s /\ <<k, Broadcast>> \in subs}}

\* Another device starts: it takes the list, appends itself and says HELLO.
Join(d, s) ==
  /\ <<d, s>> \notin inside /\ list[s] # {} /\ Undisturbed(s)
  /\ inside' = inside \cup {<<d, s>>}
  /\ list' = [list EXCEPT ![s] = (IF @ = NoKey THEN {} ELSE @) \cup {[who |-> d, start |-> 0]}]
  /\ inbox' = inbox \cup Announced(d, s, "HELLO")
  /\ UNCHANGED <<appVars, running, peers, subs, tasks, starts, op, held, deaf, strain>>

\* Another device stops.
Leave(d, s) ==
  /\ <<d, s>> \in inside /\ Undisturbed(s)
  /\ inside' = inside \ {<<d, s>>}
  /\ list' = [list EXCEPT ![s] = IF @ = NoKey THEN NoKey ELSE StopWrites(d, @)]
  /\ inbox' = inbox \cup Announced(d, s, "GOODBYE")
  /\ UNCHANGED <<appVars, running, peers, subs, tasks, starts, op, held, deaf, strain>>

\* Mutant: the newcomer is listed only.
HandleHelloSilently(m) ==
  /\ m \in inbox /\ m.kind = "HELLO"
  /\ inbox' = inbox \ {m}
  /\ peers' = [peers EXCEPT ![m.to] = @ \cup {m.from}]
  /\ UNCHANGED <<appVars, running, subs, tasks, starts, op, held, list, inside, deaf, strain>>

\* The newcomer is subscribed to and listed, whether the controller runs or not.
HandleHello(m) ==
  /\ m \in inbox /\ m.kind = "HELLO"
  /\ inbox' = inbox \ {m}
  /\ subs' = subs \cup {<<m.to, m.from>>}
  /\ peers' = [peers EXCEPT ![m.to] = @ \cup {m.from}]
  /\ UNCHANGED <<appVars, running, tasks, starts, op, held, list, inside, deaf, strain>>

HandleGoodbye(m) ==
  /\ m \in inbox /\ m.kind = "GOODBYE"
  /\ inbox' = inbox \ {m}
  /\ peers' = [peers EXCEPT ![m.to] = @ \ {m.from}]
  /\ UNCHANGED <<appVars, running, subs, tasks, starts, op, held, list, inside, deaf, strain>>

Next ==
  \/ Launch \/ CleanGet \/ CleanPut \/ Die
  \/ \E s \in Session : addProfile(s) \/ removeProfile(s)
  \/ \E c \in Controller :
       Start(c) \/ StartRefused(c) \/ BootGet(c) \/ BootPut(c) \/ Stop(c) \/ StopGet(c) \/ StopPut(c)
  \/ \E t \in tasks : Expire(t)
  \/ \E d \in Other, s \in Session : <<d, s>> \in Visits /\ (Join(d, s) \/ Leave(d, s))
  \/ \E m \in inbox : HandleHello(m) \/ HandleGoodbye(m)

Spec == Init /\ [][Next]_vars

-----------------------------------------------------------------------------

TypeOK ==
  /\ up \in BOOLEAN /\ saved \in BOOLEAN
  /\ stored \subseteq Session
  /\ shown \in [Session -> 0..MaxCopy]
  /\ made \in [Session -> 0..MaxCopy]
  /\ running \subseteq Controller
  /\ peers \in [Controller -> SUBSET (Controller \cup Other)]
  /\ subs \subseteq Controller \X (Controller \cup Other \cup {Broadcast})
  /\ inbox \subseteq Message
  /\ tasks \subseteq [who : Controller, start : 0..MaxStart]
  /\ starts \in 0..MaxStart
  /\ op \in [at : Stage, who : Controller] \cup [at : {"rest", "cleanGet", "cleanPut"}]
  /\ held \in (SUBSET Entry) \cup {NoKey}
  /\ list \in [Session -> (SUBSET Entry) \cup {NoKey}]
  /\ inside \subseteq Visits
  /\ deaf \subseteq Controller
  /\ strain \subseteq Session \X Strain

\* What has happened to a session, or to it and not only to it.
Suffered(s, what) == \E w \in what : <<s, w>> \in strain

\* The comment in stop: "If this is the only participant, then remove the
\* session key entirely".  The stops of this device leave the others on the
\* list, unless the server was out of reach or a stop came twice, the second
\* time from the background task that the first one did not end.
OthersStayListed ==
  \A d \in Other, s \in Session : <<d, s>> \in inside =>
    Stands(d, list[s]) \/ Suffered(s, {"late", "outage"})

\* A running controller listens to its session's broadcasts and to every peer
\* it shows, unless the stop of another one has emptied the table they share.
RunningHears ==
  \A c \in running :
    c \in deaf \/ Engaged(c) \/ (/\ <<c, Broadcast>> \in subs
                              /\ \A p \in peers[c] : <<c, p>> \in subs)

\* The device stands on a list once for each controller that runs, and a
\* running one has no other self for a peer, whose copies would come back to
\* the device: unless a process ended and left an entry, the server was out of
\* reach, or a profile was replaced under its running controller.
NoOtherSelf ==
  /\ \A s \in Session : list[s] # NoKey =>
       \A e \in list[s] : Mine(e) => e.who \in running \/ Suffered(s, {"ended", "outage"})
  /\ \A c \in running :
       peers[c] \cap Controller # {} => Suffered(c.session, {"ended", "outage", "replaced"})

=============================================================================
