------------------------ MODULE PlasterSessionProofs ------------------------
(***************************************************************************)
(* Proofs about PlasterSession, for any number of devices and any bounds.  *)
(***************************************************************************)
EXTENDS PlasterSession, TLAPS

USE ConductAssumption, BoundAssumption
USE DEF deleteKey, setStringValue

-----------------------------------------------------------------------------

(***************************************************************************)
(* Type correctness.                                                       *)
(***************************************************************************)

\* A client that has been launched and has started stands behind an entry.
LEMMA MeIsEntry ==
  ASSUME TypeOK, NEW c \in Client, launch[c] # 0, stay[c] # 0
  PROVE  Me(c) \in Entry
  BY DEF TypeOK, Me, Entry

\* Strengthening of the type invariant: a process has a launch, a client inside
\* or past a start has its number, and one about to write back has read a list.
Begun ==
  \A c \in Client :
    /\ pc[c] # "down" => launch[c] # 0
    /\ pc[c] \in {"bootGet", "bootPut", "bootSub", "running", "stopGet", "stopPut"}
         => stay[c] # 0
    /\ pc[c] \in {"cleanPut", "stopPut"} => list[c] \in SUBSET Entry

\* A connection stays one when it is unsubscribed.
LEMMA UnsubscribedIsConn ==
  ASSUME NEW k \in Conn
  PROVE  Unsubscribed(k) \in Conn
  BY DEF Conn, ConnState, Unsubscribed

LEMMA TypeInvariant == Spec => [](TypeOK /\ Begun)
  <1>1. Init => TypeOK /\ Begun
    BY DEF Init, TypeOK, Begun, PC, InRegistryStep
  <1>2. TypeOK /\ Begun /\ [Next]_vars => (TypeOK /\ Begun)'
    <2> SUFFICES ASSUME TypeOK, Begun, [Next]_vars
                 PROVE  TypeOK' /\ Begun'
      OBVIOUS
    <2> USE DEF PC, InRegistryStep
    <2>1. ASSUME NEW c \in Client, Launch(c) PROVE TypeOK' /\ Begun'
      BY <2>1 DEF Launch, TypeOK, Begun
    <2>2. ASSUME NEW c \in Client, Start(c) PROVE TypeOK' /\ Begun'
      <3> DEFINE e == [Me(c) EXCEPT !.start = starts + 1]
      <3>1. e \in Entry
        <4>1. starts + 1 \in 1..MaxStart
          BY <2>2 DEF Start, TypeOK
        <4>2. launch[c] \in 1..MaxLaunch
          BY <2>2 DEF Start, TypeOK, Begun
        <4>3. e = [client |-> c, launch |-> launch[c], start |-> starts + 1]
          BY DEF Me
        <4>4. QED
          BY <4>1, <4>2, <4>3 DEF Entry
      <3>2. [kind |-> "HELLO", from |-> e] \in Message
        BY <3>1 DEF Message
      <3>3. [chans |-> {Broadcast}, st |-> "asked"] \in Conn
        BY DEF Conn, ConnState, Channel
      <3>4. wire' \in SUBSET Message
        BY <2>2, <3>2 DEF Start, TypeOK
      <3>5. conns' \in [Client -> SUBSET Conn]
        BY <2>2, <3>3 DEF Start, TypeOK
      <3>6. starts' \in 0..MaxStart /\ stay' \in [Client -> 0..MaxStart]
        BY <2>2 DEF Start, TypeOK
      <3>7. pc' \in [Client -> PC]
        BY <2>2 DEF Start, TypeOK
      <3>8. TypeOK'
        BY <2>2, <3>4, <3>5, <3>6, <3>7 DEF Start, TypeOK
      <3>9. Begun'
        BY <2>2 DEF Start, TypeOK, Begun
      <3>10. QED
        BY <3>8, <3>9
    <2>3. ASSUME NEW c \in Client, Stop(c) PROVE TypeOK' /\ Begun'
      <3>1. [kind |-> "GOODBYE", from |-> Me(c)] \in Message
        BY <2>3, MeIsEntry DEF Stop, Begun, Message
      <3>2. {Unsubscribed(k) : k \in conns[c]} \in SUBSET Conn
        BY UnsubscribedIsConn DEF TypeOK
      <3>3. conns' \in [Client -> SUBSET Conn]
        BY <2>3, <3>2 DEF Stop, TypeOK
      <3>4. QED
        BY <2>3, <3>1, <3>3 DEF Stop, TypeOK, Begun
    <2>4. ASSUME NEW c \in Client, Die(c) PROVE TypeOK' /\ Begun'
      <3>1. /\ pc' = [pc EXCEPT ![c] = "down"] /\ list' = [list EXCEPT ![c] = NoKey]
            /\ wire' \subseteq wire /\ UNCHANGED <<launch, starts, stay, saved, registry>>
        BY <2>4 DEF Die
      <3>2. TypeOK'
        BY <2>4, <3>1 DEF Die, TypeOK
      <3>3. Begun'
        BY <3>1 DEF TypeOK, Begun
      <3>4. QED
        BY <3>2, <3>3
    <2>5. ASSUME NEW c \in Client, CleanGet(c) PROVE TypeOK' /\ Begun'
      BY <2>5 DEF CleanGet, TypeOK, Begun
    <2>6. ASSUME NEW c \in Client, CleanPut(c) PROVE TypeOK' /\ Begun'
      BY <2>6 DEF CleanPut, TypeOK, Begun
    <2>7. ASSUME NEW c \in Client, BootGet(c) PROVE TypeOK' /\ Begun'
      <3>1. /\ pc[c] = "bootGet" /\ \E k \in {"idle", "bootPut"} : pc' = [pc EXCEPT ![c] = k]
            /\ UNCHANGED <<launch, starts, stay, saved, registry, conns, wire, inbox>>
        BY <2>7 DEF BootGet
      <3>2. TypeOK'
        <4>1. pc' \in [Client -> PC]
          BY <3>1 DEF TypeOK, PC
        <4>2. list' \in [Client -> (SUBSET Entry) \cup {NoKey}]
          <5>1. \E k \in {registry, NoKey} : list' = list \/ list' = [list EXCEPT ![c] = k]
            BY <2>7 DEF BootGet
          <5>2. QED
            BY <5>1 DEF TypeOK
        <4>3. peers' \in [Client -> SUBSET Entry]
          <5>1. peers' = peers \/ (registry \in SUBSET Entry /\ peers' = [peers EXCEPT ![c] = peers[c] \cup registry])
            BY <2>7 DEF BootGet, TypeOK
          <5>2. QED
            BY <5>1 DEF TypeOK
        <4>4. QED
          BY <3>1, <4>1, <4>2, <4>3 DEF TypeOK
      <3>3. Begun'
        BY <2>7 DEF BootGet, TypeOK, Begun
      <3>4. QED
        BY <3>2, <3>3
    <2>8. ASSUME NEW c \in Client, BootPut(c) PROVE TypeOK' /\ Begun'
      BY <2>8, MeIsEntry DEF BootPut, TypeOK, Begun
    <2>9. ASSUME NEW c \in Client, BootSubscribe(c) PROVE TypeOK' /\ Begun'
      <3>1. \A p \in Entry : PeerChannel(p) \in Channel
        BY DEF Entry, PeerChannel, Channel
      <3>2. [chans |-> {PeerChannel(p) : p \in peers[c]}, st |-> "asked"] \in Conn
        BY <3>1 DEF TypeOK, Conn, ConnState
      <3>3. conns' \in [Client -> SUBSET Conn]
        BY <2>9, <3>2 DEF BootSubscribe, TypeOK
      <3>4. QED
        BY <2>9, <3>3 DEF BootSubscribe, TypeOK, Begun
    <2>10. ASSUME NEW c \in Client, StopGet(c) PROVE TypeOK' /\ Begun'
      BY <2>10 DEF StopGet, TypeOK, Begun
    <2>11. ASSUME NEW c \in Client, StopPut(c) PROVE TypeOK' /\ Begun'
      BY <2>11 DEF StopPut, Stopped, OneComponent, TypeOK, Begun
    <2>12. ASSUME NEW c \in Client, HandleHello(c) PROVE TypeOK' /\ Begun'
      <3> DEFINE m == Head(inbox[c])
                 k == [chans |-> {PeerChannel(m.from)}, st |-> "asked"]
      <3>1. m \in Message /\ Tail(inbox[c]) \in Seq(Message)
        BY <2>12 DEF HandleHello, TypeOK
      <3>2. m.from \in Entry /\ PeerChannel(m.from) \in Channel
        BY <3>1 DEF Message, Entry, PeerChannel, Channel
      <3>3. k \in Conn
        BY <3>2 DEF Conn, ConnState
      <3>4. conns' \in [Client -> SUBSET Conn] /\ peers' \in [Client -> SUBSET Entry]
        <4>1. CASE SamePeer(m.from, Me(c))
          BY <2>12, <4>1 DEF HandleHello, TypeOK
        <4>2. CASE ~SamePeer(m.from, Me(c))
          <5>1. conns' = [conns EXCEPT ![c] = @ \cup {k}]
            BY <2>12, <4>2 DEF HandleHello
          <5>2. \/ peers' = peers
                \/ peers' = [peers EXCEPT ![c] = @ \cup {m.from}]
            BY <2>12, <4>2 DEF HandleHello
          <5> HIDE DEF m, k
          <5>3. /\ conns \in [Client -> SUBSET Conn]
                /\ peers \in [Client -> SUBSET Entry]
            BY DEF TypeOK
          <5>4. conns' \in [Client -> SUBSET Conn]
            BY <5>1, <5>3, <3>3
          <5>5. peers' \in [Client -> SUBSET Entry]
            BY <5>2, <5>3, <3>2
          <5>6. QED
            BY <5>4, <5>5
        <4>3. QED
          BY <4>1, <4>2
      <3>6. inbox' \in [Client -> Seq(Message)]
        BY <2>12, <3>1 DEF HandleHello, TypeOK
      <3>7. QED
        BY <2>12, <3>4, <3>6 DEF HandleHello, TypeOK, Begun
    <2>13. ASSUME NEW c \in Client, HandleGoodbye(c) PROVE TypeOK' /\ Begun'
      BY <2>13 DEF HandleGoodbye, TypeOK, Begun
    <2>14. ASSUME NEW m \in wire, ServerPublish(m) PROVE TypeOK' /\ Begun'
      BY <2>14 DEF ServerPublish, TypeOK, Begun
    <2>15. ASSUME NEW c \in Client, NEW k \in conns[c], ServerSubscribe(c, k)
           PROVE  TypeOK' /\ Begun'
      <3>1. [k EXCEPT !.st = IF @ = "asked" THEN "live" ELSE "leaving"] \in Conn
        <4>1. k \in Conn
          BY DEF TypeOK
        <4>2. QED
          BY <4>1 DEF Conn, ConnState
      <3>2. conns' \in [Client -> SUBSET Conn]
        BY <2>15, <3>1 DEF ServerSubscribe, TypeOK
      <3>3. QED
        BY <2>15, <3>2 DEF ServerSubscribe, TypeOK, Begun
    <2>16. ASSUME NEW c \in Client, NEW k \in conns[c], ServerUnsubscribe(c, k)
           PROVE  TypeOK' /\ Begun'
      BY <2>16 DEF ServerUnsubscribe, TypeOK, Begun
    <2>17. CASE UNCHANGED vars
      BY <2>17 DEF vars, TypeOK, Begun
    <2>18. QED
      BY <2>1, <2>2, <2>3, <2>4, <2>5, <2>6, <2>7, <2>8, <2>9, <2>10, <2>11,
         <2>12, <2>13, <2>14, <2>15, <2>16, <2>17
      DEF Next, User, Progress, Handle, ServerConn, Server
  <1>3. QED
    BY <1>1, <1>2, PTL DEF Spec

\* Whatever the environment does, the state keeps its shape.
THEOREM TypeCorrect == Spec => []TypeOK
  BY TypeInvariant, PTL

-----------------------------------------------------------------------------

(***************************************************************************)
(* The registry.  Its read and write steps behave as one as long as no two *)
(* operations overlap, no session is started twice, the server answers and *)
(* no device's name occurs in another's: what SelfListed needs, and what   *)
(* the run SessionOverlap shows it does need.                              *)
(***************************************************************************)
Orderly ==
  /\ Allowed \cap {"overlap", "rejoin", "outage"} = {}
  /\ \A c, d \in Client : <<c, d>> \in Occurs => c = d

\* One operation at a time, and what it has read is still there.
OneAtATime ==
  /\ \A c, d \in Client :
       pc[c] \in InRegistryStep /\ pc[d] \in InRegistryStep => c = d
  /\ \A c \in Client : pc[c] \in {"bootPut", "stopPut", "cleanPut"} => list[c] = registry

\* The inductive invariant.  SelfListed alone is not inductive: StopPut and
\* CleanPut write back what they read before.
RegistryInv ==
  /\ OneAtATime
  /\ SelfListed
  /\ StoppedIsUnlisted
  /\ registry # {}
  /\ \A e \in Listed : e.launch <= launch[e.client]

\* An operation begins alone.
LEMMA BeginsAlone ==
  ASSUME Orderly, NEW c \in Client, MayBegin(c)
  PROVE  \A d \in Client \ {c} : pc[d] \notin InRegistryStep
  BY DEF Orderly, MayBegin

\* Actions that only move messages and connections.
LEMMA NetworkKeepsRegistryInv ==
  ASSUME RegistryInv, UNCHANGED <<pc, launch, stay, list, registry>>
  PROVE  RegistryInv'
  BY DEF RegistryInv, OneAtATime, SelfListed, StoppedIsUnlisted, Listed, InSession, Me

\* Steps after which the same clients are in the session, and the same are down.
LEMMA SameSessionKeepsListing ==
  ASSUME TypeOK, SelfListed, StoppedIsUnlisted, UNCHANGED <<launch, stay, registry>>,
         \A d \in Client : InSession(d)' <=> InSession(d),
         \A d \in Client : pc'[d] = "down" <=> pc[d] = "down"
  PROVE  SelfListed' /\ StoppedIsUnlisted'
  <1>1. Listed' = Listed /\ \A e \in Listed : e.client \in Client
    BY DEF Listed, TypeOK, Entry
  <1>2. SelfListed'
    BY <1>1 DEF SelfListed, InSession, Me
  <1>3. StoppedIsUnlisted'
    BY <1>1 DEF StoppedIsUnlisted, InSession, Me
  <1>4. QED
    BY <1>2, <1>3

LEMMA RegistryInvInit == Init => RegistryInv
  BY NoKeyAssumption DEF Init, RegistryInv, OneAtATime, SelfListed, StoppedIsUnlisted,
         Listed, InSession, InRegistryStep

LEMMA RegistryInvStep ==
  ASSUME Orderly, TypeOK, TypeOK', Begun, RegistryInv, [Next]_vars
  PROVE  RegistryInv'
  <1> USE DEF InRegistryStep, InSession, Me
  <1>1. ASSUME NEW c \in Client, Launch(c) PROVE RegistryInv'
    <2>1. OneAtATime'
      BY <1>1, BeginsAlone DEF Launch, RegistryInv, OneAtATime, TypeOK
    <2>2. SelfListed'
      BY <1>1 DEF Launch, RegistryInv, SelfListed, Listed, TypeOK
    <2>3. \A e \in Listed : e.client \in Client /\ e.launch \in Nat
      BY DEF Listed, TypeOK, Entry
    <2>4. StoppedIsUnlisted' /\ (\A e \in Listed : e.launch <= launch[e.client])'
      BY <1>1, <2>3 DEF Launch, RegistryInv, StoppedIsUnlisted, Listed, TypeOK
    <2>5. QED
      BY <1>1, <2>1, <2>2, <2>4 DEF Launch, RegistryInv
  <1>2. ASSUME NEW c \in Client, Start(c) PROVE RegistryInv'
    <2>1. pc[c] = "idle"
      BY <1>2 DEF Start, Orderly
    <2>2. OneAtATime'
      BY <1>2, <2>1, BeginsAlone DEF Start, RegistryInv, OneAtATime, TypeOK
    <2>3. SelfListed'
      BY <1>2, <2>1 DEF Start, RegistryInv, SelfListed, Listed, TypeOK
    <2>4. StoppedIsUnlisted' /\ (\A e \in Listed : e.launch <= launch[e.client])'
      BY <1>2, <2>1 DEF Start, RegistryInv, StoppedIsUnlisted, Listed, TypeOK
    <2>5. QED
      BY <1>2, <2>2, <2>3, <2>4 DEF Start, RegistryInv
  <1>3. ASSUME NEW c \in Client, Stop(c) PROVE RegistryInv'
    <2>1. OneAtATime'
      BY <1>3, BeginsAlone DEF Stop, RegistryInv, OneAtATime, TypeOK
    <2>2. SelfListed' /\ StoppedIsUnlisted'
      BY <1>3 DEF Stop, RegistryInv, SelfListed, StoppedIsUnlisted, Listed, TypeOK
    <2>3. QED
      BY <1>3, <2>1, <2>2 DEF Stop, RegistryInv, Listed
  <1>4. ASSUME NEW c \in Client, Die(c) PROVE RegistryInv'
    <2>1. OneAtATime'
      BY <1>4 DEF Die, RegistryInv, OneAtATime, TypeOK
    <2>2. SelfListed' /\ StoppedIsUnlisted'
      BY <1>4 DEF Die, RegistryInv, SelfListed, StoppedIsUnlisted, Listed, TypeOK
    <2>3. QED
      BY <1>4, <2>1, <2>2 DEF Die, RegistryInv, Listed
  <1>5. ASSUME NEW c \in Client, CleanGet(c) \/ StopGet(c) PROVE RegistryInv'
    <2>1. "outage" \notin Allowed
      BY DEF Orderly
    <2>2. OneAtATime'
      BY <1>5 DEF CleanGet, StopGet, RegistryInv, OneAtATime, TypeOK
    <2>3. pc[c] = "stopGet" => registry # NoKey
      BY DEF RegistryInv, SelfListed, Listed
    <2>4. SelfListed' /\ StoppedIsUnlisted'
      BY <1>5, <2>1, <2>3, SameSessionKeepsListing DEF CleanGet, StopGet, RegistryInv, TypeOK
    <2>5. QED
      BY <1>5, <2>2, <2>4 DEF CleanGet, StopGet, RegistryInv, Listed
  <1>6. ASSUME NEW c \in Client, BootGet(c) PROVE RegistryInv'
    <2>1. OneAtATime'
      BY <1>6 DEF BootGet, Orderly, RegistryInv, OneAtATime, TypeOK
    <2>2. SelfListed' /\ StoppedIsUnlisted'
      BY <1>6, SameSessionKeepsListing DEF BootGet, RegistryInv, TypeOK
    <2>3. QED
      BY <1>6, <2>1, <2>2 DEF BootGet, RegistryInv, Listed
  <1>7. ASSUME NEW c \in Client, BootSubscribe(c) PROVE RegistryInv'
    <2>1. OneAtATime'
      BY <1>7 DEF BootSubscribe, RegistryInv, OneAtATime, TypeOK
    <2>2. SelfListed' /\ StoppedIsUnlisted'
      BY <1>7 DEF BootSubscribe, RegistryInv, SelfListed, StoppedIsUnlisted, Listed, TypeOK
    <2>3. QED
      BY <1>7, <2>1, <2>2 DEF BootSubscribe, RegistryInv, Listed
  <1>8. ASSUME NEW c \in Client, BootPut(c) PROVE RegistryInv'
    <2>1. registry' = Listed \cup {Me(c)} /\ pc' = [pc EXCEPT ![c] = "bootSub"]
      BY <1>8 DEF BootPut, Orderly, RegistryInv, OneAtATime, Listed
    <2>2. Listed' = Listed \cup {Me(c)}
      <3>1. registry' \in SUBSET Entry
        BY <1>8, <2>1, MeIsEntry DEF BootPut, Begun, TypeOK, Listed
      <3>2. QED
        BY <2>1, <3>1, NoKeyAssumption DEF Listed
    <2>3. OneAtATime'
      BY <1>8, <2>1 DEF BootPut, RegistryInv, OneAtATime, TypeOK
    <2>4. SelfListed'
      BY <1>8, <2>1, <2>2 DEF BootPut, RegistryInv, SelfListed, TypeOK
    <2>5. StoppedIsUnlisted'
      BY <1>8, <2>1, <2>2 DEF BootPut, RegistryInv, StoppedIsUnlisted, TypeOK
    <2>6. (\A e \in Listed : e.launch <= launch[e.client])'
      BY <1>8, <2>2 DEF BootPut, RegistryInv, TypeOK
    <2>7. QED
      BY <2>1, <2>3, <2>4, <2>5, <2>6 DEF RegistryInv
  <1>9. ASSUME NEW c \in Client, StopPut(c) PROVE RegistryInv'
    <2>1. list[c] = registry /\ registry \in SUBSET Entry /\ Me(c) \in registry
      BY <1>9 DEF StopPut, RegistryInv, OneAtATime, SelfListed, Listed, TypeOK
    <2>2. registry # NoKey
      BY <2>1, NoKeyAssumption
    <2>3. pc' = [pc EXCEPT ![c] = "idle"]
      BY <1>9, <2>2 DEF StopPut, Stopped, Orderly
    <2>4. Listed' = {e \in registry : ~SameText(e, Me(c))}
      <3>1. CASE OneComponent(list[c])
        BY <1>9, <2>1, <3>1 DEF StopPut, Orderly, OneComponent, SameText, Listed
      <3>2. CASE ~OneComponent(list[c])
        BY <1>9, <2>1, <3>2, NoKeyAssumption DEF StopPut, Orderly, Listed
      <3>3. QED
        BY <3>1, <3>2
    <2>5. registry' # {}
      <3>1. CASE OneComponent(list[c])
        BY <1>9, <3>1, NoKeyAssumption DEF StopPut, Orderly
      <3>2. CASE ~OneComponent(list[c])
        <4>1. PICK e \in registry : e # Me(c)
          BY <2>1, <3>2 DEF OneComponent
        <4>2. ~SameText(e, Me(c))
          BY <1>9, <2>1, <2>2, <4>1
          DEF StopPut, SameText, RegistryInv, StoppedIsUnlisted, Listed
        <4>3. QED
          BY <1>9, <2>1, <3>2, <4>1, <4>2 DEF StopPut, Orderly
      <3>3. QED
        BY <3>1, <3>2
    <2>6. OneAtATime'
      BY <1>9, <2>3 DEF StopPut, RegistryInv, OneAtATime, TypeOK
    <2>7. SelfListed'
      BY <1>9, <2>2, <2>3, <2>4
      DEF StopPut, RegistryInv, SelfListed, Listed, SameText, TypeOK
    <2>8. StoppedIsUnlisted'
      BY <1>9, <2>1, <2>2, <2>3, <2>4
      DEF StopPut, RegistryInv, StoppedIsUnlisted, Listed, SameText, TypeOK, Entry
    <2>9. (\A e \in Listed : e.launch <= launch[e.client])'
      BY <1>9, <2>1, <2>2, <2>4 DEF StopPut, RegistryInv, Listed
    <2>10. QED
      BY <2>5, <2>6, <2>7, <2>8, <2>9 DEF RegistryInv
  <1>10. ASSUME NEW c \in Client, CleanPut(c) PROVE RegistryInv'
    <2>1. list[c] = registry /\ registry \in SUBSET Entry /\ registry # NoKey
      BY <1>10, NoKeyAssumption DEF CleanPut, RegistryInv, OneAtATime, Begun
    <2>2. \A e \in registry : Stale(c, e) <=> e.client = c
      BY <2>1, OccursAssumption DEF Orderly, Stale, Entry
    <2>3. Listed' = {e \in registry : ~Stale(c, e)} /\ registry' # {}
      BY <1>10, <2>1, NoKeyAssumption DEF CleanPut, Orderly, Listed, RegistryInv
    <2>4. OneAtATime'
      BY <1>10 DEF CleanPut, RegistryInv, OneAtATime, TypeOK
    <2>5. SelfListed'
      BY <1>10, <2>1, <2>2, <2>3
      DEF CleanPut, RegistryInv, SelfListed, Listed, TypeOK
    <2>6. StoppedIsUnlisted'
      BY <1>10, <2>1, <2>2, <2>3
      DEF CleanPut, RegistryInv, StoppedIsUnlisted, Listed, TypeOK
    <2>7. (\A e \in Listed : e.launch <= launch[e.client])'
      BY <1>10, <2>1, <2>3 DEF CleanPut, RegistryInv, Listed
    <2>8. QED
      BY <2>3, <2>4, <2>5, <2>6, <2>7 DEF RegistryInv
  <1>11. ASSUME NEW c \in Client, Handle(c) PROVE RegistryInv'
    BY <1>11, NetworkKeepsRegistryInv DEF Handle, HandleHello, HandleGoodbye
  <1>12. CASE Server
    BY <1>12, NetworkKeepsRegistryInv
    DEF Server, ServerConn, ServerPublish, ServerSubscribe, ServerUnsubscribe
  <1>13. CASE UNCHANGED vars
    BY <1>13, NetworkKeepsRegistryInv DEF vars
  <1>14. QED
    BY <1>1, <1>2, <1>3, <1>4, <1>5, <1>6, <1>7, <1>8, <1>9, <1>10, <1>11, <1>12, <1>13
    DEF Next, User, Progress

LEMMA RegistryInvariant == ASSUME Orderly PROVE Spec => []RegistryInv
  <1>1. RegistryInv /\ TypeOK /\ TypeOK' /\ Begun /\ [Next]_vars => RegistryInv'
    BY RegistryInvStep
  <1>2. QED
    BY <1>1, RegistryInvInit, TypeInvariant, PTL DEF Spec

\* Whoever is in the session stands in the registry, for the benefit of those
\* who join later: no client that starts or stops after it loses its entry.
THEOREM SelfListedWhenOrderly ==
  ASSUME Orderly
  PROVE  Spec => []SelfListed
  <1>1. RegistryInv => SelfListed
    BY DEF RegistryInv
  <1>2. QED
    BY <1>1, RegistryInvariant, PTL

\* A live process that has stopped stands in the registry no more, so that
\* nobody subscribes to it: stop has taken its own entry out, and no other
\* client writes back a copy in which it still stands.
THEOREM StoppedIsUnlistedWhenOrderly ==
  ASSUME Orderly
  PROVE  Spec => []StoppedIsUnlisted
  <1>1. RegistryInv => StoppedIsUnlisted
    BY DEF RegistryInv
  <1>2. QED
    BY <1>1, RegistryInvariant, PTL

-----------------------------------------------------------------------------

(***************************************************************************)
(* Leftovers.  Entries travel: a client inside an operation holds a copy   *)
(* of the registry that it may write back long after, when operations      *)
(* overlap.  The strengthening follows those copies.                       *)
(***************************************************************************)
Remembered(e) ==
  saved[e.client] \/ (pc[e.client] = "bootSub" /\ e = Me(e.client))

LeftoverInv ==
  /\ \A c \in Client : pc[c] \in {"running", "stopGet", "stopPut"} => saved[c]
  /\ \A e \in Listed : Remembered(e)
  /\ \A c \in Client : list[c] # NoKey => \A e \in list[c] : Remembered(e)

\* What a step of client c must respect, whichever it is.
LEMMA LeftoverInvKept ==
  ASSUME TypeOK, TypeOK', LeftoverInv, NEW c \in Client,
         \A d \in Client \ {c} :
           /\ pc'[d] = pc[d] /\ list'[d] = list[d] /\ saved'[d] = saved[d]
           /\ Me(d)' = Me(d),
         saved[c] => saved'[c],
         pc[c] = "bootSub" => saved'[c] \/ (pc'[c] = "bootSub" /\ Me(c)' = Me(c)),
         pc'[c] \in {"running", "stopGet", "stopPut"} => saved'[c],
         list'[c] \in {NoKey, list[c], registry},
         \A e \in Listed' :
           \/ e \in Listed
           \/ list[c] # NoKey /\ e \in list[c]
           \/ e = Me(c)' /\ pc'[c] = "bootSub"
  PROVE  LeftoverInv'
  <1>1. \A e \in Entry : e.client \in Client
    BY DEF Entry
  <1>2. Me(c)'.client = c
    BY DEF Me
  <1>3. \A e \in Entry : Remembered(e) => Remembered(e)'
    <2> SUFFICES ASSUME NEW e \in Entry, Remembered(e) PROVE Remembered(e)'
      OBVIOUS
    <2>1. CASE e.client = c
      BY <2>1 DEF Remembered
    <2>2. CASE e.client # c
      BY <1>1, <2>2 DEF Remembered
    <2>3. QED
      BY <2>1, <2>2
  <1>4. ASSUME NEW e \in Listed' PROVE Remembered(e)'
    <2>1. e \in Entry
      BY NoKeyAssumption DEF Listed, TypeOK
    <2>2. CASE e = Me(c)' /\ pc'[c] = "bootSub"
      BY <1>2, <2>2 DEF Remembered
    <2>3. CASE e \in Listed \/ (list[c] # NoKey /\ e \in list[c])
      BY <1>3, <2>1, <2>3 DEF LeftoverInv
    <2>4. QED
      BY <2>2, <2>3
  <1>5. ASSUME NEW d \in Client, list'[d] # NoKey, NEW e \in list'[d] PROVE Remembered(e)'
    <2>1. e \in Entry
      BY <1>5 DEF TypeOK
    <2>2. list'[d] = list[d] \/ list'[d] = registry
      BY <1>5
    <2>3. Remembered(e)
      BY <1>5, <2>2 DEF LeftoverInv, Listed
    <2>4. QED
      BY <1>3, <2>1, <2>3
  <1>6. \A d \in Client : pc'[d] \in {"running", "stopGet", "stopPut"} => saved'[d]
    BY DEF LeftoverInv
  <1>7. QED
    BY <1>4, <1>5, <1>6 DEF LeftoverInv

LEMMA LeftoverInvStep ==
  ASSUME "crash" \notin Allowed, TypeOK, TypeOK', Begun, LeftoverInv, [Next]_vars
  PROVE  LeftoverInv'
  <1>1. ASSUME NEW c \in Client, Launch(c) PROVE LeftoverInv'
    BY <1>1, LeftoverInvKept DEF Launch, TypeOK, Me, Listed
  <1>2. ASSUME NEW c \in Client, Start(c) PROVE LeftoverInv'
    BY <1>2, LeftoverInvKept DEF Start, TypeOK, Me, Listed
  <1>3. ASSUME NEW c \in Client, Stop(c) PROVE LeftoverInv'
    BY <1>3, LeftoverInvKept DEF Stop, TypeOK, Me, Listed, LeftoverInv
  <1>4. ASSUME NEW c \in Client, Die(c) PROVE LeftoverInv'
    BY <1>4, LeftoverInvKept DEF Die, TypeOK, Me, Listed
  <1>5. ASSUME NEW c \in Client, CleanGet(c) PROVE LeftoverInv'
    BY <1>5, LeftoverInvKept DEF CleanGet, TypeOK, Me, Listed
  <1>6. ASSUME NEW c \in Client, CleanPut(c) PROVE LeftoverInv'
    <2>1. list[c] # NoKey /\ (\A e \in Listed' : e \in Listed \/ e \in list[c])
      BY <1>6, NoKeyAssumption DEF CleanPut, Begun, Listed
    <2>2. QED
      BY <1>6, <2>1, LeftoverInvKept DEF CleanPut, TypeOK, Me
  <1>7. ASSUME NEW c \in Client, BootGet(c) PROVE LeftoverInv'
    BY <1>7, LeftoverInvKept DEF BootGet, TypeOK, Me, Listed
  <1>8. ASSUME NEW c \in Client, BootPut(c) PROVE LeftoverInv'
    BY <1>8, LeftoverInvKept DEF BootPut, TypeOK, Me, Listed
  <1>9. ASSUME NEW c \in Client, BootSubscribe(c) PROVE LeftoverInv'
    BY <1>9, LeftoverInvKept DEF BootSubscribe, TypeOK, Me, Listed
  <1>10. ASSUME NEW c \in Client, StopGet(c) PROVE LeftoverInv'
    BY <1>10, LeftoverInvKept DEF StopGet, TypeOK, Me, Listed, LeftoverInv
  <1>11. ASSUME NEW c \in Client, StopPut(c) PROVE LeftoverInv'
    <2>1. list[c] # NoKey /\ (\A e \in Listed' : e \in Listed \/ e \in list[c])
      BY <1>11, NoKeyAssumption DEF StopPut, Begun, Listed
    <2>2. QED
      BY <1>11, <2>1, LeftoverInvKept DEF StopPut, Stopped, TypeOK, Me, LeftoverInv
  <1>12. ASSUME UNCHANGED <<pc, launch, stay, saved, list, registry>> PROVE LeftoverInv'
    BY <1>12 DEF LeftoverInv, Remembered, Listed, Me
  <1>13. QED
    BY <1>1, <1>2, <1>3, <1>4, <1>5, <1>6, <1>7, <1>8, <1>9, <1>10, <1>11, <1>12
    DEF Next, User, Progress, Handle, HandleHello, HandleGoodbye, Server, ServerConn,
        ServerPublish, ServerSubscribe, ServerUnsubscribe, vars

LEMMA LeftoverInvariant == ASSUME "crash" \notin Allowed PROVE Spec => []LeftoverInv
  <1>1. Init => LeftoverInv
    BY DEF Init, LeftoverInv, Listed
  <1>2. LeftoverInv /\ TypeOK /\ TypeOK' /\ Begun /\ [Next]_vars => LeftoverInv'
    BY LeftoverInvStep
  <1>3. QED
    BY <1>1, <1>2, TypeInvariant, PTL DEF Spec

\* Unless a client is lost in the middle of an operation, an entry that nobody
\* stands behind has a device whose next launch cleans it up, however operations
\* overlap, sessions are joined twice and the server fails to answer.
THEOREM LeftoversAreRemembered ==
  ASSUME "crash" \notin Allowed
  PROVE  Spec => []LeftoverRemembered
  <1>1. LeftoverInv => LeftoverRemembered
    BY DEF LeftoverInv, LeftoverRemembered, Remembered, InSession
  <1>2. QED
    BY <1>1, LeftoverInvariant, PTL

-----------------------------------------------------------------------------

(***************************************************************************)
(* Peers are heard.  A subscription asked for is given up only by stop, so *)
(* the property is inductive next to RegistryInv, which says that stop     *)
(* does not fail.                                                          *)
(***************************************************************************)

HeardBy(p, ks) == \E k \in ks : PeerChannel(p) \in k.chans /\ k.st \in {"asked", "live"}

\* Enough to keep the property: nobody else changes, and client c runs
\* with peers it is subscribed to.
LEMMA PeersAreHeardKept ==
  ASSUME PeersAreHeard, NEW c \in Client,
         \A d \in Client \ {c} :
           pc'[d] = pc[d] /\ peers'[d] = peers[d] /\ conns'[d] = conns[d],
         pc'[c] = "running" => \A p \in peers'[c] : HeardBy(p, conns'[c])
  PROVE  PeersAreHeard'
  BY DEF PeersAreHeard, HeardBy, PeerChannel

LEMMA PeersAreHeardStep ==
  ASSUME Orderly, TypeOK, RegistryInv, PeersAreHeard, [Next]_vars
  PROVE  PeersAreHeard'
  <1> USE DEF InRegistryStep
  <1>1. ASSUME NEW c \in Client, Launch(c) \/ Start(c) \/ Stop(c) \/ Die(c) PROVE PeersAreHeard'
    BY <1>1, PeersAreHeardKept DEF Launch, Start, Stop, Die, TypeOK
  <1>2. ASSUME NEW c \in Client, CleanGet(c) \/ CleanPut(c) \/ StopGet(c) PROVE PeersAreHeard'
    BY <1>2, PeersAreHeardKept DEF CleanGet, CleanPut, StopGet, TypeOK
  <1>3. ASSUME NEW c \in Client, BootGet(c) \/ BootPut(c) PROVE PeersAreHeard'
    BY <1>3, PeersAreHeardKept DEF BootGet, BootPut, TypeOK
  <1>4. ASSUME NEW c \in Client, BootSubscribe(c) PROVE PeersAreHeard'
    <2> DEFINE k == [chans |-> {PeerChannel(p) : p \in peers[c]}, st |-> "asked"]
    <2>1. \A p \in peers[c] : k \in conns'[c]
      BY <1>4 DEF BootSubscribe, TypeOK
    <2>2. \A p \in peers[c] : PeerChannel(p) \in k.chans
      OBVIOUS
    <2>3. \A p \in peers[c] : HeardBy(p, conns'[c])
      BY <2>1, <2>2 DEF HeardBy
    <2>4. QED
      BY <1>4, <2>3, PeersAreHeardKept DEF BootSubscribe, TypeOK
  <1>5. ASSUME NEW c \in Client, StopPut(c) PROVE PeersAreHeard'
    <2>1. registry # NoKey
      BY <1>5 DEF StopPut, RegistryInv, SelfListed, InSession, Listed
    <2>2. pc' = [pc EXCEPT ![c] = "idle"]
      BY <1>5, <2>1 DEF StopPut, Stopped, Orderly
    <2>3. QED
      BY <1>5, <2>2, PeersAreHeardKept DEF StopPut, Stopped, TypeOK
  <1>6. ASSUME NEW c \in Client, HandleHello(c) PROVE PeersAreHeard'
    <2> DEFINE e == Head(inbox[c]).from
               k == [chans |-> {PeerChannel(e)}, st |-> "asked"]
    <2>1. \A ks : k \in ks => HeardBy(e, ks)
      BY DEF HeardBy
    <2>2. CASE SamePeer(e, Me(c))
      BY <1>6, <2>2 DEF HandleHello, PeersAreHeard
    <2>3. CASE ~SamePeer(e, Me(c))
      <3>1. conns' = [conns EXCEPT ![c] = @ \cup {k}]
        BY <1>6, <2>3 DEF HandleHello
      <3>2. /\ pc' = pc
            /\ \/ peers' = peers
               \/ peers' = [peers EXCEPT ![c] = @ \cup {e}]
        BY <1>6, <2>3 DEF HandleHello
      <3> HIDE DEF e, k
      <3>3. \A p \in peers'[c] : p \in peers[c] \/ p = e
        BY <3>2 DEF TypeOK
      <3>4. conns'[c] = conns[c] \cup {k}
        BY <3>1 DEF TypeOK
      <3>5. pc'[c] = "running" => \A p \in peers'[c] : HeardBy(p, conns'[c])
        BY <2>1, <3>2, <3>3, <3>4 DEF PeersAreHeard, HeardBy
      <3>6. QED
        BY <3>1, <3>2, <3>5, PeersAreHeardKept DEF TypeOK
    <2>4. QED
      BY <2>2, <2>3
  <1>7. ASSUME NEW c \in Client, HandleGoodbye(c) PROVE PeersAreHeard'
    <2>1. \A d \in Client : peers'[d] \subseteq peers[d]
      BY <1>7 DEF HandleGoodbye, TypeOK
    <2>2. QED
      BY <1>7, <2>1 DEF HandleGoodbye, PeersAreHeard
  <1>8. ASSUME NEW c \in Client, NEW k \in conns[c], ServerSubscribe(c, k)
        PROVE  PeersAreHeard'
    <2> DEFINE l == [k EXCEPT !.st = IF @ = "asked" THEN "live" ELSE "leaving"]
    <2>1. k \in Conn
      BY DEF TypeOK
    <2>2. l.chans = k.chans /\ (k.st \in {"asked", "live"} => l.st \in {"asked", "live"})
      BY <1>8, <2>1 DEF Conn, ServerSubscribe
    <2>3. conns' = [conns EXCEPT ![c] = (@ \ {k}) \cup {l}]
      BY <1>8 DEF ServerSubscribe
    <2> HIDE DEF l
    <2>4. conns'[c] = (conns[c] \ {k}) \cup {l}
      BY <2>3 DEF TypeOK
    <2>5. \A p : HeardBy(p, conns[c]) => HeardBy(p, conns'[c])
      BY <2>2, <2>4 DEF HeardBy
    <2>6. pc[c] = "running" => \A p \in peers[c] : HeardBy(p, conns'[c])
      BY <2>5 DEF PeersAreHeard, HeardBy
    <2>7. QED
      BY <1>8, <2>3, <2>6, PeersAreHeardKept DEF ServerSubscribe, TypeOK
  <1>9. ASSUME NEW c \in Client, NEW k \in conns[c], ServerUnsubscribe(c, k)
        PROVE  PeersAreHeard'
    <2>1. conns'[c] = conns[c] \ {k} /\ k.st = "leaving"
      BY <1>9 DEF ServerUnsubscribe, TypeOK
    <2>2. pc[c] = "running" => \A p \in peers[c] : HeardBy(p, conns'[c])
      BY <2>1 DEF PeersAreHeard, HeardBy
    <2>3. QED
      BY <1>9, <2>2, PeersAreHeardKept DEF ServerUnsubscribe, TypeOK
  <1>10. ASSUME UNCHANGED <<pc, peers, conns>> PROVE PeersAreHeard'
    BY <1>10 DEF PeersAreHeard
  <1>11. QED
    BY <1>1, <1>2, <1>3, <1>4, <1>5, <1>6, <1>7, <1>8, <1>9, <1>10
    DEF Next, User, Progress, Handle, Server, ServerConn, ServerPublish, vars

\* A running client has asked for what each of its peers publishes and has not
\* given that up, in whatever order HELLO, GOODBYE and the commands arrive.
THEOREM PeersAreHeardWhenOrderly ==
  ASSUME Orderly
  PROVE  Spec => []PeersAreHeard
  <1>1. Init => PeersAreHeard
    BY DEF Init, PeersAreHeard
  <1>2. PeersAreHeard /\ TypeOK /\ RegistryInv /\ [Next]_vars => PeersAreHeard'
    BY PeersAreHeardStep
  <1>3. QED
    BY <1>1, <1>2, TypeCorrect, RegistryInvariant, PTL DEF Spec

-----------------------------------------------------------------------------

(***************************************************************************)
(* No client is its own peer.  bootWithPeers would list an entry of its    *)
(* own, so there must be none when it reads: the clean-up at launch has    *)
(* removed those of earlier launches, and stop that of this one.           *)
(***************************************************************************)
OwnEntriesAreOfThisLaunch ==
  \A c \in Client : pc[c] \notin {"down", "cleanGet", "cleanPut"} =>
    \A e \in Listed : e.client = c => e.launch = launch[c]

\* Devices with names of their own: the peer is someone else.
LEMMA OwnNameIsSelf ==
  ASSUME Orderly, NEW e \in Entry, NEW c \in Client
  PROVE  SamePeer(e, Me(c)) <=> e.client = c
  BY OccursAssumption DEF Orderly, SamePeer, Me, Entry

\* The registry holds nothing of a client that is not in the session.
LEMMA NothingOfOutsiders ==
  ASSUME TypeOK, RegistryInv, OwnEntriesAreOfThisLaunch, NEW c \in Client,
         pc[c] \in {"idle", "bootGet", "bootPut"}
  PROVE  \A e \in Listed : e.client # c
  BY DEF RegistryInv, StoppedIsUnlisted, OwnEntriesAreOfThisLaunch, InSession

LEMMA OwnEntriesStep ==
  ASSUME Orderly, "crash" \notin Allowed, TypeOK, Begun, RegistryInv, LeftoverInv,
         OwnEntriesAreOfThisLaunch, [Next]_vars
  PROVE  OwnEntriesAreOfThisLaunch'
  <1> USE DEF InRegistryStep
  <1>1. ASSUME NEW c \in Client, Launch(c) PROVE OwnEntriesAreOfThisLaunch'
    <2>1. CASE saved[c]
      BY <1>1, <2>1 DEF Launch, OwnEntriesAreOfThisLaunch, Listed, TypeOK
    <2>2. CASE ~saved[c]
      <3>1. \A e \in Listed : e.client # c
        BY <1>1, <2>2 DEF Launch, LeftoverInv, Remembered
      <3>2. QED
        BY <1>1, <3>1 DEF Launch, OwnEntriesAreOfThisLaunch, Listed, TypeOK
    <2>3. QED
      BY <2>1, <2>2
  <1>2. ASSUME NEW c \in Client, Start(c) \/ Stop(c) \/ Die(c) \/ BootGet(c) \/ BootSubscribe(c)
                                 \/ StopGet(c)
        PROVE  OwnEntriesAreOfThisLaunch'
    BY <1>2 DEF Start, Stop, Die, BootGet, BootSubscribe, StopGet,
                OwnEntriesAreOfThisLaunch, Listed, TypeOK
  <1>3. ASSUME NEW c \in Client, CleanGet(c) PROVE OwnEntriesAreOfThisLaunch'
    <2>1. \/ pc' = [pc EXCEPT ![c] = "cleanPut"]
          \/ registry = NoKey
      BY <1>3 DEF CleanGet, Orderly
    <2>2. QED
      BY <1>3, <2>1 DEF CleanGet, OwnEntriesAreOfThisLaunch, Listed, TypeOK
  <1>4. ASSUME NEW c \in Client, CleanPut(c) PROVE OwnEntriesAreOfThisLaunch'
    <2>1. list[c] = registry /\ registry \in SUBSET Entry /\ registry # NoKey
      BY <1>4, NoKeyAssumption DEF CleanPut, RegistryInv, OneAtATime, Begun
    <2>2. \A e \in registry : Stale(c, e) <=> e.client = c
      BY <2>1, OccursAssumption DEF Orderly, Stale, Entry
    <2>3. \A e \in Listed' : e \in Listed /\ e.client # c
      BY <1>4, <2>1, <2>2 DEF CleanPut, Orderly, Listed
    <2>4. QED
      BY <1>4, <2>3 DEF CleanPut, OwnEntriesAreOfThisLaunch, TypeOK
  <1>5. ASSUME NEW c \in Client, BootPut(c) PROVE OwnEntriesAreOfThisLaunch'
    <2>1. \A e \in Listed' : e \in Listed \/ e = Me(c)
      BY <1>5 DEF BootPut, Orderly, RegistryInv, OneAtATime, Listed
    <2>2. Me(c).client = c /\ Me(c).launch = launch[c]
      BY DEF Me
    <2>3. \A d \in Client : pc'[d] \notin {"down", "cleanGet", "cleanPut"}
                              => pc[d] \notin {"down", "cleanGet", "cleanPut"}
      BY <1>5 DEF BootPut, TypeOK
    <2>4. QED
      BY <1>5, <2>1, <2>2, <2>3 DEF BootPut, OwnEntriesAreOfThisLaunch
  <1>6. ASSUME NEW c \in Client, StopPut(c) PROVE OwnEntriesAreOfThisLaunch'
    <2>1. \A e \in Listed' : e \in Listed
      BY <1>6, NoKeyAssumption DEF StopPut, Begun, Orderly, RegistryInv, OneAtATime, Listed
    <2>2. \A d \in Client : pc'[d] \notin {"down", "cleanGet", "cleanPut"}
                              => pc[d] \notin {"down", "cleanGet", "cleanPut"}
      BY <1>6 DEF StopPut, Stopped, TypeOK
    <2>3. QED
      BY <1>6, <2>1, <2>2 DEF StopPut, OwnEntriesAreOfThisLaunch
  <1>7. ASSUME UNCHANGED <<pc, launch, registry>> PROVE OwnEntriesAreOfThisLaunch'
    BY <1>7 DEF OwnEntriesAreOfThisLaunch, Listed
  <1>8. QED
    BY <1>1, <1>2, <1>3, <1>4, <1>5, <1>6, <1>7
    DEF Next, User, Progress, Handle, HandleHello, HandleGoodbye, Server, ServerConn,
        ServerPublish, ServerSubscribe, ServerUnsubscribe, vars

LEMMA NeverOwnPeerStep ==
  ASSUME Orderly, TypeOK, TypeOK', RegistryInv, OwnEntriesAreOfThisLaunch,
         NeverOwnPeer, [Next]_vars
  PROVE  NeverOwnPeer'
  <1>1. \A d \in Client : \A p \in peers[d] : p.client # d
    BY OwnNameIsSelf DEF NeverOwnPeer, TypeOK
  <1>2. ASSUME \A d \in Client : \A p \in peers'[d] : p \in peers[d] \/ p.client # d
        PROVE  NeverOwnPeer'
    <2>1. \A d \in Client : \A p \in peers'[d] : p \in Entry /\ p.client # d
      BY <1>1, <1>2 DEF TypeOK
    <2>2. \A d \in Client : \A p \in Entry : SamePeer(p, Me(d)') => p.client = d
      BY OccursAssumption DEF Orderly, SamePeer, Me, Entry
    <2>3. QED
      BY <2>1, <2>2 DEF NeverOwnPeer, SamePeer, Me
  <1>3. ASSUME NEW c \in Client, BootGet(c) PROVE NeverOwnPeer'
    <2>1. \A e \in Listed : e.client # c
      BY <1>3, NothingOfOutsiders DEF BootGet
    <2>2. \A p \in peers'[c] : p \in peers[c] \/ p \in Listed
      BY <1>3 DEF BootGet, Listed, TypeOK
    <2>3. QED
      BY <1>2, <1>3, <2>1, <2>2 DEF BootGet, TypeOK
  <1>4. ASSUME NEW c \in Client, HandleHello(c) PROVE NeverOwnPeer'
    <2> DEFINE e == Head(inbox[c]).from
    <2>1. e \in Entry
      <3>1. Head(inbox[c]) \in Message
        BY <1>4 DEF HandleHello, TypeOK
      <3>2. QED
        BY <3>1 DEF Message
    <2>2. \/ peers' = peers
          \/ ~SamePeer(e, Me(c)) /\ peers' = [peers EXCEPT ![c] = @ \cup {e}]
      BY <1>4 DEF HandleHello
    <2> HIDE DEF e
    <2>3. \/ peers' = peers
          \/ e.client # c /\ peers' = [peers EXCEPT ![c] = @ \cup {e}]
      BY <2>1, <2>2, OwnNameIsSelf
    <2>4. ASSUME NEW d \in Client, NEW p \in peers'[d] PROVE p \in peers[d] \/ p.client # d
      <3>1. peers \in [Client -> SUBSET Entry]
        BY DEF TypeOK
      <3>2. p \in peers[d] \/ (d = c /\ p = e /\ e.client # c)
        BY <2>3, <2>4, <3>1
      <3>3. QED
        BY <3>2
    <2>5. QED
      BY <1>2, <2>4
  <1>5. ASSUME NEW c \in Client, HandleGoodbye(c) PROVE NeverOwnPeer'
    BY <1>2, <1>5 DEF HandleGoodbye, TypeOK
  <1>6. ASSUME NEW c \in Client, StopPut(c) \/ Die(c) PROVE NeverOwnPeer'
    BY <1>2, <1>6 DEF StopPut, Stopped, Die, TypeOK
  <1>7. CASE UNCHANGED peers
    BY <1>2, <1>7
  <1>8. QED
    BY <1>3, <1>4, <1>5, <1>6, <1>7
    DEF Next, User, Progress, Handle, Server, ServerConn, ServerPublish, ServerSubscribe,
        ServerUnsubscribe, Launch, Start, Stop, CleanGet, CleanPut, BootPut, BootSubscribe,
        StopGet, vars

\* A client never lists its own name among its peers, although it takes every
\* entry it finds for one: no entry of its own is left when it looks.
THEOREM NeverOwnPeerWhenOrderly ==
  ASSUME Orderly, "crash" \notin Allowed
  PROVE  Spec => []NeverOwnPeer
  <1>1. Init => OwnEntriesAreOfThisLaunch /\ NeverOwnPeer
    BY DEF Init, OwnEntriesAreOfThisLaunch, NeverOwnPeer, Listed
  <1>2. /\ OwnEntriesAreOfThisLaunch /\ NeverOwnPeer
        /\ TypeOK /\ TypeOK' /\ Begun /\ RegistryInv /\ LeftoverInv /\ [Next]_vars
        => (OwnEntriesAreOfThisLaunch /\ NeverOwnPeer)'
    BY OwnEntriesStep, NeverOwnPeerStep
  <1>3. QED
    BY <1>1, <1>2, TypeInvariant, RegistryInvariant, LeftoverInvariant, PTL DEF Spec

-----------------------------------------------------------------------------
(***************************************************************************)
(* PlasterSession implements SessionRoster: the write step of an operation *)
(* is the abstract operation, everything else a stutter.                   *)
(***************************************************************************)


\* Both modules name the same set.
LEMMA ListedIsRosterListed == Roster!Listed = Listed
  BY DEF Roster!Listed, Listed

LEMMA MeOfOthers ==
  ASSUME NEW c \in Client, NEW d \in Client, c # d
  PROVE  Me(c) # Me(d)
  BY DEF Me

\* Steps that leave the same clients in the session, at the same stay.
LEMMA SamePresent ==
  ASSUME \A d \in Client : InSession(d)' <=> InSession(d),
         \A d \in Client : InSession(d) => launch'[d] = launch[d] /\ stay'[d] = stay[d]
  PROVE  Present' = Present
  <1>1. \A d \in Client : InSession(d) => Me(d)' = Me(d)
    BY DEF Me
  <1>2. QED
    BY <1>1 DEF Present

LEMMA InitMapsToInit == Init => Roster!RosterInit
  BY DEF Init, Roster!RosterInit, Present, InSession

\* Registering is joining.
LEMMA BootPutJoins ==
  ASSUME Orderly, TypeOK, Begun, RegistryInv, NEW c \in Client, BootPut(c)
  PROVE  Me(c) \in Entry /\ Roster!Join(Me(c))
  <1>1. Me(c) \in Entry
    BY MeIsEntry DEF BootPut, Begun
  <1>2. registry' = Listed \cup {Me(c)} /\ pc' = [pc EXCEPT ![c] = "bootSub"]
    BY DEF BootPut, Orderly, RegistryInv, OneAtATime, Listed
  <1>3. \A p \in Present : OwnerOf(p) # OwnerOf(Me(c))
    BY DEF Present, InSession, OwnerOf, Me, BootPut
  <1>4. Present' = Present \cup {Me(c)}
    <2>1. \A d \in Client : InSession(d)' <=> InSession(d) \/ d = c
      BY <1>2 DEF InSession, TypeOK
    <2>2. \A d \in Client : Me(d)' = Me(d)
      BY DEF BootPut, Me
    <2>3. QED
      BY <2>1, <2>2 DEF Present
  <1>5. QED
    BY <1>1, <1>2, <1>3, <1>4, ListedIsRosterListed DEF Roster!Join

\* Writing the list back without oneself, or deleting it, is leaving.
LEMMA StopPutLeaves ==
  ASSUME Orderly, TypeOK, Begun, RegistryInv, NEW c \in Client, StopPut(c)
  PROVE  Me(c) \in Entry /\ Roster!Leave(Me(c))
  <1>1. Me(c) \in Entry
    BY MeIsEntry DEF StopPut, Begun
  <1>2. InSession(c) /\ Me(c) \in Listed /\ registry # NoKey
    BY DEF StopPut, InSession, RegistryInv, SelfListed, Listed
  <1>3. list[c] = registry /\ Listed = registry /\ registry \in SUBSET Entry
    BY <1>2 DEF StopPut, RegistryInv, OneAtATime, Listed, TypeOK
  <1>4. pc' = [pc EXCEPT ![c] = "idle"]
    BY <1>2 DEF StopPut, Stopped, Orderly
  <1>5. \A e \in Listed : SameText(e, Me(c)) <=> e = Me(c)
    <2>1. Me(c).client = c /\ Me(c).launch = launch[c]
      BY DEF Me
    <2>2. pc[c] # "down"
      BY DEF StopPut
    <2>3. QED
      BY <2>1, <2>2 DEF SameText, RegistryInv, StoppedIsUnlisted
  <1>6. registry' = Roster!Keep(Listed \ {Me(c)})
    <2>1. CASE OneComponent(list[c])
      BY <1>2, <1>3, <2>1 DEF StopPut, Orderly, OneComponent, Roster!Keep
    <2>2. CASE ~OneComponent(list[c])
      <3>1. registry' = Listed \ {Me(c)}
        BY <1>3, <1>5, <2>2 DEF StopPut, Orderly
      <3>2. Listed \ {Me(c)} # {}
        BY <1>1, <1>3, <2>2 DEF OneComponent
      <3>3. QED
        BY <3>1, <3>2 DEF Roster!Keep
    <2>3. QED
      BY <2>1, <2>2
  <1>7. Present' = Present \ {Me(c)}
    <2>1. \A d \in Client : InSession(d)' <=> InSession(d) /\ d # c
      BY <1>4 DEF InSession, TypeOK
    <2>2. \A d \in Client : Me(d)' = Me(d)
      BY DEF StopPut, Me
    <2>3. QED
      BY <2>1, <2>2, MeOfOthers DEF Present
  <1>8. QED
    BY <1>1, <1>2, <1>6, <1>7, ListedIsRosterListed DEF Roster!Leave, Present

\* The end of a process in the session is a disappearance.
LEMMA DieVanishes ==
  ASSUME TypeOK, Begun, NEW c \in Client, Die(c)
  PROVE  \/ UNCHANGED <<registry, Present>>
         \/ Me(c) \in Entry /\ Roster!Vanish(Me(c))
  <1>1. pc' = [pc EXCEPT ![c] = "down"]
    BY DEF Die
  <1>2. CASE InSession(c)
    <2>1. Me(c) \in Entry
      BY <1>2, MeIsEntry DEF InSession, Begun
    <2>2. \A d \in Client : InSession(d)' <=> InSession(d) /\ d # c
      BY <1>1 DEF InSession, TypeOK
    <2>3. \A d \in Client : Me(d)' = Me(d)
      BY DEF Die, Me
    <2>4. Present' = Present \ {Me(c)}
      BY <2>2, <2>3, MeOfOthers DEF Present
    <2>5. QED
      BY <1>2, <2>1, <2>4 DEF Die, Roster!Vanish, Present
  <1>3. CASE ~InSession(c)
    <2>1. \A d \in Client : InSession(d)' <=> InSession(d)
      BY <1>1, <1>3 DEF InSession, TypeOK
    <2>2. QED
      BY <2>1, SamePresent DEF Die
  <1>4. QED
    BY <1>2, <1>3

\* Writing back the list without stale entries is a purge.
LEMMA CleanPutPurges ==
  ASSUME Orderly, TypeOK, Begun, RegistryInv, NEW c \in Client, CleanPut(c)
  PROVE  Roster!Purge(c)
  <1>1. list[c] = registry /\ registry \in SUBSET Entry /\ registry # NoKey
    BY NoKeyAssumption DEF CleanPut, RegistryInv, OneAtATime, Begun
  <1>2. \A e \in registry : Stale(c, e) <=> e.client = c
    BY <1>1, OccursAssumption DEF Orderly, Stale, Entry
  <1>3. \A p \in Present : OwnerOf(p) # c
    BY DEF Present, InSession, OwnerOf, Me, CleanPut
  <1>4. registry' = Roster!Keep({e \in Listed : OwnerOf(e) # c})
    <2>1. {e \in registry : ~Stale(c, e)} = {e \in Listed : OwnerOf(e) # c}
      BY <1>1, <1>2 DEF Listed, OwnerOf
    <2>2. registry # {}
      BY DEF RegistryInv
    <2>3. QED
      BY <1>1, <2>1, <2>2 DEF CleanPut, Orderly, Roster!Keep
  <1>5. Present' = Present
    <2>1. \A d \in Client : InSession(d)' <=> InSession(d)
      BY DEF CleanPut, InSession, TypeOK
    <2>2. QED
      BY <2>1, SamePresent DEF CleanPut
  <1>6. QED
    BY <1>3, <1>4, <1>5, ListedIsRosterListed DEF Roster!Purge

\* Every other step of a client leaves roster and participants alone.
LEMMA OtherStepsStutter ==
  ASSUME Orderly, TypeOK, RegistryInv, NEW c \in Client,
         \/ Launch(c) \/ Start(c) \/ Stop(c) \/ CleanGet(c) \/ BootGet(c)
         \/ BootSubscribe(c) \/ StopGet(c)
  PROVE  UNCHANGED <<registry, Present>>
  <1>1. pc[c] = "stopGet" => registry # NoKey
    BY DEF RegistryInv, SelfListed, InSession, Listed
  <1>2. ASSUME Start(c) PROVE pc[c] = "idle"
    BY <1>2 DEF Start, Orderly
  <1>3. \A d \in Client : InSession(d)' <=> InSession(d)
    BY <1>1, <1>2 DEF Orderly, Launch, Start, Stop, CleanGet, BootGet, BootSubscribe,
                      StopGet, InSession, TypeOK
  <1>4. \A d \in Client : InSession(d) => launch'[d] = launch[d] /\ stay'[d] = stay[d]
    BY <1>2 DEF Launch, Start, Stop, CleanGet, BootGet, BootSubscribe, StopGet,
                InSession, TypeOK
  <1>5. QED
    BY <1>3, <1>4, SamePresent
    DEF Launch, Start, Stop, CleanGet, BootGet, BootSubscribe, StopGet

LEMMA StepMapsToStep ==
  ASSUME Orderly, TypeOK, Begun, RegistryInv, [Next]_vars
  PROVE  [Roster!RosterNext]_<<registry, Present>>
  <1>1. ASSUME NEW c \in Client, User(c) \/ Progress(c)
        PROVE  [Roster!RosterNext]_<<registry, Present>>
    <2>1. CASE BootPut(c)
      BY <2>1, BootPutJoins DEF Roster!RosterNext
    <2>2. CASE StopPut(c)
      BY <2>2, StopPutLeaves DEF Roster!RosterNext
    <2>3. CASE Die(c)
      BY <2>3, DieVanishes DEF Roster!RosterNext
    <2>4. CASE CleanPut(c)
      BY <2>4, CleanPutPurges DEF Roster!RosterNext
    <2>5. CASE \/ Launch(c) \/ Start(c) \/ Stop(c) \/ CleanGet(c) \/ BootGet(c)
               \/ BootSubscribe(c) \/ StopGet(c)
      BY <2>5, OtherStepsStutter
    <2>6. QED
      BY <1>1, <2>1, <2>2, <2>3, <2>4, <2>5 DEF User, Progress
  <1>2. ASSUME UNCHANGED <<pc, launch, stay, registry>>
        PROVE  UNCHANGED <<registry, Present>>
    BY <1>2, SamePresent DEF InSession
  <1>3. QED
    BY <1>1, <1>2 DEF Next, Handle, HandleHello, HandleGoodbye, Server, ServerConn,
      ServerPublish, ServerSubscribe, ServerUnsubscribe, vars

\* Two round trips an operation, and yet the registry does what single steps
\* would: the protocol of start, stop and the clean-up implements the roster.
THEOREM RosterImplemented ==
  ASSUME Orderly
  PROVE  Spec => ImplementsRoster
  <1>1. TypeOK /\ Begun /\ RegistryInv /\ [Next]_vars
          => [Roster!RosterNext]_<<registry, Present>>
    BY StepMapsToStep
  <1>2. Spec => [](TypeOK /\ Begun) /\ []RegistryInv
    BY TypeInvariant, RegistryInvariant
  <1>3. QED
    BY <1>1, <1>2, InitMapsToInit, PTL
    DEF Spec, ImplementsRoster, Roster!RosterSpec, Roster!rosterVars

-----------------------------------------------------------------------------

(***************************************************************************)
(* Settled sessions.  When everybody waits for the messages of one         *)
(* operation before the next begins, whatever is under way belongs to one  *)
(* client, and of two clients in the session each knows the other or the   *)
(* news of it is under way.                                                *)
(***************************************************************************)
Patient == Orderly /\ "haste" \notin Allowed

In(m, q) == \E i \in 1..Len(q) : q[i] = m

Reaches(m, c) == m \in wire \/ In(m, inbox[c])

Flying(m) == \E c \in Client : Reaches(m, c)

\* c has heard, or will hear, that d comes or goes.
Told(c, kind, d) == \E m \in Message : m.kind = kind /\ m.from.client = d /\ Reaches(m, c)

Asked(ks, ch) == \E k \in ks : ch \in k.chans /\ k.st \in {"asked", "live"}

Leaving(k) == k.st \in {"both", "leaving"}

Resting == {"down", "idle", "running"}
Before == {"down", "cleanGet", "cleanPut"}
Starting == {"bootGet", "bootPut", "bootSub", "running"}
Stopping == {"stopGet", "stopPut", "idle"}

\* Something of what x began is not finished.
Acts(x) ==
  \/ pc[x] \notin Resting
  \/ \E m \in Message : Flying(m) /\ m.from.client = x
  \/ \E k \in conns[x] : Leaving(k)

OneActor == \A x, y \in Client : Acts(x) /\ Acts(y) => x = y

\* A message under way tells the truth about its sender, or is the last of one gone.
Truthful(m) ==
  LET x == m.from.client IN
  /\ m.from.launch <= launch[x]
  /\ \/ pc[x] = "down"
     \/ m.from = Me(x) /\ pc[x] \in IF m.kind = "HELLO" THEN Starting ELSE Stopping

MailIsTruthful == \A m \in Message : Flying(m) => Truthful(m)

\* The connections of x: none before its first start, none that stays after its
\* stop, and whoever runs hears what the others announce.
Tuned(x) ==
  /\ pc[x] \in Before => conns[x] = {} /\ inbox[x] = <<>>
  /\ pc[x] \in Starting => Asked(conns[x], Broadcast) /\ \A k \in conns[x] : ~Leaving(k)
  /\ pc[x] \in Stopping => \A k \in conns[x] : Leaving(k)
  /\ pc[x] = "running" /\ (\E m \in wire : m.from.client # x) => Hears(x, Broadcast)

\* Outside the session it has no peers, and nobody else's news to handle.
Lonely(x) ==
  /\ pc[x] \in Before \cup {"idle"} => peers[x] = {}
  /\ pc[x] = "idle" => \A m \in Message : In(m, inbox[x]) => m.from.client = x

\* c shows d among its peers and has asked for what d publishes.
Aware(c, d) ==
  /\ \E p \in peers[c] : p.client = d
  /\ Asked(conns[c], <<d, launch[d]>>)

\* Who comes is met, by those who run at once and by those who start from the registry.
Meets(c, d) ==
  /\ pc[c] = "running" /\ pc[d] \in Starting => Aware(c, d) \/ Told(c, "HELLO", d)
  /\ pc[c] \in {"bootPut", "bootSub"} /\ pc[d] = "running" => Me(d) \in peers[c]

\* Who goes is forgotten: a peer of its present launch is shown only until it is told.
Forgets(c, d) ==
  \A p \in peers[c] : p.client = d =>
    /\ p.launch <= launch[d]
    /\ p.launch = launch[d] /\ pc[d] \in Stopping \cup {"cleanGet", "cleanPut"}
         => pc[c] = "running" /\ Told(c, "GOODBYE", d)

SettleInv ==
  /\ OneActor
  /\ MailIsTruthful
  /\ \A x \in Client : Tuned(x) /\ Lonely(x)
  /\ \A c, d \in Client : c # d => Meets(c, d) /\ Forgets(c, d)

\* Where a step of its own takes a client that has an answer.
Moves ==
  {<<"cleanGet", "cleanPut">>, <<"cleanGet", "idle">>, <<"cleanPut", "idle">>,
   <<"bootGet", "bootPut">>, <<"bootPut", "bootSub">>, <<"bootSub", "running">>,
   <<"stopGet", "stopPut">>, <<"stopPut", "idle">>}

\* What the steps of an operation have in common: they touch no message, and
\* no peers or connections of anybody else.
LEMMA ProgressMoves ==
  ASSUME Orderly, TypeOK, RegistryInv, NEW c \in Client, Progress(c)
  PROVE  /\ \E s \in PC : <<pc[c], s>> \in Moves /\ pc' = [pc EXCEPT ![c] = s]
         /\ UNCHANGED <<launch, stay, wire, inbox>>
         /\ \A x \in Client \ {c} : peers'[x] = peers[x] /\ conns'[x] = conns[x]
  <1> USE DEF Moves, PC, InRegistryStep
  <1>1. CASE CleanGet(c)
    BY <1>1 DEF CleanGet
  <1>2. CASE CleanPut(c)
    BY <1>2 DEF CleanPut
  <1>3. CASE BootGet(c)
    BY <1>3 DEF BootGet, Orderly, RegistryInv, TypeOK
  <1>4. CASE BootPut(c)
    BY <1>4 DEF BootPut, Orderly
  <1>5. CASE BootSubscribe(c)
    BY <1>5 DEF BootSubscribe, TypeOK
  <1>6. CASE StopGet(c)
    BY <1>6 DEF StopGet, Orderly, RegistryInv, SelfListed, InSession, Listed
  <1>7. CASE StopPut(c)
    <2>1. registry # NoKey
      BY <1>7 DEF StopPut, RegistryInv, SelfListed, InSession, Listed
    <2>2. QED
      BY <1>7, <2>1 DEF StopPut, Stopped, Orderly, TypeOK
  <1>8. QED
    BY <1>1, <1>2, <1>3, <1>4, <1>5, <1>6, <1>7 DEF Progress

\* What they do to the peers: the registry is added, and stop forgets.
LEMMA ProgressPeers ==
  ASSUME Orderly, TypeOK, RegistryInv, NEW c \in Client, Progress(c)
  PROVE  /\ pc[c] = "bootGet" => peers'[c] = peers[c] \cup Listed
         /\ pc[c] = "stopPut" => peers'[c] = {}
         /\ pc[c] \notin {"bootGet", "stopPut"} => peers'[c] = peers[c]
  <1>1. CASE BootGet(c)
    BY <1>1 DEF BootGet, Orderly, RegistryInv, Listed, TypeOK
  <1>2. CASE StopPut(c)
    <2>1. registry # NoKey
      BY <1>2 DEF StopPut, RegistryInv, SelfListed, InSession, Listed
    <2>2. QED
      BY <1>2, <2>1 DEF StopPut, Stopped, Orderly, TypeOK
  <1>3. QED
    BY <1>1, <1>2 DEF Progress, CleanGet, CleanPut, BootPut, BootSubscribe, StopGet

\* What they do to the connections: the end of a start asks for all peers.
LEMMA ProgressConns ==
  ASSUME TypeOK, NEW c \in Client, Progress(c)
  PROVE  /\ conns[c] \subseteq conns'[c]
         /\ \A k \in conns'[c] : k \in conns[c] \/ ~Leaving(k)
         /\ pc[c] # "bootSub" => conns'[c] = conns[c]
         /\ pc[c] = "bootSub" => \A p \in peers[c] : Asked(conns'[c], PeerChannel(p))
  <1>1. CASE BootSubscribe(c)
    <2> DEFINE k == [chans |-> {PeerChannel(p) : p \in peers[c]}, st |-> "asked"]
    <2>1. conns'[c] = conns[c] \cup {k} \/ (peers[c] = {} /\ conns'[c] = conns[c])
      BY <1>1 DEF BootSubscribe, TypeOK
    <2>2. ~Leaving(k) /\ \A p \in peers[c] : PeerChannel(p) \in k.chans
      BY DEF Leaving
    <2>3. k.st = "asked"
      OBVIOUS
    <2> HIDE DEF k
    <2>4. QED
      BY <1>1, <2>1, <2>2, <2>3 DEF BootSubscribe, Asked
  <1>2. CASE pc[c] # "bootSub" /\ conns'[c] = conns[c]
    BY <1>2
  <1>3. QED
    BY <1>1, <1>2 DEF Progress, CleanGet, CleanPut, BootGet, BootPut, StopGet, StopPut

-----------------------------------------------------------------------------

LEMMA InAppend ==
  ASSUME NEW S, NEW q \in Seq(S), NEW n \in S, NEW m
  PROVE  In(m, Append(q, n)) <=> In(m, q) \/ m = n
  <1>1. /\ Len(Append(q, n)) = Len(q) + 1 /\ Len(q) \in Nat
        /\ \A i \in 1..Len(q) : Append(q, n)[i] = q[i]
        /\ Append(q, n)[Len(q) + 1] = n
    OBVIOUS
  <1>2. ASSUME In(m, q) PROVE In(m, Append(q, n))
    BY <1>1, <1>2 DEF In
  <1>3. ASSUME m = n PROVE In(m, Append(q, n))
    BY <1>1, <1>3 DEF In
  <1>4. ASSUME In(m, Append(q, n)) PROVE In(m, q) \/ m = n
    <2>1. PICK i \in 1..Len(q) + 1 : Append(q, n)[i] = m
      BY <1>1, <1>4 DEF In
    <2>2. i \in 1..Len(q) \/ i = Len(q) + 1
      BY <1>1
    <2>3. QED
      BY <1>1, <2>1, <2>2 DEF In
  <1>5. QED
    BY <1>2, <1>3, <1>4

LEMMA InTail ==
  ASSUME NEW S, NEW q \in Seq(S), q # <<>>, NEW m
  PROVE  In(m, q) <=> In(m, Tail(q)) \/ m = Head(q)
  <1>1. /\ Len(q) \in Nat \ {0} /\ Len(Tail(q)) = Len(q) - 1 /\ Head(q) = q[1]
        /\ \A i \in 1..Len(q) - 1 : Tail(q)[i] = q[i + 1]
    OBVIOUS
  <1>2. ASSUME In(m, q) PROVE In(m, Tail(q)) \/ m = Head(q)
    <2>1. PICK i \in 1..Len(q) : q[i] = m
      BY <1>2 DEF In
    <2>2. CASE i = 1
      BY <1>1, <2>1, <2>2
    <2>3. CASE i # 1
      <3>1. i - 1 \in 1..Len(q) - 1 /\ Tail(q)[i - 1] = q[(i - 1) + 1] /\ (i - 1) + 1 = i
        BY <1>1, <2>3
      <3>2. QED
        BY <1>1, <2>1, <3>1 DEF In
    <2>4. QED
      BY <2>2, <2>3
  <1>3. ASSUME In(m, Tail(q)) PROVE In(m, q)
    <2>1. PICK i \in 1..Len(q) - 1 : Tail(q)[i] = m
      BY <1>1, <1>3 DEF In
    <2>2. i + 1 \in 1..Len(q) /\ q[i + 1] = m
      BY <1>1, <2>1
    <2>3. QED
      BY <2>2 DEF In
  <1>4. ASSUME m = Head(q) PROVE In(m, q)
    <2>1. 1 \in 1..Len(q) /\ q[1] = m
      BY <1>1, <1>4
    <2>2. QED
      BY <2>1 DEF In
  <1>5. QED
    BY <1>2, <1>3, <1>4

LEMMA NothingInEmpty ==
  ASSUME NEW m
  PROVE  ~In(m, <<>>)
  BY DEF In

\* Handling a message takes that one away from that client, and no other.
LEMMA HandleTakesOne ==
  ASSUME TypeOK, NEW c \in Client, Handle(c)
  PROVE  /\ Head(inbox[c]) \in Message /\ In(Head(inbox[c]), inbox[c])
         /\ wire' = wire
         /\ \A m \in Message, x \in Client : In(m, inbox'[x]) => In(m, inbox[x])
         /\ \A m \in Message, x \in Client :
              In(m, inbox[x]) => In(m, inbox'[x]) \/ (x = c /\ m = Head(inbox[c]))
         /\ \A x \in Client : inbox[x] = <<>> => inbox'[x] = <<>>
  <1>1. inbox[c] # <<>> /\ inbox' = [inbox EXCEPT ![c] = Tail(@)] /\ wire' = wire
    BY DEF Handle, HandleHello, HandleGoodbye
  <1>2. inbox[c] \in Seq(Message)
    BY DEF TypeOK
  <1>3. Head(inbox[c]) \in Message
    BY <1>1, <1>2
  <1>4. \A m : In(m, inbox[c]) <=> In(m, Tail(inbox[c])) \/ m = Head(inbox[c])
    BY <1>1, <1>2, InTail
  <1>5. inbox'[c] = Tail(inbox[c]) /\ \A x \in Client \ {c} : inbox'[x] = inbox[x]
    BY <1>1 DEF TypeOK
  <1>6. QED
    BY <1>1, <1>3, <1>4, <1>5

\* The server's copies: a published message reaches who hears the broadcast.
LEMMA PublishSpreads ==
  ASSUME TypeOK, NEW n \in wire, ServerPublish(n)
  PROVE  /\ n \in Message
         /\ wire' = wire \ {n}
         /\ \A m \in Message, x \in Client :
              In(m, inbox'[x]) <=> In(m, inbox[x]) \/ (m = n /\ Hears(x, Broadcast))
         /\ \A x \in Client : ~Hears(x, Broadcast) => inbox'[x] = inbox[x]
  <1>1. n \in Message
    BY DEF TypeOK
  <1>2. \A x \in Client : inbox[x] \in Seq(Message)
    BY DEF TypeOK
  <1>3. \A x \in Client :
          inbox'[x] = IF Hears(x, Broadcast) THEN Append(inbox[x], n) ELSE inbox[x]
    BY DEF ServerPublish
  <1>4. \A m \in Message, x \in Client : In(m, Append(inbox[x], n)) <=> In(m, inbox[x]) \/ m = n
    BY <1>1, <1>2, InAppend
  <1>5. QED
    BY <1>1, <1>3, <1>4 DEF ServerPublish

\* A process that ends takes its own messages with it, and what it has not handled.
LEMMA DieLoses ==
  ASSUME TypeOK, NEW c \in Client, Die(c)
  PROVE  /\ wire' \subseteq wire
         /\ \A m \in wire : m \in wire' \/ m.from.client = c
         /\ inbox'[c] = <<>> /\ \A x \in Client \ {c} : inbox'[x] = inbox[x]
         /\ pc' = [pc EXCEPT ![c] = "down"]
         /\ peers' = [peers EXCEPT ![c] = {}] /\ conns' = [conns EXCEPT ![c] = {}]
         /\ UNCHANGED <<launch, stay>>
  BY DEF Die, TypeOK

-----------------------------------------------------------------------------

\* When all is settled nobody acts and no message is under way.
LEMMA SettledIsQuiet ==
  ASSUME TypeOK, Settled
  PROVE  /\ \A m \in Message, x \in Client : ~Reaches(m, x)
         /\ \A x \in Client : ~Acts(x) /\ inbox[x] = <<>>
         /\ \A x \in Client : \A k \in conns[x] : k.st = "live"
  <1>1. \A x \in Client : /\ pc[x] \in Resting /\ inbox[x] = <<>>
                          /\ \A k \in conns[x] : k.st = "live"
    BY DEF Settled, Resting
  <1>2. \A m \in Message, x \in Client : ~Reaches(m, x)
    BY <1>1, NothingInEmpty DEF Reaches, Settled
  <1>3. \A x \in Client : ~Acts(x)
    BY <1>1, <1>2 DEF Acts, Flying, Leaving
  <1>4. QED
    BY <1>1, <1>2, <1>3

\* A patient user begins when all is settled.
LEMMA BeginsSettled ==
  ASSUME Patient, NEW c \in Client, MayBegin(c)
  PROVE  Settled
  BY DEF Patient, MayBegin

-----------------------------------------------------------------------------

\* A SUBSCRIBE that the server executes: nothing asked for is lost.
LEMMA SubscribeMoves ==
  ASSUME TypeOK, NEW c \in Client, NEW k \in conns[c], ServerSubscribe(c, k)
  PROVE  /\ conns[c] # {}
         /\ \A ch : Asked(conns[c], ch) => Asked(conns'[c], ch)
         /\ \A ch : Hears(c, ch) => Hears(c, ch)'
         /\ (\A l \in conns[c] : Leaving(l)) => \A l \in conns'[c] : Leaving(l)
         /\ (\A l \in conns[c] : ~Leaving(l)) => \A l \in conns'[c] : ~Leaving(l)
         /\ \A x \in Client \ {c} : conns'[x] = conns[x]
  <1> DEFINE n == [k EXCEPT !.st = IF @ = "asked" THEN "live" ELSE "leaving"]
  <1>1. /\ n.chans = k.chans
        /\ \/ k.st = "asked" /\ n.st = "live"
           \/ k.st = "both" /\ n.st = "leaving"
    <2>1. k \in Conn
      BY DEF TypeOK
    <2>2. QED
      BY <2>1 DEF Conn, ServerSubscribe
  <1>2. conns' = [conns EXCEPT ![c] = (@ \ {k}) \cup {n}]
    BY DEF ServerSubscribe
  <1> HIDE DEF n
  <1>3. conns'[c] = (conns[c] \ {k}) \cup {n} /\ \A x \in Client \ {c} : conns'[x] = conns[x]
    BY <1>2 DEF TypeOK
  <1>4. QED
    BY <1>1, <1>3 DEF Asked, Hears, Leaving

\* An UNSUBSCRIBE: only a connection that was leaving is gone.
LEMMA UnsubscribeMoves ==
  ASSUME TypeOK, NEW c \in Client, NEW k \in conns[c], ServerUnsubscribe(c, k)
  PROVE  /\ Leaving(k)
         /\ conns'[c] \subseteq conns[c]
         /\ \A ch : Asked(conns[c], ch) => Asked(conns'[c], ch)
         /\ \A x \in Client \ {c} : conns'[x] = conns[x]
  <1>1. conns'[c] = conns[c] \ {k} /\ k.st = "leaving" /\ \A x \in Client \ {c} : conns'[x] = conns[x]
    BY DEF ServerUnsubscribe, TypeOK
  <1>2. QED
    BY <1>1 DEF Asked, Leaving

\* What handling a message does to connections and peers.
LEMMA HandleMoves ==
  ASSUME Orderly, TypeOK, NEW c \in Client, Handle(c), NEW m, m = Head(inbox[c])
  PROVE  /\ UNCHANGED <<pc, launch, stay>>
         /\ conns[c] \subseteq conns'[c]
         /\ \A k \in conns'[c] : k \in conns[c] \/ (~Leaving(k) /\ m.from.client # c)
         /\ \A x \in Client \ {c} : peers'[x] = peers[x] /\ conns'[x] = conns[x]
         /\ m.from.client = c => peers'[c] = peers[c]
         /\ m.kind = "HELLO" /\ m.from.client # c =>
              /\ peers[c] \subseteq peers'[c] /\ \A p \in peers'[c] : p \in peers[c] \/ p = m.from
              /\ \E p \in peers'[c] : p.client = m.from.client
              /\ Asked(conns'[c], PeerChannel(m.from))
         /\ m.kind = "GOODBYE" /\ m.from.client # c =>
              peers'[c] = {p \in peers[c] : p.client # m.from.client}
  <1> DEFINE k == [chans |-> {PeerChannel(m.from)}, st |-> "asked"]
  <1>1. m \in Message /\ m.from \in Entry
    <2>1. m \in Message
      BY HandleTakesOne
    <2>2. QED
      BY <2>1 DEF Message
  <1>2. SamePeer(m.from, Me(c)) <=> m.from.client = c
    BY <1>1, OwnNameIsSelf
  <1>3. \A p \in peers[c] : SamePeer(p, m.from) <=> p.client = m.from.client
    <2>1. \A p \in peers[c] : p \in Entry
      BY DEF TypeOK
    <2>2. QED
      BY <1>1, <2>1, OccursAssumption DEF Orderly, SamePeer, Entry
  <1>4. k.st = "asked" /\ PeerChannel(m.from) \in k.chans /\ ~Leaving(k)
    BY DEF Leaving
  <1>5. CASE HandleHello(c) /\ m.from.client = c
    BY <1>2, <1>5 DEF HandleHello
  <1>6. CASE HandleHello(c) /\ m.from.client # c
    <2>1. /\ conns' = [conns EXCEPT ![c] = @ \cup {k}]
          /\ peers' = IF Knows(c, m.from) THEN peers ELSE [peers EXCEPT ![c] = @ \cup {m.from}]
          /\ UNCHANGED <<pc, launch, stay>> /\ m.kind = "HELLO"
      BY <1>2, <1>6 DEF HandleHello
    <2> HIDE DEF k
    <2>2. conns'[c] = conns[c] \cup {k} /\ \A x \in Client \ {c} : conns'[x] = conns[x]
      BY <2>1 DEF TypeOK
    <2>3. /\ peers'[c] = IF Knows(c, m.from) THEN peers[c] ELSE peers[c] \cup {m.from}
          /\ \A x \in Client \ {c} : peers'[x] = peers[x]
      BY <2>1 DEF TypeOK
    <2>4. Knows(c, m.from) => \E p \in peers[c] : p.client = m.from.client
      BY <1>3 DEF Knows
    <2>5. Asked(conns'[c], PeerChannel(m.from))
      BY <1>4, <2>2 DEF Asked
    <2>6. \E p \in peers'[c] : p.client = m.from.client
      BY <2>3, <2>4
    <2>7. QED
      BY <1>4, <1>6, <2>1, <2>2, <2>3, <2>5, <2>6
  <1>7. CASE HandleGoodbye(c)
    <2>1. /\ m.kind = "GOODBYE" /\ UNCHANGED <<pc, launch, stay, conns>>
          /\ peers' = IF m.from.client = c THEN peers
                      ELSE [peers EXCEPT ![c] = {p \in @ : ~SamePeer(p, m.from)}]
      BY <1>2, <1>7 DEF HandleGoodbye
    <2>2. \A x \in Client \ {c} : peers'[x] = peers[x]
      BY <2>1 DEF TypeOK
    <2>3. m.from.client # c => peers'[c] = {p \in peers[c] : ~SamePeer(p, m.from)}
      BY <2>1 DEF TypeOK
    <2>4. m.from.client # c => peers'[c] = {p \in peers[c] : p.client # m.from.client}
      BY <1>3, <2>3
    <2>5. QED
      BY <2>1, <2>2, <2>4
  <1>8. QED
    BY <1>5, <1>6, <1>7 DEF Handle

\* What begins an operation: nothing is under way, and the beginner alone changes.
LEMMA StartMoves ==
  ASSUME Orderly, TypeOK, Begun, NEW c \in Client, Start(c)
  PROVE  /\ pc[c] = "idle" /\ pc' = [pc EXCEPT ![c] = "bootGet"] /\ MayBegin(c)
         /\ UNCHANGED <<launch, peers, inbox>> /\ launch[c] # 0
         /\ \A x \in Client \ {c} : conns'[x] = conns[x] /\ Me(x)' = Me(x)
         /\ conns[c] \subseteq conns'[c] /\ \A k \in conns'[c] : k \in conns[c] \/ ~Leaving(k)
         /\ Asked(conns'[c], Broadcast)
         /\ \E n \in Message : /\ n.kind = "HELLO" /\ n.from = Me(c)' /\ n.from.client = c
                               /\ n.from.launch = launch[c] /\ wire' = wire \cup {n}
  <1> DEFINE k == [chans |-> {Broadcast}, st |-> "asked"]
             n == [kind |-> "HELLO", from |-> [Me(c) EXCEPT !.start = starts + 1]]
  <1>1. pc[c] = "idle" /\ launch[c] # 0 /\ starts + 1 \in 1..MaxStart
    BY DEF Start, Orderly, Begun, TypeOK
  <1>2. conns'[c] = conns[c] \cup {k} /\ \A x \in Client \ {c} : conns'[x] = conns[x]
    BY DEF Start, TypeOK
  <1>3. k.st = "asked" /\ Broadcast \in k.chans
    OBVIOUS
  <1>4. \A x \in Client \ {c} : Me(x)' = Me(x)
    BY DEF Start, TypeOK, Me
  <1>5. n.from = [client |-> c, launch |-> launch[c], start |-> starts + 1]
    BY DEF Me
  <1>6. Me(c)' = [client |-> c, launch |-> launch[c], start |-> starts + 1]
    BY DEF Start, TypeOK, Me
  <1>7. n \in Message
    <2>1. launch[c] \in 1..MaxLaunch
      BY <1>1 DEF TypeOK
    <2>2. n.from \in Entry
      BY <1>1, <1>5, <2>1 DEF Entry
    <2>3. QED
      BY <2>2 DEF Message
  <1>8. wire' = wire \cup {n} /\ n.kind = "HELLO"
    BY DEF Start
  <1>9. n.from = Me(c)' /\ n.from.client = c /\ n.from.launch = launch[c]
    BY <1>5, <1>6
  <1> HIDE DEF k, n
  <1>10. Asked(conns'[c], Broadcast) /\ \A l \in conns'[c] : l \in conns[c] \/ ~Leaving(l)
    BY <1>2, <1>3 DEF Asked, Leaving
  <1>11. QED
    BY <1>1, <1>2, <1>4, <1>7, <1>8, <1>9, <1>10 DEF Start

LEMMA StopMoves ==
  ASSUME TypeOK, Begun, NEW c \in Client, Stop(c)
  PROVE  /\ pc[c] = "running" /\ pc' = [pc EXCEPT ![c] = "stopGet"] /\ MayBegin(c)
         /\ UNCHANGED <<launch, stay, peers, inbox>>
         /\ \A x \in Client \ {c} : conns'[x] = conns[x]
         /\ \A k \in conns'[c] : Leaving(k)
         /\ \E n \in Message : /\ n.kind = "GOODBYE" /\ n.from = Me(c) /\ n.from.client = c
                               /\ n.from.launch = launch[c] /\ wire' = wire \cup {n}
  <1> DEFINE n == [kind |-> "GOODBYE", from |-> Me(c)]
  <1>1. n \in Message
    BY MeIsEntry DEF Stop, Begun, Message
  <1>2. n.kind = "GOODBYE" /\ n.from = Me(c) /\ n.from.client = c /\ n.from.launch = launch[c]
    BY DEF Me
  <1>3. conns'[c] = {Unsubscribed(k) : k \in conns[c]} /\ \A x \in Client \ {c} : conns'[x] = conns[x]
    BY DEF Stop, TypeOK
  <1>4. \A k \in Conn : Leaving(Unsubscribed(k))
    BY DEF Conn, ConnState, Unsubscribed, Leaving
  <1>5. \A k \in conns'[c] : Leaving(k)
    BY <1>3, <1>4 DEF TypeOK
  <1>6. wire' = wire \cup {n}
    BY DEF Stop
  <1> HIDE DEF n
  <1>7. QED
    BY <1>1, <1>2, <1>3, <1>5, <1>6 DEF Stop

-----------------------------------------------------------------------------

(***************************************************************************)
(* One actor.                                                              *)
(***************************************************************************)

\* Whoever is down or at rest with nothing to say and nothing to leave is no actor.
LEMMA ActsOnlyIf ==
  ASSUME NEW x \in Client, Acts(x)',
         pc'[x] \notin Resting => Acts(x),
         \A m \in Message, y \in Client : Reaches(m, y)' => Reaches(m, y) \/ m.from.client # x,
         \A k \in conns'[x] : Leaving(k) => k \in conns[x] \/ Acts(x)
  PROVE  Acts(x)
  <1>1. CASE pc'[x] \notin Resting
    BY <1>1
  <1>2. CASE \E m \in Message : Flying(m)' /\ m.from.client = x
    BY <1>2 DEF Flying, Acts
  <1>3. CASE \E k \in conns'[x] : Leaving(k)
    BY <1>3 DEF Acts
  <1>4. QED
    BY <1>1, <1>2, <1>3 DEF Acts, Resting

\* A step that lets nobody act who did not before.
LEMMA OneActorKept ==
  ASSUME OneActor, \A x \in Client : Acts(x)' => Acts(x)
  PROVE  OneActor'
  BY DEF OneActor

\* A step that begins an operation when nobody acts.
LEMMA OneActorBegins ==
  ASSUME TypeOK, Settled, NEW c \in Client, \A x \in Client \ {c} : Acts(x)' => Acts(x)
  PROVE  OneActor'
  BY SettledIsQuiet DEF OneActor

LEMMA OneActorStep ==
  ASSUME Patient, TypeOK, Begun, RegistryInv, OneActor, [Next]_vars
  PROVE  OneActor'
  <1> USE DEF Reaches
  <1>0. Orderly
    BY DEF Patient
  <1>1. ASSUME NEW c \in Client, Launch(c) PROVE OneActor'
    <2>1. /\ UNCHANGED <<conns, wire, inbox>> /\ \A x \in Client \ {c} : pc'[x] = pc[x]
          /\ MayBegin(c)
      BY <1>1 DEF Launch, TypeOK
    <2>2. \A x \in Client \ {c} : pc'[x] \notin Resting => Acts(x)
      BY <2>1 DEF Acts
    <2>3. \A x \in Client \ {c} : Acts(x)' => Acts(x)
      BY <2>1, <2>2, ActsOnlyIf
    <2>4. QED
      BY <2>1, <2>3, BeginsSettled, OneActorBegins
  <1>2. ASSUME NEW c \in Client, Start(c) PROVE OneActor'
    <2>1. /\ inbox' = inbox /\ MayBegin(c)
          /\ \A x \in Client \ {c} : pc'[x] = pc[x] /\ conns'[x] = conns[x]
          /\ \E n \in Message : n.from.client = c /\ wire' = wire \cup {n}
      BY <1>0, <1>2, StartMoves DEF TypeOK
    <2>2. \A x \in Client \ {c} : pc'[x] \notin Resting => Acts(x)
      BY <2>1 DEF Acts
    <2>3. \A x \in Client \ {c} : Acts(x)' => Acts(x)
      BY <2>1, <2>2, ActsOnlyIf
    <2>4. QED
      BY <2>1, <2>3, BeginsSettled, OneActorBegins
  <1>3. ASSUME NEW c \in Client, Stop(c) PROVE OneActor'
    <2>1. /\ inbox' = inbox /\ MayBegin(c)
          /\ \A x \in Client \ {c} : pc'[x] = pc[x] /\ conns'[x] = conns[x]
          /\ \E n \in Message : n.from.client = c /\ wire' = wire \cup {n}
      BY <1>3, StopMoves DEF TypeOK
    <2>2. \A x \in Client \ {c} : pc'[x] \notin Resting => Acts(x)
      BY <2>1 DEF Acts
    <2>3. \A x \in Client \ {c} : Acts(x)' => Acts(x)
      BY <2>1, <2>2, ActsOnlyIf
    <2>4. QED
      BY <2>1, <2>3, BeginsSettled, OneActorBegins
  <1>4. ASSUME NEW c \in Client, Die(c) PROVE OneActor'
    <2>1. /\ wire' \subseteq wire /\ \A x \in Client : inbox'[x] \in {<<>>, inbox[x]}
          /\ \A x \in Client : pc'[x] \in {"down", pc[x]} /\ conns'[x] \in {{}, conns[x]}
      BY <1>4, DieLoses DEF TypeOK
    <2>2. \A m \in Message, y \in Client : Reaches(m, y)' => Reaches(m, y)
      BY <2>1, NothingInEmpty
    <2>3. \A x \in Client : pc'[x] \notin Resting => Acts(x)
      BY <2>1 DEF Acts, Resting
    <2>4. \A x \in Client : Acts(x)' => Acts(x)
      BY <2>1, <2>2, <2>3, ActsOnlyIf
    <2>5. QED
      BY <2>4, OneActorKept
  <1>5. ASSUME NEW c \in Client, Progress(c) PROVE OneActor'
    <2>1. /\ UNCHANGED <<wire, inbox>>
          /\ \A x \in Client \ {c} : pc'[x] = pc[x] /\ conns'[x] = conns[x]
      BY <1>0, <1>5, ProgressMoves DEF TypeOK
    <2>2. Acts(c)
      BY <1>0, <1>5, ProgressMoves DEF Acts, Resting, Moves
    <2>3. \A x \in Client : pc'[x] \notin Resting => Acts(x)
      BY <2>1, <2>2 DEF Acts
    <2>4. \A x \in Client : Acts(x)' => Acts(x)
      BY <2>1, <2>2, <2>3, ActsOnlyIf
    <2>5. QED
      BY <2>4, OneActorKept
  <1>6. ASSUME NEW c \in Client, Handle(c) PROVE OneActor'
    <2>1. /\ wire' = wire /\ pc' = pc
          /\ \A m \in Message, x \in Client : In(m, inbox'[x]) => In(m, inbox[x])
          /\ \A x \in Client : \A k \in conns'[x] : k \in conns[x] \/ ~Leaving(k)
      BY <1>0, <1>6, HandleTakesOne, HandleMoves
    <2>2. \A x \in Client : pc'[x] \notin Resting => Acts(x)
      BY <2>1 DEF Acts
    <2>3. \A x \in Client : Acts(x)' => Acts(x)
      BY <2>1, <2>2, ActsOnlyIf
    <2>4. QED
      BY <2>3, OneActorKept
  <1>7. ASSUME NEW n \in wire, ServerPublish(n) PROVE OneActor'
    <2>1. \A m \in Message, x \in Client : Reaches(m, x)' => Reaches(m, x)
      BY <1>7, PublishSpreads
    <2>2. pc' = pc /\ conns' = conns
      BY <1>7 DEF ServerPublish
    <2>3. \A x \in Client : pc'[x] \notin Resting => Acts(x)
      BY <2>2 DEF Acts
    <2>4. \A x \in Client : Acts(x)' => Acts(x)
      BY <2>1, <2>2, <2>3, ActsOnlyIf
    <2>5. QED
      BY <2>4, OneActorKept
  <1>8. ASSUME NEW c \in Client, NEW k \in conns[c], ServerSubscribe(c, k) \/ ServerUnsubscribe(c, k)
        PROVE  OneActor'
    <2>1. UNCHANGED <<pc, wire, inbox>>
      BY <1>8 DEF ServerSubscribe, ServerUnsubscribe
    <2>2. \A x \in Client : \A l \in conns'[x] : Leaving(l) => l \in conns[x] \/ Acts(x)
      <3>1. CASE ServerSubscribe(c, k)
        BY <3>1, SubscribeMoves DEF Acts
      <3>2. CASE ServerUnsubscribe(c, k)
        BY <3>2, UnsubscribeMoves
      <3>3. QED
        BY <1>8, <3>1, <3>2
    <2>3. \A x \in Client : pc'[x] \notin Resting => Acts(x)
      BY <2>1 DEF Acts
    <2>4. \A x \in Client : Acts(x)' => Acts(x)
      BY <2>1, <2>2, <2>3, ActsOnlyIf
    <2>5. QED
      BY <2>4, OneActorKept
  <1>9. CASE UNCHANGED vars
    BY <1>9 DEF vars, OneActor, Acts, Flying
  <1>10. QED
    BY <1>1, <1>2, <1>3, <1>4, <1>5, <1>6, <1>7, <1>8, <1>9
    DEF Next, User, Server, ServerConn

(***************************************************************************)
(* Truthful mail.                                                          *)
(***************************************************************************)

LEMMA MailKept ==
  ASSUME MailIsTruthful,
         \A m \in Message, y \in Client : Reaches(m, y)' => Reaches(m, y),
         \A m \in Message : Truthful(m) => Truthful(m)'
  PROVE  MailIsTruthful'
  BY DEF MailIsTruthful, Flying

\* The first message of an operation is alone under way.
LEMMA MailBegins ==
  ASSUME TypeOK, Settled, NEW n \in Message, wire' = wire \cup {n}, inbox' = inbox, Truthful(n)'
  PROVE  MailIsTruthful'
  <1>1. \A m \in Message, y \in Client : Reaches(m, y)' => m = n
    BY SettledIsQuiet DEF Reaches
  <1>2. \A m \in Message : Flying(m)' => m = n
    BY <1>1 DEF Flying
  <1>3. QED
    BY <1>2 DEF MailIsTruthful

LEMMA MailIsTruthfulStep ==
  ASSUME Patient, TypeOK, Begun, RegistryInv, MailIsTruthful, [Next]_vars
  PROVE  MailIsTruthful'
  <1> USE DEF Reaches
  <1>0. Orderly /\ \A m \in Message : m.from.client \in Client
    BY DEF Patient, Message, Entry
  <1>1. ASSUME NEW c \in Client, Launch(c) PROVE MailIsTruthful'
    <2>1. \A m \in Message, x \in Client : ~Reaches(m, x)
      BY <1>1, BeginsSettled, SettledIsQuiet DEF Launch
    <2>2. UNCHANGED <<wire, inbox>>
      BY <1>1 DEF Launch
    <2>3. QED
      BY <2>1, <2>2 DEF MailIsTruthful, Flying
  <1>2. ASSUME NEW c \in Client, Start(c) PROVE MailIsTruthful'
    <2>1. PICK n \in Message : /\ n.kind = "HELLO" /\ n.from = Me(c)' /\ n.from.client = c
                               /\ n.from.launch = launch[c] /\ wire' = wire \cup {n}
      BY <1>0, <1>2, StartMoves
    <2>2. pc'[c] = "bootGet" /\ inbox' = inbox /\ launch' = launch /\ MayBegin(c)
      BY <1>0, <1>2, StartMoves DEF TypeOK
    <2>3. Truthful(n)'
      BY <2>1, <2>2 DEF Truthful, Starting, TypeOK
    <2>4. QED
      BY <2>1, <2>2, <2>3, BeginsSettled, MailBegins
  <1>3. ASSUME NEW c \in Client, Stop(c) PROVE MailIsTruthful'
    <2>1. PICK n \in Message : /\ n.kind = "GOODBYE" /\ n.from = Me(c) /\ n.from.client = c
                               /\ n.from.launch = launch[c] /\ wire' = wire \cup {n}
      BY <1>3, StopMoves
    <2>2. /\ pc'[c] = "stopGet" /\ inbox' = inbox /\ launch' = launch /\ stay' = stay
          /\ MayBegin(c)
      BY <1>3, StopMoves DEF TypeOK
    <2>3. Truthful(n)'
      BY <2>1, <2>2 DEF Truthful, Stopping, TypeOK, Me
    <2>4. QED
      BY <2>1, <2>2, <2>3, BeginsSettled, MailBegins
  <1>4. ASSUME NEW c \in Client, Die(c) PROVE MailIsTruthful'
    <2>1. /\ wire' \subseteq wire /\ \A x \in Client : inbox'[x] \in {<<>>, inbox[x]}
          /\ \A x \in Client : pc'[x] \in {"down", pc[x]} /\ UNCHANGED <<launch, stay>>
      BY <1>4, DieLoses DEF TypeOK
    <2>2. \A m \in Message, y \in Client : Reaches(m, y)' => Reaches(m, y)
      BY <2>1, NothingInEmpty
    <2>3. \A m \in Message : Truthful(m) => Truthful(m)'
      BY <1>0, <2>1 DEF Truthful, Me
    <2>4. QED
      BY <2>2, <2>3, MailKept
  <1>5. ASSUME NEW c \in Client, Progress(c) PROVE MailIsTruthful'
    <2>1. PICK s \in PC : <<pc[c], s>> \in Moves /\ pc' = [pc EXCEPT ![c] = s]
      BY <1>0, <1>5, ProgressMoves
    <2>2. UNCHANGED <<launch, stay, wire, inbox>>
      BY <1>0, <1>5, ProgressMoves
    <2>3. \A kind : pc[c] \in (IF kind = "HELLO" THEN Starting ELSE Stopping)
             => s \in (IF kind = "HELLO" THEN Starting ELSE Stopping)
      BY <2>1 DEF Moves, Starting, Stopping
    <2>4. pc[c] # "down"
      BY <2>1 DEF Moves
    <2>5. \A m \in Message : Truthful(m) => Truthful(m)'
      BY <1>0, <2>1, <2>2, <2>3, <2>4 DEF Truthful, Me, TypeOK
    <2>6. QED
      BY <2>2, <2>5, MailKept
  <1>6. ASSUME NEW c \in Client, Handle(c) PROVE MailIsTruthful'
    <2>1. UNCHANGED <<pc, launch, stay>>
      BY <1>6 DEF Handle, HandleHello, HandleGoodbye
    <2>2. \A m \in Message : Truthful(m) => Truthful(m)'
      BY <2>1 DEF Truthful, Me
    <2>3. QED
      BY <1>6, <2>2, HandleTakesOne, MailKept
  <1>7. ASSUME NEW n \in wire, ServerPublish(n) PROVE MailIsTruthful'
    <2>1. \A m \in Message, x \in Client : Reaches(m, x)' => Reaches(m, x)
      BY <1>7, PublishSpreads
    <2>2. \A m \in Message : Truthful(m) => Truthful(m)'
      BY <1>7 DEF ServerPublish, Truthful, Me
    <2>3. QED
      BY <2>1, <2>2, MailKept
  <1>8. ASSUME UNCHANGED <<pc, launch, stay, wire, inbox>> PROVE MailIsTruthful'
    BY <1>8 DEF MailIsTruthful, Flying, Truthful, Me
  <1>9. QED
    BY <1>1, <1>2, <1>3, <1>4, <1>5, <1>6, <1>7, <1>8
    DEF Next, User, Server, ServerConn, ServerSubscribe, ServerUnsubscribe, vars

(***************************************************************************)
(* Connections.                                                            *)
(***************************************************************************)

\* While one acts, every message under way is its own.
LEMMA ActorsMail ==
  ASSUME OneActor, NEW x \in Client, Acts(x), NEW m \in Message, NEW y \in Client, Reaches(m, y)
  PROVE  m.from.client = x
  <1>1. m.from.client \in Client
    BY DEF Message, Entry
  <1>2. QED
    BY <1>1 DEF OneActor, Acts, Flying

LEMMA TunedKept ==
  ASSUME NEW x \in Client, Tuned(x), wire' \subseteq wire,
         pc'[x] = pc[x], conns'[x] = conns[x], inbox'[x] = inbox[x]
  PROVE  Tuned(x)'
  BY DEF Tuned, Hears

\* Somebody else begins: whoever runs has its subscription executed by now.
LEMMA TunedWhenOthersBegin ==
  ASSUME TypeOK, Settled, NEW x \in Client, Tuned(x),
         pc'[x] = pc[x], conns'[x] = conns[x], inbox'[x] = inbox[x]
  PROVE  Tuned(x)'
  <1>1. \A k \in conns[x] : k.st = "live"
    BY SettledIsQuiet
  <1>2. pc[x] = "running" => Hears(x, Broadcast)
    BY <1>1 DEF Tuned, Starting, Asked, Hears
  <1>3. QED
    BY <1>2 DEF Tuned, Hears

LEMMA TunedStep ==
  ASSUME Patient, TypeOK, Begun, RegistryInv, SettleInv, [Next]_vars, NEW x \in Client
  PROVE  Tuned(x)'
  <1> USE DEF Before, Starting, Stopping
  <1>0. Orderly /\ OneActor /\ MailIsTruthful /\ Tuned(x) /\ Lonely(x)
    BY DEF Patient, SettleInv
  <1>1. ASSUME NEW c \in Client, Launch(c) PROVE Tuned(x)'
    <2>1. pc[c] = "down" /\ UNCHANGED <<conns, wire, inbox>>
          /\ \A y \in Client : y # c => pc'[y] = pc[y]
      BY <1>1 DEF Launch, TypeOK
    <2>2. CASE x = c
      <3>1. pc'[x] \in {"cleanGet", "idle"} /\ conns[x] = {} /\ inbox[x] = <<>>
        BY <1>0, <1>1, <2>1, <2>2 DEF Launch, Tuned, TypeOK
      <3>2. QED
        BY <2>1, <3>1 DEF Tuned
    <2>3. CASE x # c
      BY <1>0, <2>1, <2>3, TunedKept
    <2>4. QED
      BY <2>2, <2>3
  <1>2. ASSUME NEW c \in Client, Start(c) PROVE Tuned(x)'
    <2>1. CASE x = c
      <3>1. conns[x] = {}
        <4>1. \A k \in conns[x] : Leaving(k)
          BY <1>0, <1>2, <2>1, StartMoves DEF Tuned
        <4>2. \A k \in conns[x] : k.st = "live"
          BY <1>0, <1>2, BeginsSettled, SettledIsQuiet, StartMoves
        <4>3. QED
          BY <4>1, <4>2 DEF Leaving
      <3>2. pc'[x] = "bootGet" /\ Asked(conns'[x], Broadcast) /\ \A k \in conns'[x] : ~Leaving(k)
        BY <1>0, <1>2, <2>1, <3>1, StartMoves DEF TypeOK
      <3>3. QED
        BY <3>2 DEF Tuned
    <2>2. CASE x # c
      <3>1. pc'[x] = pc[x] /\ conns'[x] = conns[x] /\ inbox'[x] = inbox[x] /\ Settled
        BY <1>0, <1>2, <2>2, StartMoves, BeginsSettled DEF TypeOK
      <3>2. QED
        BY <1>0, <3>1, TunedWhenOthersBegin
    <2>3. QED
      BY <2>1, <2>2
  <1>3. ASSUME NEW c \in Client, Stop(c) PROVE Tuned(x)'
    <2>1. CASE x = c
      <3>1. pc'[x] = "stopGet" /\ \A k \in conns'[x] : Leaving(k)
        BY <1>3, <2>1, StopMoves DEF TypeOK
      <3>2. QED
        BY <3>1 DEF Tuned
    <2>2. CASE x # c
      <3>1. pc'[x] = pc[x] /\ conns'[x] = conns[x] /\ inbox'[x] = inbox[x] /\ Settled
        BY <1>3, <2>2, StopMoves, BeginsSettled DEF TypeOK
      <3>2. QED
        BY <1>0, <3>1, TunedWhenOthersBegin
    <2>3. QED
      BY <2>1, <2>2
  <1>4. ASSUME NEW c \in Client, Die(c) PROVE Tuned(x)'
    <2>1. CASE x = c
      <3>1. pc'[x] = "down" /\ conns'[x] = {} /\ inbox'[x] = <<>>
        BY <1>4, <2>1, DieLoses DEF TypeOK
      <3>2. QED
        BY <3>1 DEF Tuned
    <2>2. CASE x # c
      <3>1. pc'[x] = pc[x] /\ conns'[x] = conns[x] /\ inbox'[x] = inbox[x] /\ wire' \subseteq wire
        BY <1>4, <2>2, DieLoses DEF TypeOK
      <3>2. QED
        BY <1>0, <3>1, TunedKept
    <2>3. QED
      BY <2>1, <2>2
  <1>5. ASSUME NEW c \in Client, Progress(c) PROVE Tuned(x)'
    <2>1. CASE x = c
      <3>1. PICK s \in PC : <<pc[x], s>> \in Moves /\ pc' = [pc EXCEPT ![x] = s]
        BY <1>0, <1>5, <2>1, ProgressMoves
      <3>2. /\ UNCHANGED <<wire, inbox>> /\ conns[x] \subseteq conns'[x]
            /\ \A k \in conns'[x] : k \in conns[x] \/ ~Leaving(k)
            /\ pc[x] # "bootSub" => conns'[x] = conns[x]
        BY <1>0, <1>5, <2>1, ProgressMoves, ProgressConns
      <3>3. pc'[x] = s
        BY <3>1 DEF TypeOK
      <3>4. Acts(x)
        BY <3>1 DEF Acts, Resting, Moves
      <3>5. \A m \in wire : m.from.client = x
        BY <1>0, <3>4, ActorsMail DEF TypeOK, Reaches
      <3>6. CASE pc[x] \in Before
        BY <1>0, <3>1, <3>2, <3>3, <3>6 DEF Moves, Tuned
      <3>7. CASE pc[x] \in {"bootGet", "bootPut", "bootSub"}
        <4>1. s \in Starting
          BY <3>1, <3>7 DEF Moves
        <4>2. Asked(conns'[x], Broadcast) /\ \A k \in conns'[x] : ~Leaving(k)
          BY <1>0, <3>2, <3>7 DEF Tuned, Asked
        <4>3. QED
          BY <3>2, <3>3, <3>5, <4>1, <4>2 DEF Tuned
      <3>8. CASE pc[x] \in {"stopGet", "stopPut"}
        BY <1>0, <3>1, <3>2, <3>3, <3>8 DEF Moves, Tuned
      <3>9. QED
        BY <3>1, <3>6, <3>7, <3>8 DEF Moves
    <2>2. CASE x # c
      <3>1. pc'[x] = pc[x] /\ conns'[x] = conns[x] /\ inbox'[x] = inbox[x] /\ wire' = wire
        BY <1>0, <1>5, <2>2, ProgressMoves DEF TypeOK
      <3>2. QED
        BY <1>0, <3>1, TunedKept
    <2>3. QED
      BY <2>1, <2>2
  <1>6. ASSUME NEW c \in Client, Handle(c) PROVE Tuned(x)'
    <2>1. PICK m \in Message : m = Head(inbox[c]) /\ In(m, inbox[c])
      BY <1>6, HandleTakesOne
    <2>2. /\ UNCHANGED <<pc, wire>> /\ conns[x] \subseteq conns'[x]
          /\ \A k \in conns'[x] : k \in conns[x] \/ (~Leaving(k) /\ x = c /\ m.from.client # c)
          /\ inbox[x] = <<>> => inbox'[x] = <<>>
      BY <1>0, <1>6, <2>1, HandleTakesOne, HandleMoves
    <2>3. pc[x] \in Before => conns'[x] = {}
      <3>1. pc[x] \in Before => x # c
        BY <1>0, <2>1, NothingInEmpty DEF Tuned
      <3>2. QED
        BY <1>0, <2>2, <3>1 DEF Tuned
    <2>4. pc[x] \in Stopping => \A k \in conns'[x] : Leaving(k)
      <3>1. pc[x] \in Stopping /\ x = c => m.from.client = c
        <4>1. CASE pc[x] = "idle"
          BY <1>0, <2>1, <4>1 DEF Lonely
        <4>2. CASE pc[x] \in {"stopGet", "stopPut"}
          <5>1. Acts(x)
            BY <4>2 DEF Acts, Resting
          <5>2. QED
            BY <1>0, <2>1, <5>1, ActorsMail DEF Reaches
        <4>3. QED
          BY <4>1, <4>2
      <3>2. QED
        BY <1>0, <2>2, <3>1 DEF Tuned
    <2>5. QED
      BY <1>0, <2>2, <2>3, <2>4 DEF Tuned, Asked, Hears
  <1>7. ASSUME NEW n \in wire, ServerPublish(n) PROVE Tuned(x)'
    <2>1. UNCHANGED <<pc, conns>> /\ wire' \subseteq wire
      BY <1>7 DEF ServerPublish
    <2>2. pc[x] \in Before => inbox'[x] = inbox[x]
      BY <1>0, <1>7, PublishSpreads DEF Tuned, Hears
    <2>3. QED
      BY <1>0, <2>1, <2>2 DEF Tuned, Hears
  <1>8. ASSUME NEW c \in Client, NEW k \in conns[c], ServerSubscribe(c, k) PROVE Tuned(x)'
    <2>1. UNCHANGED <<pc, wire, inbox>>
      BY <1>8 DEF ServerSubscribe
    <2>2. CASE x = c
      BY <1>0, <1>8, <2>1, <2>2, SubscribeMoves DEF Tuned
    <2>3. CASE x # c
      BY <1>0, <1>8, <2>1, <2>3, SubscribeMoves, TunedKept
    <2>4. QED
      BY <2>2, <2>3
  <1>9. ASSUME NEW c \in Client, NEW k \in conns[c], ServerUnsubscribe(c, k) PROVE Tuned(x)'
    <2>1. UNCHANGED <<pc, wire, inbox>>
      BY <1>9 DEF ServerUnsubscribe
    <2>2. CASE x = c
      <3>1. pc[x] \notin Starting /\ conns'[x] \subseteq conns[x]
        BY <1>0, <1>9, <2>2, UnsubscribeMoves DEF Tuned
      <3>2. QED
        BY <1>0, <2>1, <3>1 DEF Tuned
    <2>3. CASE x # c
      BY <1>0, <1>9, <2>1, <2>3, UnsubscribeMoves, TunedKept
    <2>4. QED
      BY <2>2, <2>3
  <1>10. CASE UNCHANGED vars
    BY <1>0, <1>10, TunedKept DEF vars
  <1>11. QED
    BY <1>1, <1>2, <1>3, <1>4, <1>5, <1>6, <1>7, <1>8, <1>9, <1>10
    DEF Next, User, Server, ServerConn

(***************************************************************************)
(* Outside the session.                                                    *)
(***************************************************************************)

LEMMA LonelyKept ==
  ASSUME NEW x \in Client, Lonely(x), pc'[x] = pc[x],
         peers[x] = {} => peers'[x] = {},
         pc[x] = "idle" => \A m \in Message : In(m, inbox'[x]) => In(m, inbox[x]) \/ m.from.client = x
  PROVE  Lonely(x)'
  BY DEF Lonely

LEMMA LonelyStep ==
  ASSUME Patient, TypeOK, Begun, RegistryInv, SettleInv, [Next]_vars, NEW x \in Client
  PROVE  Lonely(x)'
  <1> USE DEF Before
  <1>0. Orderly /\ OneActor /\ Tuned(x) /\ Lonely(x)
    BY DEF Patient, SettleInv
  <1>1. ASSUME NEW c \in Client, Launch(c) PROVE Lonely(x)'
    <2>1. CASE x = c
      <3>1. peers'[x] = {} /\ inbox'[x] = <<>>
        BY <1>0, <1>1, <2>1 DEF Launch, Tuned, Lonely
      <3>2. QED
        BY <3>1, NothingInEmpty DEF Lonely
    <2>2. CASE x # c
      BY <1>0, <1>1, <2>2, LonelyKept DEF Launch, TypeOK
    <2>3. QED
      BY <2>1, <2>2
  <1>2. ASSUME NEW c \in Client, Start(c) PROVE Lonely(x)'
    <2>1. CASE x = c
      <3>1. pc'[x] = "bootGet"
        BY <1>0, <1>2, <2>1, StartMoves DEF TypeOK
      <3>2. QED
        BY <3>1 DEF Lonely
    <2>2. CASE x # c
      <3>1. pc'[x] = pc[x] /\ peers'[x] = peers[x] /\ inbox'[x] = inbox[x]
        BY <1>0, <1>2, <2>2, StartMoves DEF TypeOK
      <3>2. QED
        BY <1>0, <3>1, LonelyKept
    <2>3. QED
      BY <2>1, <2>2
  <1>3. ASSUME NEW c \in Client, Stop(c) PROVE Lonely(x)'
    <2>1. CASE x = c
      <3>1. pc'[x] = "stopGet"
        BY <1>3, <2>1, StopMoves DEF TypeOK
      <3>2. QED
        BY <3>1 DEF Lonely
    <2>2. CASE x # c
      <3>1. pc'[x] = pc[x] /\ peers'[x] = peers[x] /\ inbox'[x] = inbox[x]
        BY <1>3, <2>2, StopMoves DEF TypeOK
      <3>2. QED
        BY <1>0, <3>1, LonelyKept
    <2>3. QED
      BY <2>1, <2>2
  <1>4. ASSUME NEW c \in Client, Die(c) PROVE Lonely(x)'
    <2>1. CASE x = c
      <3>1. pc'[x] = "down" /\ peers'[x] = {}
        BY <1>4, <2>1, DieLoses DEF TypeOK
      <3>2. QED
        BY <3>1 DEF Lonely
    <2>2. CASE x # c
      BY <1>0, <1>4, <2>2, DieLoses, LonelyKept DEF TypeOK
    <2>3. QED
      BY <2>1, <2>2
  <1>5. ASSUME NEW c \in Client, Progress(c) PROVE Lonely(x)'
    <2>1. CASE x = c
      <3>1. PICK s \in PC : <<pc[x], s>> \in Moves /\ pc' = [pc EXCEPT ![x] = s]
        BY <1>0, <1>5, <2>1, ProgressMoves
      <3>2. inbox' = inbox
        BY <1>0, <1>5, ProgressMoves
      <3>3. pc'[x] = s
        BY <3>1 DEF TypeOK
      <3>4. Acts(x)
        BY <3>1 DEF Acts, Resting, Moves
      <3>5. \A m \in Message : In(m, inbox'[x]) => m.from.client = x
        BY <1>0, <3>2, <3>4, ActorsMail DEF Reaches
      <3>6. s \in Before \cup {"idle"} => peers'[x] = {}
        <4>1. s \in Before \cup {"idle"} => pc[x] \in {"cleanGet", "cleanPut", "stopPut"}
          BY <3>1 DEF Moves
        <4>2. QED
          BY <1>0, <1>5, <2>1, <4>1, ProgressPeers DEF Lonely
      <3>7. QED
        BY <3>3, <3>5, <3>6 DEF Lonely
    <2>2. CASE x # c
      <3>1. pc'[x] = pc[x] /\ peers'[x] = peers[x] /\ inbox'[x] = inbox[x]
        BY <1>0, <1>5, <2>2, ProgressMoves DEF TypeOK
      <3>2. QED
        BY <1>0, <3>1, LonelyKept
    <2>3. QED
      BY <2>1, <2>2
  <1>6. ASSUME NEW c \in Client, Handle(c) PROVE Lonely(x)'
    <2>1. PICK m \in Message : m = Head(inbox[c]) /\ In(m, inbox[c])
      BY <1>6, HandleTakesOne
    <2>2. /\ pc' = pc /\ \A n \in Message : In(n, inbox'[x]) => In(n, inbox[x])
          /\ x # c => peers'[x] = peers[x]
      BY <1>0, <1>6, <2>1, HandleTakesOne, HandleMoves
    <2>3. pc[x] \in Before \cup {"idle"} /\ x = c => peers'[x] = peers[x]
      <3>1. CASE pc[x] = "idle"
        BY <1>0, <1>6, <2>1, <3>1, HandleMoves DEF Lonely
      <3>2. CASE pc[x] \in Before
        BY <1>0, <2>1, <3>2, NothingInEmpty DEF Tuned
      <3>3. QED
        BY <3>1, <3>2
    <2>4. QED
      BY <1>0, <2>2, <2>3 DEF Lonely
  <1>7. ASSUME NEW n \in wire, ServerPublish(n) PROVE Lonely(x)'
    <2>1. UNCHANGED <<pc, peers>>
      BY <1>7 DEF ServerPublish
    <2>2. pc[x] = "idle" /\ Hears(x, Broadcast) => n.from.client = x
      <3>1. pc[x] = "idle" /\ Hears(x, Broadcast) => Acts(x)
        BY <1>0 DEF Tuned, Stopping, Hears, Acts
      <3>2. n \in Message /\ Reaches(n, x)
        BY DEF TypeOK, Reaches
      <3>3. QED
        BY <1>0, <3>1, <3>2, ActorsMail
    <2>3. QED
      BY <1>0, <1>7, <2>1, <2>2, PublishSpreads, LonelyKept
  <1>8. ASSUME UNCHANGED <<pc, peers, inbox>> PROVE Lonely(x)'
    BY <1>0, <1>8, LonelyKept
  <1>9. QED
    BY <1>1, <1>2, <1>3, <1>4, <1>5, <1>6, <1>7, <1>8
    DEF Next, User, Server, ServerConn, ServerSubscribe, ServerUnsubscribe, vars

(***************************************************************************)
(* Who comes is met.                                                       *)
(***************************************************************************)

LEMMA AskedMore ==
  ASSUME NEW ks, NEW ls, ks \subseteq ls, NEW ch, Asked(ks, ch)
  PROVE  Asked(ls, ch)
  BY DEF Asked

LEMMA AwareKept ==
  ASSUME NEW c \in Client, NEW d \in Client, Aware(c, d), peers[c] \subseteq peers'[c],
         launch'[d] = launch[d], \A ch : Asked(conns[c], ch) => Asked(conns'[c], ch)
  PROVE  Aware(c, d)'
  BY DEF Aware

LEMMA ToldKept ==
  ASSUME NEW c \in Client, NEW d \in Client, NEW kind, Told(c, kind, d),
         \A m \in Message : /\ m.kind = kind /\ m.from.client = d /\ Reaches(m, c)
                            => Reaches(m, c)'
  PROVE  Told(c, kind, d)'
  BY DEF Told

LEMMA MeetsStep ==
  ASSUME Patient, TypeOK, Begun, RegistryInv, SettleInv, [Next]_vars,
         NEW c \in Client, NEW d \in Client, c # d
  PROVE  Meets(c, d)'
  <1> USE DEF Starting
  <1>0. /\ Orderly /\ OneActor /\ MailIsTruthful /\ Meets(c, d)
        /\ Tuned(c) /\ Tuned(d)
    BY DEF Patient, SettleInv
  <1>1. ASSUME NEW x \in Client, Launch(x) PROVE Meets(c, d)'
    <2>1. /\ UNCHANGED <<stay, peers, conns, wire, inbox>> /\ pc'[x] \in {"cleanGet", "idle"}
          /\ \A y \in Client : y # x => pc'[y] = pc[y] /\ launch'[y] = launch[y]
      BY <1>1 DEF Launch, TypeOK
    <2>2. CASE x \in {c, d}
      BY <2>1, <2>2 DEF Meets
    <2>3. CASE x \notin {c, d}
      BY <1>0, <2>1, <2>3 DEF Meets, Aware, Told, Reaches, Me
    <2>4. QED
      BY <2>2, <2>3
  <1>2. ASSUME NEW x \in Client, Start(x) PROVE Meets(c, d)'
    <2>1. PICK n \in Message : /\ n.kind = "HELLO" /\ n.from.client = x
                               /\ wire' = wire \cup {n}
      BY <1>0, <1>2, StartMoves
    <2>2. /\ UNCHANGED <<launch, peers, inbox>> /\ pc'[x] = "bootGet"
          /\ \A y \in Client : y # x => pc'[y] = pc[y] /\ conns'[y] = conns[y] /\ Me(y)' = Me(y)
      BY <1>0, <1>2, StartMoves DEF TypeOK
    <2>3. CASE x = c
      BY <2>2, <2>3 DEF Meets
    <2>4. CASE x = d
      <3>1. Told(c, "HELLO", d)'
        BY <2>1, <2>4 DEF Told, Reaches
      <3>2. QED
        BY <2>2, <2>4, <3>1 DEF Meets
    <2>5. CASE x \notin {c, d}
      <3>1. Told(c, "HELLO", d) => Told(c, "HELLO", d)'
        BY <2>1, <2>2, ToldKept DEF Reaches
      <3>2. Aware(c, d) => Aware(c, d)'
        BY <2>2, <2>5, AwareKept
      <3>3. pc'[c] = pc[c] /\ pc'[d] = pc[d] /\ Me(d)' = Me(d) /\ peers' = peers
        BY <2>2, <2>5
      <3>4. QED
        BY <1>0, <3>1, <3>2, <3>3 DEF Meets
    <2>6. QED
      BY <2>3, <2>4, <2>5
  <1>3. ASSUME NEW x \in Client, Stop(x) PROVE Meets(c, d)'
    <2>1. PICK n \in Message : wire' = wire \cup {n}
      BY <1>3, StopMoves
    <2>2. /\ UNCHANGED <<launch, stay, peers, inbox>> /\ pc'[x] = "stopGet"
          /\ \A y \in Client : y # x => pc'[y] = pc[y] /\ conns'[y] = conns[y]
      BY <1>3, StopMoves DEF TypeOK
    <2>3. CASE x \in {c, d}
      BY <2>2, <2>3 DEF Meets
    <2>4. CASE x \notin {c, d}
      <3>1. Told(c, "HELLO", d) => Told(c, "HELLO", d)'
        BY <2>1, <2>2, ToldKept DEF Reaches
      <3>2. Aware(c, d) => Aware(c, d)'
        BY <2>2, <2>4, AwareKept
      <3>3. pc'[c] = pc[c] /\ pc'[d] = pc[d] /\ Me(d)' = Me(d) /\ peers' = peers
        BY <2>2, <2>4 DEF Me
      <3>4. QED
        BY <1>0, <3>1, <3>2, <3>3 DEF Meets
    <2>5. QED
      BY <2>3, <2>4
  <1>4. ASSUME NEW x \in Client, Die(x) PROVE Meets(c, d)'
    <2>1. CASE x \in {c, d}
      <3>1. pc'[x] = "down"
        BY <1>4, DieLoses DEF TypeOK
      <3>2. QED
        BY <2>1, <3>1 DEF Meets
    <2>2. CASE x \notin {c, d}
      <3>1. /\ UNCHANGED <<launch, stay>> /\ pc'[c] = pc[c] /\ pc'[d] = pc[d]
            /\ peers'[c] = peers[c] /\ conns'[c] = conns[c] /\ inbox'[c] = inbox[c]
            /\ \A m \in wire : m \in wire' \/ m.from.client = x
        BY <1>4, <2>2, DieLoses DEF TypeOK
      <3>2. Told(c, "HELLO", d) => Told(c, "HELLO", d)'
        BY <2>2, <3>1, ToldKept DEF Reaches
      <3>3. Aware(c, d) => Aware(c, d)'
        BY <3>1, AwareKept
      <3>4. Me(d)' = Me(d)
        BY <3>1 DEF Me
      <3>5. QED
        BY <1>0, <3>1, <3>2, <3>3, <3>4 DEF Meets
    <2>3. QED
      BY <2>1, <2>2
  <1>5. ASSUME NEW x \in Client, Progress(x) PROVE Meets(c, d)'
    <2>1. PICK s \in PC : <<pc[x], s>> \in Moves /\ pc' = [pc EXCEPT ![x] = s]
      BY <1>0, <1>5, ProgressMoves
    <2>2. /\ UNCHANGED <<launch, stay, wire, inbox>>
          /\ \A y \in Client \ {x} : peers'[y] = peers[y] /\ conns'[y] = conns[y]
      BY <1>0, <1>5, ProgressMoves
    <2>3. pc'[x] = s /\ \A y \in Client : y # x => pc'[y] = pc[y]
      BY <2>1 DEF TypeOK
    <2>4. Told(c, "HELLO", d) => Told(c, "HELLO", d)'
      BY <2>2 DEF Told, Reaches
    <2>5. Me(d)' = Me(d)
      BY <2>2 DEF Me
    <2>6. \A y \in Client : y # x => pc[y] \in Resting
      <3>1. Acts(x)
        BY <2>1 DEF Acts, Moves, Resting
      <3>2. QED
        BY <1>0, <3>1 DEF OneActor, Acts
    <2>7. CASE x \notin {c, d}
      BY <1>0, <2>2, <2>3, <2>4, <2>5, <2>7, AwareKept DEF Meets
    <2>8. CASE x = d
      <3>1. Aware(c, d) => Aware(c, d)'
        BY <2>2, <2>8, AwareKept
      <3>2. s \in Starting => pc[d] \in Starting
        BY <2>1, <2>8 DEF Moves
      <3>3. pc[c] = pc'[c] /\ pc[c] \notin {"bootPut", "bootSub"}
        BY <2>3, <2>6, <2>8 DEF Resting
      <3>4. QED
        BY <1>0, <2>3, <2>4, <2>8, <3>1, <3>2, <3>3 DEF Meets
    <2>9. CASE x = c
      <3>1. pc'[c] = s /\ pc'[d] = pc[d] /\ pc[d] \in Resting
        BY <2>3, <2>6, <2>9
      <3>2. CASE pc[c] = "bootGet" /\ pc[d] = "running"
        <4>1. Me(d) \in Listed
          BY <3>2 DEF RegistryInv, SelfListed, InSession
        <4>2. Me(d)' \in peers'[c]
          BY <1>0, <1>5, <2>5, <2>9, <3>2, <4>1, ProgressPeers
        <4>3. s = "bootPut"
          BY <2>1, <2>9, <3>2 DEF Moves
        <4>4. QED
          BY <3>1, <4>2, <4>3 DEF Meets
      <3>3. CASE pc[c] = "bootPut" /\ pc[d] = "running"
        <4>1. Me(d) \in peers[c] /\ peers'[c] = peers[c]
          BY <1>0, <1>5, <2>9, <3>3, ProgressPeers DEF Meets
        <4>2. s = "bootSub"
          BY <2>1, <2>9, <3>3 DEF Moves
        <4>3. QED
          BY <2>5, <3>1, <4>1, <4>2 DEF Meets
      <3>4. CASE pc[c] = "bootSub" /\ pc[d] = "running"
        <4>1. Me(d) \in peers[c] /\ peers'[c] = peers[c]
          BY <1>0, <1>5, <2>9, <3>4, ProgressPeers DEF Meets
        <4>2. Asked(conns'[c], PeerChannel(Me(d)))
          BY <1>5, <2>9, <3>4, <4>1, ProgressConns
        <4>3. Me(d).client = d /\ PeerChannel(Me(d)) = <<d, launch'[d]>>
          BY <2>2 DEF Me, PeerChannel
        <4>4. Aware(c, d)'
          BY <4>1, <4>2, <4>3 DEF Aware
        <4>5. s = "running"
          BY <2>1, <2>9, <3>4 DEF Moves
        <4>6. QED
          BY <3>1, <4>4, <4>5 DEF Meets
      <3>5. CASE s \notin {"bootPut", "bootSub", "running"} \/ pc[d] # "running"
        BY <3>1, <3>5 DEF Meets, Resting
      <3>6. QED
        BY <2>1, <2>9, <3>2, <3>3, <3>4, <3>5 DEF Moves
    <2>10. QED
      BY <2>7, <2>8, <2>9
  <1>6. ASSUME NEW x \in Client, Handle(x) PROVE Meets(c, d)'
    <2>1. PICK m \in Message : m = Head(inbox[x]) /\ In(m, inbox[x])
      BY <1>6, HandleTakesOne
    <2>2. UNCHANGED <<pc, launch, stay, wire>> /\ Me(d)' = Me(d)
      BY <1>0, <1>6, <2>1, HandleTakesOne, HandleMoves DEF Me
    <2>3. CASE x # c
      <3>1. peers'[c] = peers[c] /\ conns'[c] = conns[c]
        BY <1>0, <1>6, <2>1, <2>3, HandleMoves
      <3>2. \A n \in Message : In(n, inbox[c]) => In(n, inbox'[c])
        BY <1>6, <2>3, HandleTakesOne
      <3>3. Told(c, "HELLO", d) => Told(c, "HELLO", d)'
        BY <2>2, <3>2, ToldKept DEF Reaches
      <3>4. QED
        BY <1>0, <2>2, <3>1, <3>3, AwareKept DEF Meets
    <2>4. CASE x = c
      <3>1. conns[c] \subseteq conns'[c]
        BY <1>0, <1>6, <2>1, <2>4, HandleMoves
      <3>2. m.kind = "HELLO" \/ m.from.client = c => peers[c] \subseteq peers'[c]
        BY <1>0, <1>6, <2>1, <2>4, HandleMoves
      <3>3. m.kind = "GOODBYE" /\ m.from.client # c =>
              peers'[c] = {p \in peers[c] : p.client # m.from.client}
        BY <1>0, <1>6, <2>1, <2>4, HandleMoves
      <3>4. Truthful(m) /\ m.kind \in {"HELLO", "GOODBYE"}
        BY <1>0, <2>1, <2>4 DEF MailIsTruthful, Flying, Reaches, Message
      <3>5. ASSUME pc[c] = "running", pc[d] \in Starting PROVE Aware(c, d)' \/ Told(c, "HELLO", d)'
        <4>1. CASE Aware(c, d)
          <5>1. \E p \in peers'[c] : p.client = d
            <6>1. PICK p \in peers[c] : p.client = d
              BY <4>1 DEF Aware
            <6>2. m.kind = "GOODBYE" => m.from.client # d
              BY <3>4, <3>5 DEF Truthful, Stopping
            <6>3. p \in peers'[c]
              BY <3>2, <3>3, <3>4, <6>1, <6>2
            <6>4. QED
              BY <6>1, <6>3
          <5>2. Asked(conns'[c], <<d, launch[d]>>)
            BY <3>1, <4>1, AskedMore DEF Aware
          <5>3. QED
            BY <2>2, <5>1, <5>2 DEF Aware
        <4>2. CASE Told(c, "HELLO", d) /\ ~(m.kind = "HELLO" /\ m.from.client = d)
          <5>1. \A n \in Message : n # m /\ In(n, inbox[c]) => In(n, inbox'[c])
            BY <1>6, <2>1, <2>4, HandleTakesOne
          <5>2. Told(c, "HELLO", d)'
            BY <2>2, <4>2, <5>1, ToldKept DEF Reaches
          <5>3. QED
            BY <5>2
        <4>3. CASE m.kind = "HELLO" /\ m.from.client = d
          <5>1. (\E p \in peers'[c] : p.client = d) /\ Asked(conns'[c], PeerChannel(m.from))
            BY <1>0, <1>6, <2>1, <2>4, <4>3, HandleMoves
          <5>2. m.from = Me(d)
            BY <3>4, <3>5, <4>3 DEF Truthful
          <5>3. PeerChannel(m.from) = <<d, launch'[d]>>
            BY <2>2, <5>2 DEF PeerChannel, Me
          <5>4. QED
            BY <5>1, <5>3 DEF Aware
        <4>4. QED
          BY <1>0, <3>5, <4>1, <4>2, <4>3 DEF Meets
      <3>6. ASSUME pc[c] \in {"bootPut", "bootSub"}, pc[d] = "running" PROVE Me(d) \in peers'[c]
        <4>1. Acts(c)
          BY <3>6 DEF Acts, Resting
        <4>2. m.from.client = c
          BY <1>0, <2>1, <2>4, <4>1, ActorsMail DEF Reaches
        <4>3. QED
          BY <1>0, <3>2, <3>6, <4>2 DEF Meets
      <3>7. QED
        BY <2>2, <3>5, <3>6 DEF Meets
    <2>5. QED
      BY <2>3, <2>4
  <1>7. ASSUME NEW n \in wire, ServerPublish(n) PROVE Meets(c, d)'
    <2>1. UNCHANGED <<pc, launch, stay, peers, conns>> /\ Me(d)' = Me(d)
      BY <1>7 DEF ServerPublish, Me
    <2>2. pc[c] = "running" /\ Told(c, "HELLO", d) => Told(c, "HELLO", d)'
      <3>1. ASSUME pc[c] = "running", NEW m \in Message, m.from.client = d, Reaches(m, c)
            PROVE  Reaches(m, c)'
        <4>1. m = n => Hears(c, Broadcast)
          BY <1>0, <3>1 DEF Tuned
        <4>2. QED
          BY <1>7, <3>1, <4>1, PublishSpreads DEF Reaches
      <3>2. QED
        BY <3>1, ToldKept
    <2>3. QED
      BY <1>0, <2>1, <2>2, AwareKept DEF Meets
  <1>8. ASSUME NEW x \in Client, NEW k \in conns[x], ServerSubscribe(x, k) \/ ServerUnsubscribe(x, k)
        PROVE  Meets(c, d)'
    <2>1. UNCHANGED <<pc, launch, stay, peers, wire, inbox>> /\ Me(d)' = Me(d)
      BY <1>8 DEF ServerSubscribe, ServerUnsubscribe, Me
    <2>2. \A ch : Asked(conns[c], ch) => Asked(conns'[c], ch)
      <3>1. CASE x = c
        BY <1>8, <3>1, SubscribeMoves, UnsubscribeMoves
      <3>2. CASE x # c
        <4>1. conns'[c] = conns[c]
          BY <1>8, <3>2, SubscribeMoves, UnsubscribeMoves
        <4>2. QED
          BY <4>1
      <3>3. QED
        BY <3>1, <3>2
    <2>3. Aware(c, d) => Aware(c, d)'
      BY <2>1, <2>2, AwareKept
    <2>4. Told(c, "HELLO", d) => Told(c, "HELLO", d)'
      BY <2>1 DEF Told, Reaches
    <2>5. QED
      BY <1>0, <2>1, <2>3, <2>4 DEF Meets
  <1>9. CASE UNCHANGED vars
    BY <1>0, <1>9 DEF vars, Meets, Aware, Told, Reaches, Me
  <1>10. QED
    BY <1>1, <1>2, <1>3, <1>4, <1>5, <1>6, <1>7, <1>8, <1>9
    DEF Next, User, Server, ServerConn

(***************************************************************************)
(* Who goes is forgotten.                                                  *)
(***************************************************************************)
Gone == Stopping \cup {"cleanGet", "cleanPut"}

\* A step that shows c no new peer of d's present launch unless d is coming.
LEMMA ForgetsKept ==
  ASSUME NEW c \in Client, NEW d \in Client, Forgets(c, d), TypeOK',
         launch'[d] = launch[d],
         \A p \in peers'[c] : p.client = d /\ p \notin peers[c] =>
           /\ p.launch <= launch[d]
           /\ p.launch = launch[d] => pc'[d] \notin Gone,
         pc'[d] \in Gone => pc[d] \in Gone,
         \A p \in peers'[c] :
           p.client = d /\ pc[c] = "running" /\ Told(c, "GOODBYE", d)
             => pc'[c] = "running" /\ Told(c, "GOODBYE", d)'
  PROVE  Forgets(c, d)'
  BY DEF Forgets, Gone

LEMMA ForgetsStep ==
  ASSUME Patient, TypeOK, TypeOK', Begun, RegistryInv, SettleInv, [Next]_vars,
         NEW c \in Client, NEW d \in Client, c # d
  PROVE  Forgets(c, d)'
  <1> USE DEF Starting, Stopping, Gone
  <1>0. /\ Orderly /\ OneActor /\ MailIsTruthful /\ Forgets(c, d)
        /\ Tuned(c) /\ Lonely(c)
    BY DEF Patient, SettleInv
  <1>1. ASSUME NEW x \in Client, Launch(x) PROVE Forgets(c, d)'
    <2>1. /\ UNCHANGED <<peers, wire, inbox>> /\ pc[x] = "down"
          /\ \A y \in Client : y # x => pc'[y] = pc[y] /\ launch'[y] = launch[y]
          /\ launch[x] \in Nat /\ launch'[x] = launch[x] + 1
      BY <1>1 DEF Launch, TypeOK
    <2>2. CASE x = c
      <3>1. peers'[c] = {}
        BY <1>0, <2>1, <2>2 DEF Lonely, Before
      <3>2. QED
        BY <3>1 DEF Forgets
    <2>3. CASE x = d
      <3>1. \A p \in peers[c] : p.launch \in Nat
        <4>1. \A p \in peers[c] : p \in Entry
          BY DEF TypeOK
        <4>2. QED
          BY <4>1 DEF Entry
      <3>2. \A p \in peers[c] : p.client = d => p.launch < launch'[d]
        BY <1>0, <2>1, <2>3, <3>1 DEF Forgets
      <3>3. QED
        BY <2>1, <2>3, <3>1, <3>2 DEF Forgets
    <2>4. CASE x \notin {c, d}
      BY <1>0, <2>1, <2>4 DEF Forgets, Told, Reaches
    <2>5. QED
      BY <2>2, <2>3, <2>4
  <1>2. ASSUME NEW x \in Client, Start(x) PROVE Forgets(c, d)'
    <2>1. PICK n \in Message : wire' = wire \cup {n}
      BY <1>0, <1>2, StartMoves
    <2>2. /\ UNCHANGED <<launch, peers, inbox>> /\ pc'[x] = "bootGet" /\ pc[x] = "idle"
          /\ \A y \in Client : y # x => pc'[y] = pc[y]
      <3>1. pc' = [pc EXCEPT ![x] = "bootGet"]
        BY <1>0, <1>2, StartMoves
      <3>2. pc'[x] = "bootGet" /\ \A y \in Client : y # x => pc'[y] = pc[y]
        BY <3>1 DEF TypeOK
      <3>3. QED
        BY <1>0, <1>2, <3>2, StartMoves
    <2>3. CASE x = c
      <3>1. peers'[c] = {}
        BY <1>0, <2>2, <2>3 DEF Lonely
      <3>2. QED
        BY <3>1 DEF Forgets
    <2>4. CASE x # c
      <3>1. Told(c, "GOODBYE", d) => Told(c, "GOODBYE", d)'
        BY <2>1, <2>2, ToldKept DEF Reaches
      <3>2. pc'[c] = pc[c] /\ (pc'[d] \in Gone => pc[d] \in Gone)
        BY <2>2, <2>4
      <3>3. QED
        BY <1>0, <2>2, <3>1, <3>2, ForgetsKept
    <2>5. QED
      BY <2>3, <2>4
  <1>3. ASSUME NEW x \in Client, Stop(x) PROVE Forgets(c, d)'
    <2>1. PICK n \in Message : /\ n.kind = "GOODBYE" /\ n.from.client = x
                               /\ wire' = wire \cup {n}
      BY <1>3, StopMoves
    <2>2. /\ UNCHANGED <<launch, peers, inbox>> /\ pc'[x] = "stopGet" /\ pc[x] = "running"
          /\ \A y \in Client : y # x => pc'[y] = pc[y]
      <3>1. pc' = [pc EXCEPT ![x] = "stopGet"]
        BY <1>3, StopMoves
      <3>2. pc'[x] = "stopGet" /\ \A y \in Client : y # x => pc'[y] = pc[y]
        BY <3>1 DEF TypeOK
      <3>3. QED
        BY <1>3, <3>2, StopMoves
    <2>3. Settled
      BY <1>3, BeginsSettled, StopMoves
    <2>4. ~Told(c, "GOODBYE", d) /\ pc[c] \in {"down", "idle", "running"}
      BY <2>3, SettledIsQuiet DEF Told, Settled
    <2>5. CASE x = d
      <3>1. Told(c, "GOODBYE", d)'
        BY <2>1, <2>5 DEF Told, Reaches
      <3>2. peers'[c] # {} => pc'[c] = "running"
        BY <1>0, <2>2, <2>4, <2>5 DEF Lonely, Before
      <3>3. \A p \in peers'[c] : p.client = d => p.launch <= launch'[d]
        BY <1>0, <2>2 DEF Forgets
      <3>4. QED
        BY <3>1, <3>2, <3>3 DEF Forgets
    <2>6. CASE x # d
      <3>1. pc'[d] = pc[d]
        BY <2>2, <2>6
      <3>2. QED
        BY <1>0, <2>2, <2>4, <3>1, ForgetsKept
    <2>7. QED
      BY <2>5, <2>6
  <1>4. ASSUME NEW x \in Client, Die(x) PROVE Forgets(c, d)'
    <2>1. CASE x = c
      <3>1. peers'[c] = {}
        BY <1>4, <2>1, DieLoses DEF TypeOK
      <3>2. QED
        BY <3>1 DEF Forgets
    <2>2. CASE x # c
      <3>1. /\ launch' = launch /\ pc'[c] = pc[c] /\ peers'[c] = peers[c] /\ inbox'[c] = inbox[c]
            /\ \A m \in wire : m \in wire' \/ m.from.client = x
            /\ pc'[d] = IF x = d THEN "down" ELSE pc[d]
        <4>1. pc' = [pc EXCEPT ![x] = "down"]
          BY <1>4, DieLoses
        <4>2. pc'[c] = pc[c] /\ pc'[d] = IF x = d THEN "down" ELSE pc[d]
          BY <2>2, <4>1 DEF TypeOK
        <4>3. peers'[c] = peers[c]
          <5>1. peers' = [peers EXCEPT ![x] = {}]
            BY <1>4, DieLoses
          <5>2. QED
            BY <2>2, <5>1 DEF TypeOK
        <4>4. QED
          BY <1>4, <2>2, <4>2, <4>3, DieLoses
      <3>2. CASE x = d
        <4>1. \A p \in peers'[c] : p.client = d => p.launch <= launch'[d]
          BY <1>0, <3>1 DEF Forgets
        <4>2. QED
          BY <3>1, <3>2, <4>1 DEF Forgets
      <3>3. CASE x # d
        <4>1. Told(c, "GOODBYE", d) => Told(c, "GOODBYE", d)'
          BY <3>1, <3>3, ToldKept DEF Reaches
        <4>2. QED
          BY <1>0, <3>1, <3>3, <4>1, ForgetsKept
      <3>4. QED
        BY <3>2, <3>3
    <2>3. QED
      BY <2>1, <2>2
  <1>5. ASSUME NEW x \in Client, Progress(x) PROVE Forgets(c, d)'
    <2>1. PICK s \in PC : <<pc[x], s>> \in Moves /\ pc' = [pc EXCEPT ![x] = s]
      BY <1>0, <1>5, ProgressMoves
    <2>2. /\ UNCHANGED <<launch, stay, wire, inbox>>
          /\ \A y \in Client \ {x} : peers'[y] = peers[y]
      BY <1>0, <1>5, ProgressMoves
    <2>3. pc'[x] = s /\ \A y \in Client : y # x => pc'[y] = pc[y]
      BY <2>1 DEF TypeOK
    <2>4. Told(c, "GOODBYE", d) => Told(c, "GOODBYE", d)'
      BY <2>2 DEF Told, Reaches
    <2>5. pc'[d] \in Gone => pc[d] \in Gone
      BY <2>1, <2>3 DEF Moves
    <2>6. CASE x # c
      <3>1. pc'[c] = pc[c] /\ peers'[c] = peers[c]
        BY <2>2, <2>3, <2>6
      <3>2. QED
        BY <1>0, <2>2, <2>4, <2>5, <3>1, ForgetsKept
    <2>7. CASE x = c
      <3>1. pc[c] # "running" /\ Acts(c)
        BY <2>1, <2>7 DEF Moves, Acts, Resting
      <3>2. \A p \in peers'[c] : p \in peers[c] \/ (pc[c] = "bootGet" /\ p \in Listed)
        BY <1>0, <1>5, <2>7, ProgressPeers
      <3>3. \A p \in Listed : p.client = d => p.launch <= launch[d]
        BY DEF RegistryInv
      <3>4. pc[d] \in Resting
        BY <1>0, <3>1 DEF OneActor, Acts
      <3>5. \A p \in Listed : p.client = d /\ p.launch = launch[d] => pc[d] \notin Gone
        <4>1. \A p \in Listed : p.client = d /\ p.launch = launch[d] /\ pc[d] # "down" => InSession(d)
          BY DEF RegistryInv, StoppedIsUnlisted
        <4>2. QED
          BY <3>4, <4>1 DEF InSession, Resting
      <3>6. \A p \in peers'[c] : p.client = d /\ p \notin peers[c] =>
              p.launch <= launch[d] /\ (p.launch = launch[d] => pc'[d] \notin Gone)
        BY <2>3, <2>7, <3>2, <3>3, <3>5
      <3>7. QED
        BY <1>0, <2>2, <2>5, <3>1, <3>6, ForgetsKept
    <2>8. QED
      BY <2>6, <2>7
  <1>6. ASSUME NEW x \in Client, Handle(x) PROVE Forgets(c, d)'
    <2>1. PICK m \in Message : m = Head(inbox[x]) /\ In(m, inbox[x])
      BY <1>6, HandleTakesOne
    <2>2. UNCHANGED <<pc, launch, wire>>
      BY <1>0, <1>6, <2>1, HandleTakesOne, HandleMoves
    <2>3. CASE x # c
      <3>1. peers'[c] = peers[c] /\ \A n \in Message : In(n, inbox[c]) => In(n, inbox'[c])
        BY <1>0, <1>6, <2>1, <2>3, HandleTakesOne, HandleMoves
      <3>2. Told(c, "GOODBYE", d) => Told(c, "GOODBYE", d)'
        BY <2>2, <3>1, ToldKept DEF Reaches
      <3>3. QED
        BY <1>0, <2>2, <3>1, <3>2, ForgetsKept
    <2>4. CASE x = c
      <3>1. m.kind = "HELLO" /\ m.from.client # c => \A p \in peers'[c] : p \in peers[c] \/ p = m.from
        BY <1>0, <1>6, <2>1, <2>4, HandleMoves
      <3>2. m.kind = "GOODBYE" /\ m.from.client # c =>
              peers'[c] = {p \in peers[c] : p.client # m.from.client}
        BY <1>0, <1>6, <2>1, <2>4, HandleMoves
      <3>3. m.from.client = c => peers'[c] = peers[c]
        BY <1>0, <1>6, <2>1, <2>4, HandleMoves
      <3>4. Truthful(m) /\ m.kind \in {"HELLO", "GOODBYE"}
        BY <1>0, <2>1, <2>4 DEF MailIsTruthful, Flying, Reaches, Message
      <3>5. \A p \in peers'[c] : p.client = d /\ p \notin peers[c] =>
              p.launch <= launch[d] /\ pc[d] \notin Gone
        <4>1. m.kind = "HELLO" /\ m.from.client = d => m.from.launch <= launch[d] /\ pc[d] \notin Gone
          BY <3>4 DEF Truthful
        <4>2. QED
          BY <3>1, <3>2, <3>3, <3>4, <4>1
      <3>6. ASSUME NEW p \in peers'[c], p.client = d, Told(c, "GOODBYE", d)
            PROVE  Told(c, "GOODBYE", d)'
        <4>1. ~(m.kind = "GOODBYE" /\ m.from.client = d)
          BY <3>2, <3>6
        <4>2. \A n \in Message : n # m /\ In(n, inbox[c]) => In(n, inbox'[c])
          BY <1>6, <2>1, <2>4, HandleTakesOne
        <4>3. QED
          BY <2>2, <3>6, <4>1, <4>2, ToldKept DEF Reaches
      <3>7. QED
        BY <1>0, <2>2, <3>5, <3>6, ForgetsKept
    <2>5. QED
      BY <2>3, <2>4
  <1>7. ASSUME NEW n \in wire, ServerPublish(n) PROVE Forgets(c, d)'
    <2>1. UNCHANGED <<pc, launch, peers>>
      BY <1>7 DEF ServerPublish
    <2>2. pc[c] = "running" /\ Told(c, "GOODBYE", d) => Told(c, "GOODBYE", d)'
      <3>1. ASSUME pc[c] = "running", NEW m \in Message, m.from.client = d, Reaches(m, c)
            PROVE  Reaches(m, c)'
        <4>1. m = n => Hears(c, Broadcast)
          BY <1>0, <3>1 DEF Tuned
        <4>2. QED
          BY <1>7, <3>1, <4>1, PublishSpreads DEF Reaches
      <3>2. QED
        BY <3>1, ToldKept
    <2>3. QED
      BY <1>0, <2>1, <2>2, ForgetsKept
  <1>8. ASSUME UNCHANGED <<pc, launch, peers, wire, inbox>> PROVE Forgets(c, d)'
    BY <1>0, <1>8 DEF Forgets, Told, Reaches
  <1>9. QED
    BY <1>1, <1>2, <1>3, <1>4, <1>5, <1>6, <1>7, <1>8
    DEF Next, User, Server, ServerConn, ServerSubscribe, ServerUnsubscribe, vars

-----------------------------------------------------------------------------

LEMMA SettleInvInit == Init => SettleInv
  <1> SUFFICES ASSUME Init PROVE SettleInv
    OBVIOUS
  <1>1. \A m \in Message, x \in Client : ~Reaches(m, x)
    BY NothingInEmpty DEF Init, Reaches
  <1>2. \A x \in Client : ~Acts(x)
    BY <1>1 DEF Init, Acts, Flying, Resting
  <1>3. OneActor /\ MailIsTruthful
    BY <1>1, <1>2 DEF OneActor, MailIsTruthful, Flying
  <1>4. \A x \in Client : Tuned(x) /\ Lonely(x)
    BY DEF Init, Tuned, Lonely, Before, Starting, Stopping
  <1>5. \A c, d \in Client : Meets(c, d) /\ Forgets(c, d)
    BY DEF Init, Meets, Forgets
  <1>6. QED
    BY <1>3, <1>4, <1>5 DEF SettleInv

LEMMA SettleInvariant == ASSUME Patient PROVE Spec => []SettleInv
  <1>1. Orderly
    BY DEF Patient
  <1>2. SettleInv /\ TypeOK /\ TypeOK' /\ Begun /\ RegistryInv /\ [Next]_vars => SettleInv'
    <2> SUFFICES ASSUME SettleInv, TypeOK, TypeOK', Begun, RegistryInv, [Next]_vars
                 PROVE  SettleInv'
      OBVIOUS
    <2>1. OneActor' /\ MailIsTruthful'
      BY OneActorStep, MailIsTruthfulStep DEF SettleInv
    <2>2. \A x \in Client : Tuned(x)' /\ Lonely(x)'
      BY TunedStep, LonelyStep
    <2>3. \A c, d \in Client : c # d => Meets(c, d)' /\ Forgets(c, d)'
      BY MeetsStep, ForgetsStep
    <2>4. QED
      BY <2>1, <2>2, <2>3 DEF SettleInv
  <1>3. QED
    BY <1>1, <1>2, SettleInvInit, TypeInvariant, RegistryInvariant, PTL DEF Spec

\* Once nothing is under way, those in the session know and hear each other,
\* whoever stopped hears nothing, and nobody shows one who has stopped.
LEMMA SettledAgree ==
  ASSUME Patient, TypeOK, SettleInv
  PROVE  SettledSessionsAgree
  <1> SUFFICES ASSUME Settled PROVE MutuallyAware /\ StoppedIsDeaf /\ NoGhostPeer
    BY DEF SettledSessionsAgree
  <1>1. \A c, d \in Client : \A kind : ~Told(c, kind, d)
    BY SettledIsQuiet DEF Told
  <1>2. \A c \in Client : \A k \in conns[c] : k.st = "live"
    BY SettledIsQuiet
  <1>3. MutuallyAware
    <2> SUFFICES ASSUME NEW c \in Client, NEW d \in Client,
                        pc[c] = "running", pc[d] = "running", c # d
                 PROVE  Knows(c, Me(d)) /\ Hears(c, PeerChannel(Me(d)))
      BY DEF MutuallyAware
    <2>1. Aware(c, d)
      BY <1>1 DEF SettleInv, Meets, Starting
    <2>2. Me(d).client = d /\ PeerChannel(Me(d)) = <<d, launch[d]>>
      BY DEF Me, PeerChannel
    <2>3. Knows(c, Me(d))
      BY <2>1, <2>2 DEF Aware, Knows, SamePeer
    <2>4. Hears(c, PeerChannel(Me(d)))
      BY <1>2, <2>1, <2>2 DEF Aware, Asked, Hears
    <2>5. QED
      BY <2>3, <2>4
  <1>4. StoppedIsDeaf
    BY <1>2 DEF StoppedIsDeaf, SettleInv, Tuned, Stopping, Leaving
  <1>5. NoGhostPeer
    <2>1. \A d \in Client : Me(d).client = d /\ Me(d).launch = launch[d]
      BY DEF Me
    <2>2. QED
      BY <1>1, <2>1 DEF NoGhostPeer, SettleInv, Forgets, Stopping
  <1>6. QED
    BY <1>3, <1>4, <1>5

\* As long as users wait for the messages of one operation before they begin the
\* next, HELLO, GOODBYE and the registry together leave nobody out and nobody in,
\* in whatever order the server executes what it is sent and whoever is lost.
THEOREM SessionsAgreeWhenPatient ==
  ASSUME Patient
  PROVE  Spec => []SettledSessionsAgree
  <1>1. TypeOK /\ SettleInv => SettledSessionsAgree
    BY SettledAgree
  <1>2. QED
    BY <1>1, SettleInvariant, TypeCorrect, PTL

=============================================================================
