----------------------- MODULE PlasterPrototypeProofs -----------------------
(***************************************************************************)
(* Proofs about PlasterPrototype, for any number of processes, of session  *)
(* ids, of starts and of troubles, whichever of them may happen.           *)
(***************************************************************************)
EXTENDS PlasterPrototype, TLAPS

USE AllowedAssumption, BoundsAssumption, NamesAssumption
USE DEF server, settings, thread, links, bounds, history

-----------------------------------------------------------------------------

(***************************************************************************)
(* Texts, subscriptions and HELLOs.                                        *)
(***************************************************************************)

LEMMA NoListIsAText == IsText(NoList) /\ DOMAIN NoList = {}
  <1>1. NoList \in [{} -> Nat] /\ DOMAIN NoList = {}
    BY DEF NoList, EmptyBag, SetToBag
  <1>2. QED
    BY <1>1 DEF IsText

\* The first on a list writes its id.
LEMMA SingleText ==
  ASSUME NEW c \in Parts
  PROVE  /\ IsText(SetToBag({c})) /\ SetToBag({c}) # NoList /\ SetToBag({c}) # NoKey
         /\ BagToSet(SetToBag({c})) = {c}
  <1>1. DOMAIN SetToBag({c}) = {c} /\ \A e \in {c} : SetToBag({c})[e] \in Nat
    BY DEF SetToBag
  <1>2. SetToBag({c}) \in [{c} -> Nat]
    BY DEF SetToBag
  <1>3. IsText(SetToBag({c}))
    BY <1>2 DEF IsText
  <1>4. QED
    BY <1>1, <1>3, NoListIsAText DEF BagToSet

\* The next one is added to those before.
LEMMA LongerText ==
  ASSUME NEW t, IsText(t), NEW c \in Client
  PROVE  /\ IsText(BagAdd(t, c)) /\ BagAdd(t, c) # NoList /\ BagAdd(t, c) # NoKey
         /\ BagToSet(BagAdd(t, c)) = BagToSet(t) \cup {c}
  <1>1. PICK P \in SUBSET Parts : t \in [P -> Nat]
    BY DEF IsText
  <1>2. DOMAIN t = P /\ c \in Parts
    BY <1>1 DEF Parts
  <1>3. BagAdd(t, c) \in [P \cup {c} -> Nat]
    BY <1>1, <1>2 DEF BagAdd
  <1>4. DOMAIN BagAdd(t, c) = P \cup {c} /\ P \cup {c} \in SUBSET Parts
    BY <1>2, <1>3
  <1>5. IsText(BagAdd(t, c))
    BY <1>3, <1>4 DEF IsText
  <1>6. QED
    BY <1>2, <1>4, <1>5, NoListIsAText DEF BagToSet

\* Who leaves is not on the list it leaves, and all the others are.
LEMMA ShorterText ==
  ASSUME NEW t, IsText(t), NEW c \in Client
  PROVE  /\ IsText(Without(t, c)) /\ Without(t, c) # NoList /\ Without(t, c) # NoKey
         /\ \A d \in Client : BagIn(d, Without(t, c)) <=> d # c /\ BagIn(d, t)
  <1> DEFINE rest == BagRemoveAll(t, c)
  <1>1. PICK P \in SUBSET Parts : t \in [P -> Nat]
    BY DEF IsText
  <1>2. rest \in [P \ {c} -> Nat] /\ DOMAIN rest = P \ {c} /\ DOMAIN t = P
    BY <1>1 DEF BagRemoveAll
  <1>3. Without(t, c) = IF rest = NoList THEN SetToBag({Blank}) ELSE rest
    BY DEF Without
  <1> HIDE DEF rest
  <1>4. CASE rest = NoList
    <2>1. Without(t, c) = SetToBag({Blank}) /\ Blank \in Parts /\ Blank \notin Client
      BY <1>3, <1>4 DEF Parts
    <2>2. P \ {c} = {}
      BY <1>2, <1>4, NoListIsAText
    <2>3. QED
      BY <1>2, <2>1, <2>2, SingleText DEF BagIn, BagToSet
  <1>5. CASE rest # NoList
    <2>1. IsText(rest)
      BY <1>2 DEF IsText
    <2>2. QED
      BY <1>2, <1>3, <1>5, <2>1 DEF BagIn, BagToSet
  <1>6. QED
    BY <1>4, <1>5

LEMMA SubIsTyped ==
  /\ \A n \in 1 .. MaxStarts, k \in Id : [n |-> n, id |-> k, st |-> "asked"] \in Sub
  /\ \A s \in Sub : [s EXCEPT !.st = "live"] \in Sub
  BY DEF Sub

LEMMA PostIsTyped ==
  \A n \in 1 .. MaxStarts, c \in Client : [n |-> n, from |-> c] \in Post
  BY DEF Post

-----------------------------------------------------------------------------

(***************************************************************************)
(* Type correctness.                                                       *)
(***************************************************************************)

ServerOK == DOMAIN lists = Id /\ \A k \in Id : lists[k] = NoKey \/ (IsText(lists[k]) /\ lists[k] # NoList)

\* A process has a session id from its launch on, and its window one since it was shown.
SettingsOK ==
  /\ setting \in [Client -> Id \cup {NoId}] /\ asked \in [Client -> BOOLEAN]
  /\ window \in [Client -> {"none", "open", "closed"}] /\ copied \in [Client -> Id \cup {NoId}]
  /\ \A c \in Client : pc[c] # "down" => setting[c] \in Id
  /\ \A c \in Client : window[c] # "none" => copied[c] \in Id

\* Whoever is in an operation has read a session id, and whoever is about to write a list
\* has one that is not the list of nobody.
ThreadOK ==
  /\ pc \in [Client -> Alive \cup {"down", "hollow", "over"}]
  /\ quitting \in [Client -> BOOLEAN]
  /\ session \in [Client -> Id \cup {NoId}] /\ key \in [Client -> Id \cup {NoId}]
  /\ DOMAIN held = Client /\ \A c \in Client : IsText(held[c])
  /\ \A c \in Client :
       /\ pc[c] \in Busy => key[c] \in Id
       /\ pc[c] \in {"boot_put", "stop_put"} => held[c] # NoList
       /\ pc[c] \in Busy \cup {"running"} => session[c] \in Id

LinksOK ==
  /\ peers \in [Client -> SUBSET Parts]
  /\ sync \in [Client -> {"live", "broken"}] /\ pub \in [Client -> {"live", "null", "freed"}]
  /\ outbox \in [Client -> Seq(Id)]
  /\ subs \in [Client -> SUBSET Sub] /\ inbox \in [Client -> SUBSET Post]
  /\ table \in [Client -> SUBSET (1 .. MaxStarts)] /\ freed \in [Client -> SUBSET (1 .. MaxStarts)]
  /\ \A c \in Client : (table[c] \cup freed[c]) \subseteq 1 .. starts

PastOK ==
  /\ starts \in 0 .. MaxStarts /\ events \in 0 .. MaxEvents
  /\ strain \in [Id -> SUBSET Strain] /\ past \in [Client -> SUBSET Event]
  /\ damage \in [Client -> SUBSET Damage]

AllOK == ServerOK /\ SettingsOK /\ ThreadOK /\ LinksOK /\ PastOK

LEMMA AllOKImpliesTypeOK == AllOK => TypeOK
  BY DEF AllOK, ServerOK, SettingsOK, ThreadOK, LinksOK, PastOK, TypeOK

LEMMA InitIsTyped == Init => AllOK
  <1> SUFFICES ASSUME Init PROVE AllOK
    OBVIOUS
  <1>1. ServerOK
    BY DEF Init, ServerOK
  <1>2. PICK k \in Id \cup {NoId} : setting = [c \in Client |-> k]
    BY DEF Init
  <1>3. /\ window = [c \in Client |-> "none"] /\ copied = [c \in Client |-> NoId]
        /\ asked \in [Client -> BOOLEAN]
        /\ pc = [c \in Client |-> "down"] /\ quitting = [c \in Client |-> FALSE]
        /\ session = copied /\ key = copied /\ held = [c \in Client |-> NoList]
    BY DEF Init
  <1>4. SettingsOK
    BY <1>2, <1>3 DEF SettingsOK
  <1>5. ThreadOK
    BY <1>3, NoListIsAText DEF ThreadOK, Alive, Busy
  <1>6. LinksOK
    BY DEF Init, LinksOK
  <1>7. PastOK
    <2>1. 0 \in 0 .. MaxStarts /\ 0 \in 0 .. MaxEvents
      OBVIOUS
    <2>2. QED
      BY <2>1 DEF Init, PastOK
  <1>8. QED
    BY <1>1, <1>4, <1>5, <1>6, <1>7 DEF AllOK

LEMMA StrainedIsTyped ==
  ASSUME PastOK, NEW k \in Id, NEW s \in SUBSET Strain
  PROVE  Strained(k, s) \in [Id -> SUBSET Strain]
  BY DEF PastOK, Strained

LEMMA MarkIsTyped ==
  ASSUME NEW T, NEW f \in [Client -> SUBSET T], NEW c \in Client, NEW s \in SUBSET T
  PROVE  Mark(f, c, s) \in [Client -> SUBSET T]
  BY DEF Mark

\* A blocking call changes a list at most.
LEMMA ExecutedIsTyped ==
  ASSUME AllOK, NEW c \in Client, NEW k \in Id, NEW x,
         x = NoKey \/ (IsText(x) /\ x # NoList), Executed(c, k, [lists EXCEPT ![k] = x])
  PROVE  /\ ServerOK' /\ strain' \in [Id -> SUBSET Strain]
         /\ sync' \in [Client -> {"live", "broken"}] /\ events' \in 0 .. MaxEvents
  <1> DEFINE after == [lists EXCEPT ![k] = x]
  <1>1. lists' \in {lists, after}
    BY DEF Executed
  <1>2. ServerOK'
    BY <1>1 DEF AllOK, ServerOK
  <1>3. strain' = strain \/ strain' = Strained(k, {"outage"})
    BY DEF Executed
  <1>4. {"outage"} \in SUBSET Strain
    BY DEF Strain
  <1>5. strain' \in [Id -> SUBSET Strain]
    BY <1>3, <1>4, StrainedIsTyped DEF AllOK, PastOK
  <1>6. sync' \in [Client -> {"live", "broken"}]
    BY DEF Executed, Answered, Unanswered, AllOK, LinksOK
  <1>7. events' \in 0 .. MaxEvents
    BY DEF Executed, Answered, Unanswered, Troubled, Happens, AllOK, PastOK
  <1>8. QED
    BY <1>2, <1>5, <1>6, <1>7

\* The first steps of start.
LEMMA BootIsTyped ==
  ASSUME AllOK, NEW c \in Client, NEW k \in Id, Boot(c, k),
         setting' \in [Client -> Id \cup {NoId}], asked' \in [Client -> BOOLEAN],
         \A d \in Client : setting'[d] = setting[d] \/ setting'[d] \in Id,
         pc[c] = "idle"
  PROVE  AllOK'
  <1> USE DEF AllOK
  <1>1. starts' = starts + 1 /\ starts' \in 1 .. MaxStarts
    BY DEF Boot, PastOK
  <1>2. ServerOK'
    BY DEF Boot, ServerOK
  <1>3. SettingsOK'
    BY DEF Boot, SettingsOK, ThreadOK, Busy
  <1>4. ThreadOK'
    BY DEF Boot, ThreadOK, Alive, Busy
  <1>5. LinksOK'
    <2>1. outbox' \in [Client -> Seq(Id)]
      BY DEF Boot, Publish, LinksOK
    <2>2. subs' \in [Client -> SUBSET Sub]
      <3>1. [n |-> starts', id |-> k, st |-> "asked"] \in Sub
        BY <1>1, SubIsTyped
      <3>2. QED
        <4>1. subs' = subs \/ subs' = Mark(subs, c, {[n |-> starts', id |-> k, st |-> "asked"]})
          BY DEF Boot, Subscribe, connectAndDispatch, Mark
        <4>2. subs \in [Client -> SUBSET Sub]
          BY DEF LinksOK
        <4>3. Mark(subs, c, {[n |-> starts', id |-> k, st |-> "asked"]}) \in [Client -> SUBSET Sub]
          BY <3>1, <4>2, MarkIsTyped
        <4>4. QED
          BY <4>1, <4>2, <4>3
    <2>3. table' \in [Client -> SUBSET (1 .. MaxStarts)]
      <3>1. table' = table \/ table' = Mark(table, c, {starts'})
        BY DEF Boot, Subscribe, Mark
      <3>2. table \in [Client -> SUBSET (1 .. MaxStarts)]
        BY DEF LinksOK
      <3>3. Mark(table, c, {starts'}) \in [Client -> SUBSET (1 .. MaxStarts)]
        BY <1>1, <3>2, MarkIsTyped, ZenonT(60)
      <3>4. QED
        BY <3>1, <3>2, <3>3
    <2>4. \A d \in Client : table'[d] \subseteq table[d] \cup {starts'}
      BY DEF Boot, Subscribe, LinksOK
    <2>5. \A d \in Client : (table'[d] \cup freed'[d]) \subseteq 1 .. starts'
      <3>1. 1 .. starts \subseteq 1 .. starts' /\ starts' \in 1 .. starts'
        BY <1>1 DEF PastOK
      <3>2. freed' = freed
        BY DEF Boot
      <3>3. QED
        BY <2>4, <3>1, <3>2 DEF LinksOK
    <2>6. UNCHANGED <<peers, sync, pub, freed, inbox>>
      BY DEF Boot
    <2>7. QED
      BY <2>1, <2>2, <2>3, <2>5, <2>6 DEF LinksOK
  <1>6. PastOK'
    <2>1. Overlap(c, k) \cup Unheard(c) \cup {"outage"} \in SUBSET Strain
      BY DEF Overlap, Unheard, Strain
    <2>2. strain' \in [Id -> SUBSET Strain]
      BY <2>1, StrainedIsTyped DEF Boot, Subscribe
    <2>3. events' \in 0 .. MaxEvents
      BY DEF Boot, Subscribe, Troubled, Happens, PastOK
    <2>4. damage' \in [Client -> SUBSET Damage]
      BY MarkIsTyped DEF Boot, Publish, PastOK, Damage
    <2>5. QED
      BY <1>1, <2>2, <2>3, <2>4 DEF Boot, PastOK
  <1>7. QED
    BY <1>2, <1>3, <1>4, <1>5, <1>6

\* The first steps of stop.
LEMMA StoppingIsTyped ==
  ASSUME AllOK, NEW c \in Client, NEW k \in Id, pc[c] = "running", Stopping(c, k),
         quitting' \in [Client -> BOOLEAN]
  PROVE  AllOK'
  <1> USE DEF AllOK
  <1>1. UNCHANGED <<server, settings, session, held, peers, sync, pub, outbox, subs, inbox, bounds>>
    BY DEF Stopping
  <1>2. ServerOK' /\ SettingsOK'
    BY <1>1 DEF Stopping, ServerOK, SettingsOK, ThreadOK
  <1>3. ThreadOK'
    BY <1>1 DEF Stopping, ThreadOK, Alive, Busy
  <1>4. LinksOK'
    <2>1. freed' = [freed EXCEPT ![c] = @ \cup table[c]] /\ table' = [table EXCEPT ![c] = {}]
      BY DEF Stopping, UnsubscribeAll, freeBundle
    <2>2. \A d \in Client : (table'[d] \cup freed'[d]) \subseteq (table[d] \cup freed[d])
      BY <2>1 DEF LinksOK
    <2>3. freed' \in [Client -> SUBSET (1 .. MaxStarts)]
      BY <2>1 DEF LinksOK
    <2>4. table' \in [Client -> SUBSET (1 .. MaxStarts)]
      BY <2>1 DEF LinksOK
    <2>5. QED
      BY <1>1, <2>2, <2>3, <2>4 DEF LinksOK
  <1>5. PastOK'
    <2>1. damage' \in [Client -> SUBSET Damage]
      <3> DEFINE d == (IF Lost(c) # {} THEN {"subscriber"} ELSE {})
                        \cup (IF table[c] \cap freed[c] # {} THEN {"twice"} ELSE {})
      <3>1. damage' = Mark(damage, c, d)
        BY DEF Stopping, UnsubscribeAll
      <3>2. d \in SUBSET Damage
        BY DEF Damage
      <3> HIDE DEF d
      <3>3. QED
        BY <3>1, <3>2, MarkIsTyped DEF PastOK
    <2>2. past' \in [Client -> SUBSET Event]
      <3> DEFINE e == IF inbox[c] # {} THEN {"crossed"} ELSE {}
      <3>1. past' = Mark(past, c, e) /\ e \in SUBSET Event
        BY DEF Stopping, Event
      <3> HIDE DEF e
      <3>2. QED
        BY <3>1, MarkIsTyped DEF PastOK
    <2>3. strain' \in [Id -> SUBSET Strain]
      <3> DEFINE f(j) == strain[j] \cup (IF j = k THEN Overlap(c, k) ELSE {})
                           \cup (IF j \in {k, session[c]} /\ k # session[c] THEN {"moved"} ELSE {})
      <3>1. strain' = [j \in Id |-> f(j)]
        BY DEF Stopping
      <3>2. \A j \in Id : f(j) \subseteq Strain
        BY DEF PastOK, Overlap, Strain
      <3> HIDE DEF f
      <3>3. QED
        BY <3>1, <3>2
    <2>4. QED
      BY <1>1, <2>1, <2>2, <2>3 DEF PastOK
  <1>6. QED
    BY <1>2, <1>3, <1>4, <1>5

\* The end of a process leaves nothing of it but its defaults.
LEMMA ClosedIsTyped ==
  ASSUME AllOK, NEW c \in Client, pc[c] # "down", NoSession(c), Closed(c), ServerOK',
         UNCHANGED <<setting, asked, quitting, outbox, starts>>,
         strain' \in [Id -> SUBSET Strain], sync' \in [Client -> {"live", "broken"}],
         events' \in 0 .. MaxEvents
  PROVE  AllOK'
  <1> USE DEF AllOK, NoSession, Closed
  <1>1. SettingsOK'
    BY DEF SettingsOK, ThreadOK
  <1>2. ThreadOK'
    BY NoListIsAText DEF ThreadOK, Alive, Busy
  <1>3. LinksOK'
    BY DEF LinksOK
  <1>4. PastOK'
    BY DEF PastOK
  <1>5. QED
    BY <1>1, <1>2, <1>3, <1>4

LEMMA StoppedIsTyped ==
  ASSUME AllOK, NEW c \in Client, pc[c] \in {"stop_get", "stop_put"},
         NEW remain \in SUBSET Parts, NEW event \in SUBSET Event,
         Stopped(c, remain, event), ServerOK',
         strain' \in [Id -> SUBSET Strain], sync' \in [Client -> {"live", "broken"}],
         events' \in 0 .. MaxEvents
  PROVE  AllOK'
  <1>1. CASE quitting[c]
    BY <1>1, ClosedIsTyped DEF Stopped
  <1>2. CASE ~quitting[c]
    <2> USE DEF AllOK
    <2>1. /\ NoSession(c) /\ pc' = [pc EXCEPT ![c] = "idle"]
          /\ peers' = [peers EXCEPT ![c] = remain] /\ past' = Mark(past, c, event)
          /\ UNCHANGED <<window, copied, pub, subs, inbox, table, freed, damage, setting, asked,
                         quitting, outbox, starts>>
      BY <1>2 DEF Stopped
    <2>2. SettingsOK'
      BY <2>1 DEF SettingsOK, ThreadOK
    <2>3. ThreadOK'
      BY <2>1, NoListIsAText DEF ThreadOK, NoSession, Alive, Busy
    <2>4. LinksOK'
      BY <2>1 DEF LinksOK
    <2>5. past' \in [Client -> SUBSET Event]
      BY <2>1, MarkIsTyped DEF PastOK
    <2>6. PastOK'
      BY <2>1, <2>5 DEF PastOK
    <2>7. QED
      BY <2>2, <2>3, <2>4, <2>6
  <1>3. QED
    BY <1>1, <1>2

LEMMA GoneIsTyped ==
  ASSUME AllOK, NEW c \in Client, pc[c] \in Alive, Gone(c), events' \in 0 .. MaxEvents
  PROVE  AllOK'
  <1>1. strain' \in [Id -> SUBSET Strain]
    <2>1. {"ended"} \in SUBSET Strain
      BY DEF Strain
    <2>2. session[c] # NoId => session[c] \in Id
      BY DEF AllOK, ThreadOK
    <2>3. QED
      BY <2>1, <2>2, StrainedIsTyped DEF Gone, AllOK, PastOK
  <1>2. ServerOK' /\ sync' \in [Client -> {"live", "broken"}]
    BY DEF Gone, AllOK, ServerOK, LinksOK
  <1>3. pc[c] # "down"
    BY DEF Alive, Busy
  <1>4. QED
    BY <1>1, <1>2, <1>3, ClosedIsTyped DEF Gone

LEMMA UserIsTyped ==
  ASSUME AllOK, NEW c \in Client, User(c)
  PROVE  AllOK'
  <1> USE DEF AllOK
  <1>1. ASSUME Launch(c) PROVE AllOK'
    <2>1. /\ setting' \in [Client -> Id \cup {NoId}] /\ setting'[c] \in Id
          /\ \A d \in Client : setting'[d] = setting[d] \/ setting'[d] \in Id
      <3>1. CASE setting[c] = NoId
        <4>1. PICK k \in Unused : setting' = [setting EXCEPT ![c] = k]
          BY <1>1, <3>1 DEF Launch
        <4>2. k \in Id
          BY DEF Unused
        <4>3. QED
          BY <4>1, <4>2 DEF SettingsOK
      <3>2. CASE setting[c] # NoId
        BY <1>1, <3>2 DEF Launch, SettingsOK
      <3>3. QED
        BY <3>1, <3>2
    <2>2. \/ pc' = [pc EXCEPT ![c] = "idle"] /\ UNCHANGED events
          \/ pc' = [pc EXCEPT ![c] = "idle"] /\ Happens
          \/ pc' = [pc EXCEPT ![c] = "hollow"] /\ Happens
      BY <1>1 DEF Launch, Troubled
    <2>3. pub' = pub \/ pub' = [pub EXCEPT ![c] = "null"]
      BY <1>1 DEF Launch
    <2>4. UNCHANGED <<server, asked, window, copied, quitting, session, key, held, peers, sync,
                      outbox, subs, table, freed, inbox, starts, history>>
      BY <1>1 DEF Launch
    <2>5. ServerOK'
      BY <2>4 DEF ServerOK
    <2>6. SettingsOK'
      BY <2>1, <2>2, <2>4 DEF SettingsOK, ThreadOK
    <2>7. ThreadOK'
      BY <2>2, <2>4 DEF ThreadOK, Alive, Busy
    <2>8. LinksOK'
      BY <2>3, <2>4 DEF LinksOK
    <2>9. PastOK'
      BY <2>2, <2>4 DEF PastOK, Happens
    <2>10. QED
      BY <2>5, <2>6, <2>7, <2>8, <2>9
  <1>2. ASSUME Start(c) PROVE AllOK'
    <2>1. setting[c] \in Id
      BY <1>2 DEF Start, SettingsOK
    <2>2. QED
      BY <1>2, <2>1, BootIsTyped DEF Start, SettingsOK
  <1>3. ASSUME Cancel(c) PROVE AllOK'
    <2>1. setting[c] \in Id /\ asked' \in [Client -> BOOLEAN]
      BY <1>3 DEF Cancel, SettingsOK
    <2>2. QED
      BY <1>3, <2>1, BootIsTyped DEF Cancel, SettingsOK
  <1>4. ASSUME NEW k \in Id, UseSessionKey(c, k) PROVE AllOK'
    <2>1. asked' \in [Client -> BOOLEAN] /\ setting' \in [Client -> Id \cup {NoId}]
      BY <1>4 DEF UseSessionKey, SettingsOK
    <2>2. \A d \in Client : setting'[d] = setting[d] \/ setting'[d] \in Id
      BY <1>4 DEF UseSessionKey, SettingsOK
    <2>3. QED
      BY <1>4, <2>1, <2>2, BootIsTyped DEF UseSessionKey
  <1>5. ASSUME Stop(c) \/ Quit(c) PROVE AllOK'
    <2>1. setting[c] \in Id /\ pc[c] = "running" /\ Stopping(c, setting[c])
      BY <1>5 DEF Stop, Quit, SettingsOK
    <2>2. quitting' \in [Client -> BOOLEAN]
      BY <1>5 DEF Stop, Quit, ThreadOK
    <2>3. QED
      BY <2>1, <2>2, StoppingIsTyped
  <1>6. ASSUME ShowPreferences(c) \/ GenerateSessionID(c) \/ WindowWillClose(c) PROVE AllOK'
    <2>1. /\ UNCHANGED <<server, asked, thread, peers, links, starts, history>>
          /\ UNCHANGED events \/ Happens
      BY <1>6 DEF ShowPreferences, GenerateSessionID, WindowWillClose
    <2>2. setting[c] \in Id
      BY <1>6 DEF ShowPreferences, GenerateSessionID, WindowWillClose, SettingsOK
    <2>3. SettingsOK'
      <3>1. CASE ShowPreferences(c)
        BY <2>1, <2>2, <3>1 DEF ShowPreferences, SettingsOK
      <3>2. CASE GenerateSessionID(c)
        BY <2>1, <3>2 DEF GenerateSessionID, Unused, SettingsOK
      <3>3. CASE WindowWillClose(c)
        BY <2>1, <3>3 DEF WindowWillClose, SettingsOK
      <3>4. QED
        BY <1>6, <3>1, <3>2, <3>3
    <2>4. ServerOK' /\ LinksOK'
      BY <2>1 DEF ServerOK, LinksOK
    <2>5. ThreadOK'
      BY <2>1 DEF ThreadOK
    <2>6. PastOK'
      BY <2>1 DEF PastOK, Happens
    <2>7. QED
      BY <2>3, <2>4, <2>5, <2>6
  <1>7. QED
    BY <1>1, <1>2, <1>3, <1>4, <1>5, <1>6 DEF User

\* What an answered or unanswered call leaves of the connection.
LEMMA AnswersAreTyped ==
  ASSUME AllOK, NEW c \in Client, Answered(c) \/ Unanswered(c)
  PROVE  sync' \in [Client -> {"live", "broken"}] /\ events' \in 0 .. MaxEvents
  <1>1. sync' \in [Client -> {"live", "broken"}]
    BY DEF Answered, Unanswered, AllOK, LinksOK
  <1>2. UNCHANGED events \/ Happens
    BY DEF Answered, Unanswered, Troubled
  <1>3. QED
    BY <1>1, <1>2 DEF Happens, AllOK, PastOK

LEMMA ThreadIsTyped ==
  ASSUME AllOK, NEW c \in Client, Thread(c)
  PROVE  AllOK'
  <1> USE DEF AllOK
  <1>0. {"outage"} \in SUBSET Strain
    BY DEF Strain
  <1>1. ASSUME BootGet(c) PROVE AllOK'
    <2>1. key[c] \in Id /\ c \in Parts
      BY <1>1 DEF BootGet, ThreadOK, Busy, Parts
    <2>2. /\ pc' = [pc EXCEPT ![c] = "boot_put"] /\ pc[c] = "boot_get"
          /\ UNCHANGED <<server, settings, quitting, session, key, pub, outbox, subs, table, freed,
                         starts, past, damage>>
          /\ Answered(c) \/ Unanswered(c)
      BY <1>1 DEF BootGet
    <2>3. \E t : held' = [held EXCEPT ![c] = t] /\ IsText(t) /\ t # NoList
      <3>1. CASE lists[key[c]] # NoKey /\ held' = [held EXCEPT ![c] = BagAdd(lists[key[c]], c)]
        BY <2>1, <3>1, LongerText DEF ServerOK
      <3>2. CASE held' = [held EXCEPT ![c] = SetToBag({c})]
        BY <2>1, <3>2, SingleText
      <3>3. QED
        BY <1>1, <3>1, <3>2 DEF BootGet
    <2>4. peers' \in [Client -> SUBSET Parts]
      <3>1. CASE peers' = peers
        BY <3>1 DEF LinksOK
      <3>2. CASE lists[key[c]] # NoKey /\ peers' = Mark(peers, c, BagToSet(lists[key[c]]))
        <4>1. BagToSet(lists[key[c]]) \in SUBSET Parts
          BY <2>1, <3>2 DEF ServerOK, IsText, BagToSet
        <4>2. QED
          BY <3>2, <4>1, MarkIsTyped DEF LinksOK
      <3>3. QED
        BY <1>1, <3>1, <3>2 DEF BootGet
    <2>5. inbox' \in [Client -> SUBSET Post]
      BY <1>1 DEF BootGet, Together, LinksOK
    <2>6. strain' \in [Id -> SUBSET Strain]
      BY <1>0, <1>1, <2>1, StrainedIsTyped DEF BootGet, PastOK
    <2>7. sync' \in [Client -> {"live", "broken"}] /\ events' \in 0 .. MaxEvents
      BY <2>2, AnswersAreTyped
    <2>8. ServerOK' /\ SettingsOK'
      BY <2>2 DEF ServerOK, SettingsOK, ThreadOK
    <2>9. ThreadOK'
      BY <2>2, <2>3 DEF ThreadOK, Alive, Busy
    <2>10. LinksOK'
      BY <2>2, <2>4, <2>5, <2>7 DEF LinksOK
    <2>11. PastOK'
      BY <2>2, <2>6, <2>7 DEF PastOK
    <2>12. QED
      BY <2>8, <2>9, <2>10, <2>11
  <1>2. ASSUME BootPut(c) PROVE AllOK'
    <2>1. key[c] \in Id /\ IsText(held[c]) /\ held[c] # NoList
      BY <1>2 DEF BootPut, ThreadOK, Busy
    <2>2. /\ pc' = [pc EXCEPT ![c] = "running"] /\ pc[c] = "boot_put"
          /\ key' = [key EXCEPT ![c] = NoId] /\ held' = [held EXCEPT ![c] = NoList]
          /\ UNCHANGED <<settings, quitting, session, peers, pub, outbox, subs, table, freed, inbox,
                         starts, past, damage>>
      BY <1>2 DEF BootPut
    <2>3. /\ ServerOK' /\ strain' \in [Id -> SUBSET Strain]
          /\ sync' \in [Client -> {"live", "broken"}] /\ events' \in 0 .. MaxEvents
      BY <1>2, <2>1, ExecutedIsTyped DEF BootPut, SetStringValue
    <2>4. SettingsOK'
      BY <2>2 DEF SettingsOK, ThreadOK
    <2>5. ThreadOK'
      BY <2>2, NoListIsAText DEF ThreadOK, Alive, Busy
    <2>6. LinksOK' /\ PastOK'
      BY <2>2, <2>3 DEF LinksOK, PastOK
    <2>7. QED
      BY <2>3, <2>4, <2>5, <2>6
  <1>3. ASSUME StopGet(c) PROVE AllOK'
    <2>1. key[c] \in Id /\ pc[c] = "stop_get" /\ UNCHANGED server
      BY <1>3 DEF StopGet, ThreadOK, Busy
    <2>2. sync' \in [Client -> {"live", "broken"}] /\ events' \in 0 .. MaxEvents
      BY <1>3, AnswersAreTyped DEF StopGet
    <2>3. CASE /\ lists[key[c]] # NoKey
               /\ held' = [held EXCEPT ![c] = lists[key[c]]]
               /\ pc' = [pc EXCEPT ![c] = "stop_put"]
               /\ UNCHANGED <<settings, quitting, session, key, peers, pub, outbox, subs, table,
                              freed, inbox, starts, history>>
      <3>1. IsText(lists[key[c]]) /\ lists[key[c]] # NoList
        BY <2>1, <2>3 DEF ServerOK
      <3>2. ServerOK' /\ SettingsOK'
        BY <2>1, <2>3 DEF ServerOK, SettingsOK, ThreadOK
      <3>3. ThreadOK'
        BY <2>1, <2>3, <3>1 DEF ThreadOK, Alive, Busy
      <3>4. LinksOK' /\ PastOK'
        BY <2>2, <2>3 DEF LinksOK, PastOK
      <3>5. QED
        BY <3>2, <3>3, <3>4
    <2>4. CASE /\ Stopped(c, peers[c], {"kept"})
               /\ strain' = strain \/ strain' = Strained(key[c], {"outage"})
      <3>1. strain' \in [Id -> SUBSET Strain]
        BY <1>0, <2>1, <2>4, StrainedIsTyped DEF PastOK
      <3>2. ServerOK' /\ peers[c] \in SUBSET Parts /\ {"kept"} \in SUBSET Event
        BY <2>1 DEF ServerOK, LinksOK, Event
      <3>3. QED
        BY <2>1, <2>2, <2>4, <3>1, <3>2, StoppedIsTyped
    <2>5. QED
      BY <1>3, <2>3, <2>4 DEF StopGet
  <1>4. ASSUME StopPut(c) PROVE AllOK'
    <2>1. key[c] \in Id /\ IsText(held[c]) /\ pc[c] = "stop_put"
      BY <1>4 DEF StopPut, ThreadOK, Busy
    <2>2. \E x : /\ x = NoKey \/ (IsText(x) /\ x # NoList)
                 /\ Executed(c, key[c], [lists EXCEPT ![key[c]] = x])
      <3>1. IsText(Without(held[c], c)) /\ Without(held[c], c) # NoList
        BY <2>1, ShorterText
      <3>2. \/ Executed(c, key[c], [lists EXCEPT ![key[c]] = NoKey])
            \/ Executed(c, key[c], [lists EXCEPT ![key[c]] = Without(held[c], c)])
        BY <1>4 DEF StopPut, Leave, DeleteKey, SetStringValue
      <3>3. QED
        BY <3>1, <3>2
    <2>3. /\ ServerOK' /\ strain' \in [Id -> SUBSET Strain]
          /\ sync' \in [Client -> {"live", "broken"}] /\ events' \in 0 .. MaxEvents
      BY <2>1, <2>2, ExecutedIsTyped
    <2>4. QED
      BY <1>4, <2>1, <2>3, StoppedIsTyped DEF StopPut
  <1>5. ASSUME OnTimer(c) PROVE AllOK'
    <2>1. UNCHANGED <<server, settings, thread, peers, links, bounds, strain, past>>
      BY <1>5 DEF OnTimer
    <2>2. damage' \in [Client -> SUBSET Damage]
      BY <1>5, MarkIsTyped DEF OnTimer, PublishText, PastOK, Damage
    <2>3. QED
      BY <2>1, <2>2 DEF ServerOK, SettingsOK, ThreadOK, LinksOK, PastOK
  <1>6. ASSUME HandlePeer(c) PROVE AllOK'
    <2>1. PICK m \in inbox[c] :
            /\ inbox' = [inbox EXCEPT ![c] = @ \ {m}]
            /\ peers' = Mark(peers, c, {m.from})
            /\ damage' = IF m.n \in freed[c] THEN Mark(damage, c, {"bundle"}) ELSE damage
      BY <1>6 DEF HandlePeer
    <2>2. UNCHANGED <<server, settings, thread, sync, pub, outbox, subs, table, freed, bounds,
                      strain, past>>
      BY <1>6 DEF HandlePeer
    <2>3. m.from \in Parts
      BY DEF LinksOK, Post, Parts
    <2>4. peers' \in [Client -> SUBSET Parts]
      BY <2>1, <2>3, MarkIsTyped, ZenonT(60) DEF LinksOK
    <2>5. damage' \in [Client -> SUBSET Damage]
      BY <2>1, MarkIsTyped DEF PastOK, Damage
    <2>6. LinksOK'
      BY <2>1, <2>2, <2>4 DEF LinksOK
    <2>7. QED
      BY <2>2, <2>5, <2>6 DEF ServerOK, SettingsOK, ThreadOK, PastOK
  <1>7. QED
    BY <1>1, <1>2, <1>3, <1>4, <1>5, <1>6 DEF Thread

LEMMA WorldIsTyped ==
  ASSUME AllOK, NEW c \in Client, World(c)
  PROVE  AllOK'
  <1> USE DEF AllOK
  <1>1. ASSUME ServerPublish(c) PROVE AllOK'
    <2> DEFINE k == Head(outbox[c])
               To(d) == {s \in subs[d] : s.st = "live" /\ s.id = k}
    <2>1. /\ outbox[c] # <<>> /\ outbox' = [outbox EXCEPT ![c] = Tail(@)]
          /\ inbox' = [d \in Client |-> inbox[d] \cup {[n |-> s.n, from |-> c] : s \in To(d)}]
          /\ past' = [d \in Client |->
                IF \E s \in To(d) : s.n \in freed[d] THEN past[d] \cup {"crossed"} ELSE past[d]]
          /\ strain' = strain \/ strain' = Strained(k, {"haste"})
          /\ UNCHANGED <<server, settings, thread, peers, sync, pub, subs, table, freed, bounds,
                         damage>>
      BY <1>1 DEF ServerPublish
    <2>2. k \in Id /\ outbox' \in [Client -> Seq(Id)]
      BY <2>1 DEF LinksOK
    <2>3. \A d \in Client : {[n |-> s.n, from |-> c] : s \in To(d)} \subseteq Post
      BY PostIsTyped DEF LinksOK, Sub
    <2>4. past' \in [Client -> SUBSET Event]
      BY <2>1 DEF PastOK, Event
    <2>5. strain' \in [Id -> SUBSET Strain]
      BY <2>1, <2>2, StrainedIsTyped DEF PastOK, Strain
    <2> HIDE DEF k, To
    <2>6. inbox' \in [Client -> SUBSET Post]
      BY <2>1, <2>3 DEF LinksOK
    <2>7. LinksOK' /\ PastOK'
      BY <2>1, <2>2, <2>4, <2>5, <2>6 DEF LinksOK, PastOK
    <2>8. QED
      BY <2>1, <2>7 DEF ServerOK, SettingsOK, ThreadOK
  <1>2. ASSUME ServerSubscribe(c) \/ ServerUnsubscribe(c) PROVE AllOK'
    <2>1. UNCHANGED <<server, settings, thread, peers, sync, pub, outbox, table, freed, inbox,
                      bounds, history>>
      BY <1>2 DEF ServerSubscribe, ServerUnsubscribe
    <2>2. subs' \in [Client -> SUBSET Sub]
      BY <1>2, SubIsTyped DEF ServerSubscribe, ServerUnsubscribe, LinksOK
    <2>3. QED
      BY <2>1, <2>2 DEF ServerOK, SettingsOK, ThreadOK, LinksOK, PastOK
  <1>3. ASSUME Lose(c) PROVE AllOK'
    <2>1. /\ UNCHANGED <<server, settings, thread, peers, sync, table, freed, inbox, starts, damage>>
          /\ past' = Mark(past, c, {"loss"}) /\ Happens
      BY <1>3 DEF Lose, Troubled
    <2>2. past' \in [Client -> SUBSET Event] /\ events' \in 0 .. MaxEvents
      <3>1. {"loss"} \in SUBSET Event
        BY DEF Event
      <3>2. past' \in [Client -> SUBSET Event]
        BY <2>1, <3>1, MarkIsTyped DEF PastOK
      <3>3. QED
        BY <2>1, <3>2 DEF PastOK, Happens
    <2>3. /\ pub' \in [Client -> {"live", "null", "freed"}] /\ outbox' \in [Client -> Seq(Id)]
          /\ subs' \in [Client -> SUBSET Sub] /\ strain' \in [Id -> SUBSET Strain]
      <3>1. CASE /\ pub' = [pub EXCEPT ![c] = "freed"] /\ outbox' = [outbox EXCEPT ![c] = <<>>]
                 /\ strain' = [k \in Id |->
                       IF k \in ToSet(outbox[c]) THEN strain[k] \cup {"loss"} ELSE strain[k]]
                 /\ subs' = subs
        BY <3>1 DEF LinksOK, PastOK, Strain
      <3>2. CASE \E s \in subs[c] :
                   /\ subs' = [subs EXCEPT ![c] = @ \ {s}]
                   /\ strain' = Strained(s.id, {"loss"})
                   /\ UNCHANGED <<pub, outbox>>
        <4>1. PICK s \in subs[c] :
                   /\ subs' = [subs EXCEPT ![c] = @ \ {s}]
                   /\ strain' = Strained(s.id, {"loss"})
                   /\ UNCHANGED <<pub, outbox>>
          BY <3>2
        <4>2. s.id \in Id /\ {"loss"} \in SUBSET Strain
          BY DEF LinksOK, Sub, Strain
        <4>3. strain' \in [Id -> SUBSET Strain]
          BY <4>1, <4>2, StrainedIsTyped
        <4>4. QED
          BY <4>1, <4>3 DEF LinksOK
      <3>3. QED
        BY <1>3, <3>1, <3>2 DEF Lose
    <2>4. LinksOK'
      BY <2>1, <2>3 DEF LinksOK
    <2>5. QED
      BY <2>1, <2>2, <2>3, <2>4 DEF ServerOK, SettingsOK, ThreadOK, PastOK
  <1>4. ASSUME Crash(c) \/ Fall(c) PROVE AllOK'
    <2>1. pc[c] \in Alive /\ Gone(c) /\ events' \in 0 .. MaxEvents
      BY <1>4 DEF Crash, Fall, Troubled, Happens, PastOK
    <2>2. QED
      BY <2>1, GoneIsTyped
  <1>5. QED
    BY <1>1, <1>2, <1>3, <1>4 DEF World

LEMMA AllStaysOK == Spec => []AllOK
  <1>1. AllOK /\ [Next]_vars => AllOK'
    <2> SUFFICES ASSUME AllOK, [Next]_vars PROVE AllOK'
      OBVIOUS
    <2>1. CASE UNCHANGED vars
      BY <2>1 DEF vars, AllOK, ServerOK, SettingsOK, ThreadOK, LinksOK, PastOK
    <2>2. QED
      BY <2>1, UserIsTyped, ThreadIsTyped, WorldIsTyped DEF Next
  <1>2. QED
    BY <1>1, InitIsTyped, PTL DEF Spec

\* In every reachable state the variables of the prototype's processes, of their
\* connections and of the server have their types: a list is never the list of nobody.
THEOREM TypeCorrect == Spec => []TypeOK
  BY AllStaysOK, AllOKImpliesTypeOK, PTL

-----------------------------------------------------------------------------

(***************************************************************************)
(* Nothing is used after it was freed without a cause.  A subscription's   *)
(* bundle is in the table or freed, and not both: stop empties the table   *)
(* as it frees.                                                            *)
(***************************************************************************)

Boots == {"boot_get", "boot_put"}
Stops == {"stop_get", "stop_put"}

\* Inductive, of each process.
Clean(c) ==
  /\ \A s \in subs[c] : s.n \in table[c] \cup freed[c]
  /\ table[c] \cap freed[c] = {}
  /\ pc[c] \notin Boots \cup {"running"} => table[c] = {}
  /\ \A m \in inbox[c] : m.n \in freed[c] => "crossed" \in past[c]
  /\ Lost(c) # {} => "loss" \in past[c]
  /\ pub[c] = "freed" => "loss" \in past[c]

Excused(c) ==
  /\ damage[c] \cap {"publisher", "subscriber"} # {} => "loss" \in past[c] \/ pub[c] = "null"
  /\ "bundle" \in damage[c] => "crossed" \in past[c]
  /\ "twice" \notin damage[c]

Sound(c) == Clean(c) /\ Excused(c)

\* A process that nothing happens to.
LEMMA OthersStaySound ==
  ASSUME NEW d, Sound(d), subs'[d] = subs[d], table'[d] = table[d], freed'[d] = freed[d],
         inbox'[d] = inbox[d], past[d] \subseteq past'[d], pub'[d] = pub[d],
         damage'[d] = damage[d], pc'[d] = pc[d]
  PROVE  Sound(d)'
  <1>1. Lost(d)' = Lost(d)
    BY DEF Lost
  <1>2. QED
    BY <1>1 DEF Sound, Clean, Excused

\* To publish on a context that was freed is a damage.
LEMMA PublishingIsExcused ==
  ASSUME AllOK, NEW c \in Client, NEW d \in Client, Sound(d), UNCHANGED <<past, pub>>,
         damage' = IF pub[c] = "live" THEN damage ELSE Mark(damage, c, {"publisher"})
  PROVE  Excused(d)'
  <1>1. pub[d] \in {"live", "null", "freed"}
    BY DEF AllOK, LinksOK
  <1>2. damage'[d] = damage[d] \/ (damage'[d] = damage[d] \cup {"publisher"} /\ pub[d] # "live")
    BY DEF Mark, AllOK, PastOK
  <1>3. QED
    BY <1>1, <1>2 DEF Sound, Clean, Excused

LEMMA BootIsSound ==
  ASSUME AllOK, NEW c \in Client, NEW k \in Id, pc[c] = "idle", Boot(c, k),
         NEW d \in Client, Sound(d)
  PROVE  Sound(d)'
  <1>1. /\ UNCHANGED <<past, pub, freed, inbox>> /\ pc' = [pc EXCEPT ![c] = "boot_get"]
        /\ starts' = starts + 1
    BY DEF Boot
  <1>2. Excused(d)'
    BY <1>1, PublishingIsExcused DEF Boot, Publish
  <1>3. Clean(d)'
    <2>1. CASE UNCHANGED <<subs, table>>
      <3>1. Lost(d)' = Lost(d) /\ (pc'[d] = pc[d] \/ pc'[d] \in Boots)
        BY <1>1, <2>1 DEF Lost, Boots, AllOK, ThreadOK
      <3>2. QED
        BY <1>1, <2>1, <3>1 DEF Sound, Clean
    <2>2. CASE /\ subs' = [subs EXCEPT ![c] = @ \cup {[n |-> starts', id |-> k, st |-> "asked"]}]
               /\ table' = [table EXCEPT ![c] = @ \cup {starts'}]
      <3>1. CASE d = c
        <4>1. /\ subs'[d] = subs[d] \cup {[n |-> starts', id |-> k, st |-> "asked"]}
              /\ table'[d] = table[d] \cup {starts'} /\ pc'[d] = "boot_get"
          BY <1>1, <2>2, <3>1 DEF AllOK, LinksOK, ThreadOK
        <4>2. starts' \notin freed[d]
          BY <1>1 DEF AllOK, LinksOK, PastOK
        <4>3. \A s \in subs'[d] : s.n \in table'[d] \cup freed[d]
          BY <4>1 DEF Sound, Clean
        <4>4. \E s \in subs'[d] : s.n = starts'
          <5> DEFINE new == [n |-> starts', id |-> k, st |-> "asked"]
          <5>1. new.n = starts' /\ new \in subs'[d]
            BY <4>1
          <5> HIDE DEF new
          <5>2. QED
            BY <5>1
        <4>5. Lost(d)' \subseteq Lost(d)
          <5> SUFFICES ASSUME NEW x \in table'[d], \A s \in subs'[d] : s.n # x
                       PROVE  x \in table[d] /\ \A s \in subs[d] : s.n # x
            BY DEF Lost
          <5>1. x # starts'
            BY <4>4
          <5>2. QED
            BY <4>1, <5>1
        <4>6. QED
          BY <1>1, <4>1, <4>2, <4>3, <4>5 DEF Sound, Clean, Boots
      <3>2. CASE d # c
        <4>1. subs'[d] = subs[d] /\ table'[d] = table[d] /\ pc'[d] = pc[d]
          BY <1>1, <2>2, <3>2 DEF AllOK, LinksOK, ThreadOK
        <4>2. Lost(d)' = Lost(d)
          BY <4>1 DEF Lost
        <4>3. QED
          BY <1>1, <4>1, <4>2 DEF Sound, Clean
      <3>3. QED
        BY <3>1, <3>2
    <2>3. QED
      BY <2>1, <2>2 DEF Boot, Subscribe, connectAndDispatch
  <1>4. QED
    BY <1>2, <1>3 DEF Sound

LEMMA StoppingIsSound ==
  ASSUME AllOK, NEW c \in Client, NEW k \in Id, Stopping(c, k), NEW d \in Client, Sound(d)
  PROVE  Sound(d)'
  <1>1. /\ UNCHANGED <<pub, subs, inbox>> /\ pc' = [pc EXCEPT ![c] = "stop_get"]
        /\ freed' = [freed EXCEPT ![c] = @ \cup table[c]] /\ table' = [table EXCEPT ![c] = {}]
        /\ damage' = Mark(damage, c, (IF Lost(c) # {} THEN {"subscriber"} ELSE {})
                               \cup (IF table[c] \cap freed[c] # {} THEN {"twice"} ELSE {}))
        /\ past' = Mark(past, c, IF inbox[c] # {} THEN {"crossed"} ELSE {})
    BY DEF Stopping, UnsubscribeAll, freeBundle
  <1>2. CASE d = c
    <2>1. /\ freed'[d] = freed[d] \cup table[d] /\ table'[d] = {} /\ pc'[d] = "stop_get"
          /\ damage'[d] = damage[d] \cup (IF Lost(d) # {} THEN {"subscriber"} ELSE {})
          /\ past[d] \subseteq past'[d] /\ (inbox[d] # {} => "crossed" \in past'[d])
      BY <1>1, <1>2 DEF Mark, Sound, Clean, AllOK, ThreadOK, LinksOK, PastOK
    <2>2. Lost(d)' = {}
      BY <2>1 DEF Lost
    <2>3. Clean(d)'
      BY <1>1, <2>1, <2>2 DEF Sound, Clean
    <2>4. Excused(d)'
      BY <1>1, <2>1 DEF Sound, Clean, Excused
    <2>5. QED
      BY <2>3, <2>4 DEF Sound
  <1>3. CASE d # c
    <2>1. /\ freed'[d] = freed[d] /\ table'[d] = table[d] /\ pc'[d] = pc[d]
          /\ damage'[d] = damage[d] /\ past[d] \subseteq past'[d]
      BY <1>1, <1>3 DEF Mark, AllOK, ThreadOK, LinksOK, PastOK
    <2>2. QED
      BY <1>1, <2>1, OthersStaySound
  <1>4. QED
    BY <1>2, <1>3

LEMMA ClosedIsSound ==
  ASSUME AllOK, NEW c \in Client, Closed(c), NEW d \in Client, Sound(d)
  PROVE  Sound(d)'
  <1>1. CASE d = c
    <2>1. /\ pc'[d] = "over" /\ subs'[d] = {} /\ inbox'[d] = {} /\ table'[d] = {} /\ freed'[d] = {}
          /\ pub'[d] = "null" /\ damage'[d] = {}
      BY <1>1 DEF Closed, AllOK, ThreadOK, LinksOK, PastOK
    <2>2. Lost(d)' = {}
      BY <2>1 DEF Lost
    <2>3. QED
      BY <2>1, <2>2 DEF Sound, Clean, Excused
  <1>2. CASE d # c
    <2>1. /\ pc'[d] = pc[d] /\ subs'[d] = subs[d] /\ inbox'[d] = inbox[d] /\ table'[d] = table[d]
          /\ freed'[d] = freed[d] /\ pub'[d] = pub[d] /\ damage'[d] = damage[d] /\ past'[d] = past[d]
      BY <1>2 DEF Closed, AllOK, ThreadOK, LinksOK, PastOK
    <2>2. QED
      BY <2>1, OthersStaySound
  <1>3. QED
    BY <1>1, <1>2

LEMMA StoppedIsSound ==
  ASSUME AllOK, NEW c \in Client, pc[c] \in Stops, NEW remain, NEW event,
         Stopped(c, remain, event), NEW d \in Client, Sound(d)
  PROVE  Sound(d)'
  <1>1. CASE quitting[c]
    BY <1>1, ClosedIsSound DEF Stopped
  <1>2. CASE ~quitting[c]
    <2>1. /\ pc' = [pc EXCEPT ![c] = "idle"] /\ past' = Mark(past, c, event)
          /\ UNCHANGED <<pub, subs, inbox, table, freed, damage>>
      BY <1>2 DEF Stopped
    <2>2. past[d] \subseteq past'[d]
      BY <2>1 DEF Mark, AllOK, PastOK
    <2>3. Lost(d)' = Lost(d)
      BY <2>1 DEF Lost
    <2>4. pc'[d] = pc[d] \/ (pc[d] \in Stops /\ pc'[d] = "idle")
      BY <2>1 DEF AllOK, ThreadOK
    <2>5. pc'[d] \notin Boots \cup {"running"} => table[d] = {}
      BY <2>4 DEF Sound, Clean, Stops, Boots
    <2>6. QED
      BY <2>1, <2>2, <2>3, <2>5 DEF Sound, Clean, Excused
  <1>3. QED
    BY <1>1, <1>2

LEMMA StepIsSound ==
  ASSUME AllOK, NEW c \in Client, User(c) \/ Thread(c) \/ World(c), NEW d \in Client, Sound(d)
  PROVE  Sound(d)'
  <1>1. ASSUME Launch(c) PROVE Sound(d)'
    <2>1. /\ UNCHANGED <<subs, table, freed, inbox, past, damage>> /\ pc[c] = "down"
          /\ pc' = [pc EXCEPT ![c] = "idle"] \/ pc' = [pc EXCEPT ![c] = "hollow"]
          /\ pub' = pub \/ pub' = [pub EXCEPT ![c] = "null"]
      BY <1>1 DEF Launch
    <2>2. pub'[d] \in {pub[d], "null"} /\ (pc'[d] = pc[d] \/ pc[d] = "down")
      BY <2>1 DEF AllOK, LinksOK, ThreadOK
    <2>3. Lost(d)' = Lost(d)
      BY <2>1 DEF Lost
    <2>4. pc'[d] \notin Boots \cup {"running"} => table[d] = {}
      BY <2>2 DEF Sound, Clean, Boots
    <2>5. QED
      BY <2>1, <2>2, <2>3, <2>4 DEF Sound, Clean, Excused
  <1>2. ASSUME NEW k \in Id, UseSessionKey(c, k) PROVE Sound(d)'
    BY <1>2, BootIsSound DEF UseSessionKey
  <1>3. ASSUME Start(c) \/ Cancel(c) PROVE Sound(d)'
    <2>1. setting[c] \in Id
      BY <1>3 DEF Start, Cancel, AllOK, SettingsOK
    <2>2. QED
      BY <1>3, <2>1, BootIsSound DEF Start, Cancel
  <1>4. ASSUME Stop(c) \/ Quit(c) PROVE Sound(d)'
    <2>1. setting[c] \in Id
      BY <1>4 DEF Stop, Quit, AllOK, SettingsOK
    <2>2. QED
      BY <1>4, <2>1, StoppingIsSound DEF Stop, Quit
  <1>5. ASSUME ShowPreferences(c) \/ GenerateSessionID(c) \/ WindowWillClose(c) PROVE Sound(d)'
    BY <1>5, OthersStaySound DEF ShowPreferences, GenerateSessionID, WindowWillClose
  <1>6. ASSUME BootGet(c) PROVE Sound(d)'
    <2>1. /\ UNCHANGED <<pub, subs, table, freed, past, damage>> /\ pc[c] = "boot_get"
          /\ pc' = [pc EXCEPT ![c] = "boot_put"]
          /\ inbox' = inbox \/ \E m \in inbox[c] : inbox' = [inbox EXCEPT ![c] = @ \ {m}]
      BY <1>6 DEF BootGet, Together
    <2>2. inbox'[d] \subseteq inbox[d] /\ Lost(d)' = Lost(d)
      BY <2>1, SMTT(60) DEF Lost, AllOK, LinksOK
    <2>3. pc'[d] \notin Boots \cup {"running"} => table[d] = {}
      BY <2>1 DEF Sound, Clean, Boots, AllOK, ThreadOK
    <2>4. QED
      BY <2>1, <2>2, <2>3 DEF Sound, Clean, Excused
  <1>7. ASSUME BootPut(c) PROVE Sound(d)'
    <2>1. /\ UNCHANGED <<pub, subs, table, freed, past, damage, inbox>> /\ pc[c] = "boot_put"
          /\ pc' = [pc EXCEPT ![c] = "running"]
      BY <1>7 DEF BootPut
    <2>2. Lost(d)' = Lost(d)
      BY <2>1 DEF Lost
    <2>3. pc'[d] \notin Boots \cup {"running"} => table[d] = {}
      BY <2>1 DEF Sound, Clean, Boots, AllOK, ThreadOK
    <2>4. QED
      BY <2>1, <2>2, <2>3 DEF Sound, Clean, Excused
  <1>8. ASSUME StopGet(c) PROVE Sound(d)'
    <2>1. CASE Stopped(c, peers[c], {"kept"})
      BY <1>8, <2>1, StoppedIsSound DEF StopGet, Stops
    <2>2. CASE /\ pc' = [pc EXCEPT ![c] = "stop_put"]
               /\ UNCHANGED <<pub, subs, table, freed, inbox, past, damage>>
      <3>1. Lost(d)' = Lost(d)
        BY <2>2 DEF Lost
      <3>2. pc[c] = "stop_get"
        BY <1>8 DEF StopGet
      <3>3. pc'[d] \notin Boots \cup {"running"} => table[d] = {}
        BY <2>2, <3>2 DEF Sound, Clean, Boots, AllOK, ThreadOK
      <3>4. QED
        BY <2>2, <3>1, <3>3 DEF Sound, Clean, Excused
    <2>3. QED
      BY <1>8, <2>1, <2>2 DEF StopGet
  <1>9. ASSUME StopPut(c) PROVE Sound(d)'
    BY <1>9, StoppedIsSound DEF StopPut, Stops
  <1>10. ASSUME OnTimer(c) PROVE Sound(d)'
    <2>1. UNCHANGED <<pub, subs, table, freed, inbox, past, pc>>
      BY <1>10 DEF OnTimer
    <2>2. Excused(d)'
      BY <1>10, <2>1, PublishingIsExcused DEF OnTimer, PublishText
    <2>3. Lost(d)' = Lost(d)
      BY <2>1 DEF Lost
    <2>4. QED
      BY <2>1, <2>2, <2>3 DEF Sound, Clean
  <1>11. ASSUME HandlePeer(c) PROVE Sound(d)'
    <2>1. PICK m \in inbox[c] :
            /\ inbox' = [inbox EXCEPT ![c] = @ \ {m}]
            /\ damage' = IF m.n \in freed[c] THEN Mark(damage, c, {"bundle"}) ELSE damage
            /\ UNCHANGED <<pub, subs, table, freed, past, pc>>
      BY <1>11 DEF HandlePeer
    <2>2. Lost(d)' = Lost(d) /\ inbox'[d] \subseteq inbox[d]
      BY <2>1 DEF Lost, AllOK, LinksOK
    <2>3. Clean(d)'
      BY <2>1, <2>2 DEF Sound, Clean
    <2>4. damage'[d] = damage[d] \/ (damage'[d] = damage[d] \cup {"bundle"} /\ "crossed" \in past[d])
      BY <2>1 DEF Mark, Sound, Clean, AllOK, PastOK
    <2>5. Excused(d)'
      BY <2>1, <2>4 DEF Sound, Excused
    <2>6. QED
      BY <2>3, <2>5 DEF Sound
  <1>12. ASSUME ServerPublish(c) PROVE Sound(d)'
    <2> DEFINE To == {s \in subs[d] : s.st = "live" /\ s.id = Head(outbox[c])}
    <2>1. /\ inbox'[d] = inbox[d] \cup {[n |-> s.n, from |-> c] : s \in To}
          /\ past'[d] = IF \E s \in To : s.n \in freed[d] THEN past[d] \cup {"crossed"} ELSE past[d]
          /\ UNCHANGED <<pub, subs, table, freed, damage, pc>>
      BY <1>12 DEF ServerPublish
    <2>2. past[d] \subseteq past'[d] /\ Lost(d)' = Lost(d)
      BY <2>1 DEF Lost
    <2>3. \A m \in inbox'[d] : m.n \in freed[d] => "crossed" \in past'[d]
      BY <2>1, <2>2 DEF Sound, Clean
    <2>4. QED
      BY <2>1, <2>2, <2>3 DEF Sound, Clean, Excused
  <1>13. ASSUME ServerSubscribe(c) PROVE Sound(d)'
    <2>1. PICK s \in subs[c] : subs' = [subs EXCEPT ![c] = (@ \ {s}) \cup {[s EXCEPT !.st = "live"]}]
      BY <1>13 DEF ServerSubscribe
    <2>2. UNCHANGED <<pub, table, freed, inbox, past, damage, pc>>
      BY <1>13 DEF ServerSubscribe
    <2>3. s \in Sub /\ [s EXCEPT !.st = "live"].n = s.n
      BY DEF AllOK, LinksOK, Sub
    <2>4. /\ \A u \in subs'[d] : \E v \in subs[d] : u.n = v.n
          /\ \A v \in subs[d] : \E u \in subs'[d] : u.n = v.n
      BY <2>1, <2>3 DEF AllOK, LinksOK
    <2>5. Lost(d)' = Lost(d)
      BY <2>2, <2>4 DEF Lost
    <2>6. QED
      BY <2>2, <2>4, <2>5 DEF Sound, Clean, Excused
  <1>14. ASSUME ServerUnsubscribe(c) PROVE Sound(d)'
    <2>1. PICK s \in subs[c] : s.n \in freed[c] /\ subs' = [subs EXCEPT ![c] = @ \ {s}]
      BY <1>14 DEF ServerUnsubscribe
    <2>2. UNCHANGED <<pub, table, freed, inbox, past, damage, pc>>
      BY <1>14 DEF ServerUnsubscribe
    <2>3. subs'[d] \subseteq subs[d] /\ \A v \in subs[d] \ subs'[d] : v.n \in freed[d]
      BY <2>1 DEF AllOK, LinksOK
    <2>4. \A n \in table[d] : \A v \in subs[d] : v.n = n => v \in subs'[d]
      BY <2>3 DEF Sound, Clean
    <2>5. Lost(d)' \subseteq Lost(d)
      BY <2>2, <2>4 DEF Lost
    <2>6. QED
      BY <2>2, <2>3, <2>5 DEF Sound, Clean, Excused
  <1>15. ASSUME Lose(c) PROVE Sound(d)'
    <2>1. /\ UNCHANGED <<table, freed, inbox, damage, pc>> /\ past' = Mark(past, c, {"loss"})
          /\ \/ pub[c] = "live" /\ pub' = [pub EXCEPT ![c] = "freed"] /\ subs' = subs
             \/ \E s \in subs[c] : subs' = [subs EXCEPT ![c] = @ \ {s}] /\ pub' = pub
      BY <1>15 DEF Lose
    <2>2. CASE d = c
      <3>1. "loss" \in past'[d] /\ past[d] \subseteq past'[d] /\ subs'[d] \subseteq subs[d]
        BY <2>1, <2>2 DEF Mark, AllOK, PastOK, LinksOK
      <3>2. QED
        BY <2>1, <3>1 DEF Sound, Clean, Excused
    <2>3. CASE d # c
      <3>1. past'[d] = past[d] /\ subs'[d] = subs[d] /\ pub'[d] = pub[d]
        BY <2>1, <2>3 DEF Mark, AllOK, PastOK, LinksOK
      <3>2. QED
        BY <2>1, <3>1, OthersStaySound
    <2>4. QED
      BY <2>2, <2>3
  <1>16. ASSUME Crash(c) \/ Fall(c) PROVE Sound(d)'
    BY <1>16, ClosedIsSound DEF Crash, Fall, Gone
  <1>17. QED
    BY <1>1, <1>2, <1>3, <1>4, <1>5, <1>6, <1>7, <1>8, <1>9, <1>10, <1>11, <1>12, <1>13, <1>14,
       <1>15, <1>16 DEF User, Thread, World

LEMMA AllAreSound == Spec => [](\A c \in Client : Sound(c))
  <1>1. Init => \A c \in Client : Sound(c)
    BY DEF Init, Sound, Clean, Excused, Lost
  <1>2. AllOK /\ (\A c \in Client : Sound(c)) /\ [Next]_vars => (\A c \in Client : Sound(c))'
    <2> SUFFICES ASSUME AllOK, \A c \in Client : Sound(c), [Next]_vars,
                        NEW d \in Client
                 PROVE  Sound(d)'
      OBVIOUS
    <2>1. CASE UNCHANGED vars
      BY <2>1, OthersStaySound DEF vars
    <2>2. QED
      BY <2>1, StepIsSound DEF Next
  <1>3. QED
    BY <1>1, <1>2, AllStaysOK, PTL DEF Spec

\* unsubscribeAll frees the bundles of all handlers at once, a lost connection frees its
\* context, and pointers to both stay: what is used afterwards is used because a
\* connection broke or because a HELLO crossed a stop.  No bundle is freed twice.
THEOREM DamagesHaveCauses == Spec => []DamageHasACause
  <1>1. (\A c \in Client : Sound(c)) => DamageHasACause
    BY DEF Sound, Excused, DamageHasACause
  <1>2. QED
    BY <1>1, AllAreSound, PTL

-----------------------------------------------------------------------------

(***************************************************************************)
(* Who runs is on the list of its session.  A list is read in one step of  *)
(* the main thread and written in another, and nothing but the order of    *)
(* events keeps a second process out from between: so what matters of a    *)
(* list is claimed as long as nothing has disturbed it.                    *)
(***************************************************************************)

In == {"running"} \cup Stops
OnList(c, k) == lists[k] # NoKey /\ BagIn(c, lists[k])
Alone(k) == strain[k] \cap {"overlap", "outage", "moved"} = {}

\* Two operations on one list are known to have overlapped.
Serial(c, d) ==
  c # d /\ {pc[c], pc[d]} \subseteq Busy /\ key[c] = key[d] => "overlap" \in strain[key[c]]

\* An operation is on the list of the process's session, or the defaults have moved.
Keyed(c) ==
  /\ pc[c] \in Boots => key[c] = session[c]
  /\ pc[c] \in Stops /\ key[c] # session[c] =>
       "moved" \in strain[key[c]] /\ "moved" \in strain[session[c]]

\* What is about to be written follows from what is there.
Fresh(c, k) ==
  Alone(k) /\ key[c] = k =>
    /\ pc[c] = "boot_put" =>
         held[c] = IF lists[k] = NoKey THEN SetToBag({c}) ELSE BagAdd(lists[k], c)
    /\ pc[c] = "stop_put" => held[c] = lists[k] /\ lists[k] # NoKey

Listed(c, k) == Alone(k) /\ session[c] = k /\ pc[c] \in In => OnList(c, k)

Only(c, k) ==
  Alone(k) /\ "ended" \notin strain[k] /\ OnList(c, k) => session[c] = k /\ pc[c] \in In

Entry(c, k) == Fresh(c, k) /\ Listed(c, k) /\ Only(c, k)

Orderly ==
  /\ \A c, d \in Client : Serial(c, d)
  /\ \A c \in Client : Keyed(c)
  /\ \A c \in Client, k \in Id : Entry(c, k)

\* Nothing that has happened to a session is forgotten.
Remembers == \A k \in Id : strain[k] \subseteq strain'[k]

\* Only the process that acts changes its place.
Same(d) == pc'[d] = pc[d] /\ session'[d] = session[d] /\ key'[d] = key[d] /\ held'[d] = held[d]

LEMMA StrainedGrows ==
  ASSUME AllOK, NEW k \in Id, NEW s, strain' = Strained(k, s)
  PROVE  Remembers /\ strain'[k] = strain[k] \cup s
  BY DEF Strained, Remembers, AllOK, PastOK

LEMMA ExecutedDoes ==
  ASSUME AllOK, NEW c \in Client, NEW k \in Id, NEW x, Executed(c, k, [lists EXCEPT ![k] = x])
  PROVE  /\ Remembers /\ \A j \in Id \ {k} : lists'[j] = lists[j]
         /\ lists'[k] = x \/ "outage" \in strain'[k]
  <1>1. CASE lists' = [lists EXCEPT ![k] = x] /\ UNCHANGED strain
    BY <1>1 DEF Remembers, AllOK, ServerOK
  <1>2. CASE lists' \in {lists, [lists EXCEPT ![k] = x]} /\ strain' = Strained(k, {"outage"})
    <2>1. Remembers /\ "outage" \in strain'[k]
      BY <1>2, StrainedGrows
    <2>2. QED
      BY <1>2, <2>1 DEF AllOK, ServerOK
  <1>3. QED
    BY <1>1, <1>2 DEF Executed

LEMMA StoppedDoes ==
  ASSUME AllOK, NEW c \in Client, NEW remain, NEW event, Stopped(c, remain, event)
  PROVE  /\ \A d \in Client : d # c => Same(d)
         /\ pc'[c] \in {"idle", "over"} /\ session'[c] = NoId /\ key'[c] = NoId
  BY DEF Stopped, NoSession, Closed, Same, AllOK, ThreadOK

LEMMA GoneDoes ==
  ASSUME AllOK, NEW c \in Client, Gone(c)
  PROVE  /\ \A d \in Client : d # c => Same(d)
         /\ pc'[c] = "over" /\ session'[c] = NoId /\ key'[c] = NoId
         /\ Remembers /\ lists' = lists
         /\ session[c] \in Id => "ended" \in strain'[session[c]]
  <1>1. /\ \A d \in Client : d # c => Same(d)
        /\ pc'[c] = "over" /\ session'[c] = NoId /\ key'[c] = NoId /\ lists' = lists
    BY DEF Gone, NoSession, Closed, Same, AllOK, ThreadOK
  <1>2. CASE session[c] = NoId
    <2>1. strain' = strain
      BY <1>2 DEF Gone
    <2>2. QED
      BY <1>1, <1>2, <2>1 DEF Remembers
  <1>3. CASE session[c] \in Id
    <2>1. strain' = Strained(session[c], {"ended"})
      BY <1>3 DEF Gone
    <2>2. Remembers /\ "ended" \in strain'[session[c]]
      BY <1>3, <2>1, StrainedGrows
    <2>3. QED
      BY <1>1, <2>2
  <1>4. QED
    BY <1>2, <1>3 DEF AllOK, ThreadOK

LEMMA BootDoes ==
  ASSUME AllOK, NEW c \in Client, NEW k \in Id, Boot(c, k)
  PROVE  /\ \A d \in Client : d # c => Same(d)
         /\ pc'[c] = "boot_get" /\ session'[c] = k /\ key'[c] = k /\ lists' = lists
         /\ Remembers /\ Overlap(c, k) \subseteq strain'[k]
  <1>1. /\ \A d \in Client : d # c => Same(d)
        /\ pc'[c] = "boot_get" /\ session'[c] = k /\ key'[c] = k /\ lists' = lists
    BY DEF Boot, Same, AllOK, ThreadOK
  <1>2. CASE strain' = Strained(k, Overlap(c, k) \cup Unheard(c))
    BY <1>1, <1>2, StrainedGrows
  <1>3. CASE strain' = Strained(k, {"outage"} \cup Overlap(c, k) \cup Unheard(c))
    BY <1>1, <1>3, StrainedGrows
  <1>4. QED
    BY <1>2, <1>3 DEF Boot, Subscribe

LEMMA StoppingDoes ==
  ASSUME AllOK, NEW c \in Client, NEW k \in Id, Stopping(c, k), session[c] \in Id
  PROVE  /\ \A d \in Client : d # c => Same(d)
         /\ pc'[c] = "stop_get" /\ session'[c] = session[c] /\ key'[c] = k /\ lists' = lists
         /\ Remembers /\ Overlap(c, k) \subseteq strain'[k]
         /\ k # session[c] => "moved" \in strain'[k] /\ "moved" \in strain'[session[c]]
  <1>1. /\ \A d \in Client : d # c => Same(d)
        /\ pc'[c] = "stop_get" /\ session'[c] = session[c] /\ key'[c] = k /\ lists' = lists
    BY DEF Stopping, Same, AllOK, ThreadOK
  <1>2. \A j \in Id : strain'[j] = strain[j]
                  \cup (IF j = k THEN Overlap(c, k) ELSE {})
                  \cup (IF j \in {k, session[c]} /\ k # session[c] THEN {"moved"} ELSE {})
    BY DEF Stopping
  <1>3. QED
    BY <1>1, <1>2 DEF Remembers

LEMMA QuietDoes ==
  ASSUME AllOK, NEW c \in Client,
         \/ Launch(c) \/ ShowPreferences(c) \/ GenerateSessionID(c) \/ WindowWillClose(c)
         \/ OnTimer(c) \/ HandlePeer(c)
         \/ ServerPublish(c) \/ ServerSubscribe(c) \/ ServerUnsubscribe(c) \/ Lose(c)
  PROVE  /\ Remembers /\ UNCHANGED <<lists, session, key, held>>
         /\ \A d \in Client : pc'[d] = pc[d] \/ {pc[d], pc'[d]} \cap (Busy \cup {"running"}) = {}
  <1>1. ASSUME Launch(c)
        PROVE  /\ UNCHANGED <<lists, session, key, held, strain>>
               /\ \A d \in Client : pc'[d] = pc[d] \/ {pc[d], pc'[d]} \cap (Busy \cup {"running"}) = {}
    BY <1>1 DEF Launch, AllOK, ThreadOK, Busy
  <1>2. ASSUME \/ ShowPreferences(c) \/ GenerateSessionID(c) \/ WindowWillClose(c)
               \/ OnTimer(c) \/ HandlePeer(c) \/ ServerSubscribe(c) \/ ServerUnsubscribe(c)
        PROVE  UNCHANGED <<lists, thread, strain>>
    BY <1>2 DEF ShowPreferences, GenerateSessionID, WindowWillClose, OnTimer, HandlePeer,
                ServerSubscribe, ServerUnsubscribe
  <1>3. ASSUME ServerPublish(c) PROVE Remembers /\ UNCHANGED <<lists, thread>>
    <2>1. /\ UNCHANGED <<lists, thread>> /\ Head(outbox[c]) \in Id
          /\ strain' = strain \/ strain' = Strained(Head(outbox[c]), {"haste"})
      BY <1>3 DEF ServerPublish, AllOK, LinksOK
    <2>2. QED
      BY <2>1, StrainedGrows DEF Remembers
  <1>4. ASSUME Lose(c) PROVE Remembers /\ UNCHANGED <<lists, thread>>
    <2>1. UNCHANGED <<lists, thread>>
      BY <1>4 DEF Lose
    <2>2. CASE strain' = [k \in Id |-> IF k \in ToSet(outbox[c]) THEN strain[k] \cup {"loss"}
                                                                ELSE strain[k]]
      BY <2>1, <2>2 DEF Remembers
    <2>3. CASE \E s \in subs[c] : strain' = Strained(s.id, {"loss"})
      <3>1. PICK s \in subs[c] : strain' = Strained(s.id, {"loss"})
        BY <2>3
      <3>2. s.id \in Id
        BY DEF AllOK, LinksOK, Sub
      <3>3. QED
        BY <2>1, <3>1, <3>2, StrainedGrows
    <2>4. QED
      BY <1>4, <2>2, <2>3 DEF Lose
  <1>5. QED
    BY <1>1, <1>2, <1>3, <1>4 DEF Remembers

LEMMA SerialStays ==
  ASSUME AllOK, Orderly, Remembers,
         \A d \in Client : pc'[d] \in Busy => pc[d] \in Busy /\ key'[d] = key[d]
  PROVE  \A c, d \in Client : Serial(c, d)'
  BY DEF Orderly, Serial, Remembers, AllOK, ThreadOK

LEMMA SerialBegins ==
  ASSUME AllOK, Orderly, Remembers, NEW c \in Client, NEW k \in Id, key'[c] = k,
         \A d \in Client : d # c => Same(d), Overlap(c, k) \subseteq strain'[k]
  PROVE  \A a, b \in Client : Serial(a, b)'
  <1> SUFFICES ASSUME NEW a \in Client, NEW b \in Client, a # b, {pc'[a], pc'[b]} \subseteq Busy,
                      key'[a] = key'[b]
               PROVE  "overlap" \in strain'[key'[a]]
    BY DEF Serial
  <1>1. CASE a # c /\ b # c
    <2>1. "overlap" \in strain[key[a]] /\ key'[a] = key[a] /\ key[a] \in Id
      BY <1>1 DEF Orderly, Serial, Same, AllOK, ThreadOK
    <2>2. QED
      BY <2>1 DEF Remembers
  <1>2. CASE a = c \/ b = c
    <2>1. PICK d \in {a, b} : d # c /\ Same(d) /\ key'[d] = k /\ pc'[d] \in Busy
      BY <1>2
    <2>2. "overlap" \in Overlap(c, k)
      BY <2>1 DEF Overlap, Same
    <2>3. QED
      BY <1>2, <2>2
  <1>3. QED
    BY <1>1, <1>2

LEMMA KeyedStays ==
  ASSUME AllOK, NEW c \in Client, Keyed(c), Remembers, session'[c] = session[c], key'[c] = key[c],
         \/ pc'[c] = pc[c] \/ pc'[c] \notin Busy
         \/ {pc[c], pc'[c]} \subseteq Boots \/ {pc[c], pc'[c]} \subseteq Stops
  PROVE  Keyed(c)'
  <1>1. pc[c] \in Stops => key[c] \in Id /\ session[c] \in Id
    BY DEF AllOK, ThreadOK, Stops, Busy
  <1>2. Boots \subseteq Busy /\ Stops \subseteq Busy /\ Boots \cap Stops = {}
    BY DEF Boots, Stops, Busy
  <1>3. QED
    BY <1>1, <1>2 DEF Keyed, Remembers

LEMMA EntryStays ==
  ASSUME NEW c \in Client, NEW k \in Id, Entry(c, k), Remembers, lists'[k] = lists[k],
         session'[c] = session[c], key'[c] = key[c], held'[c] = held[c],
         pc'[c] = pc[c] \/ {pc[c], pc'[c]} \cap (Busy \cup {"running"}) = {}
  PROVE  Entry(c, k)'
  <1>1. (Alone(k)' => Alone(k)) /\ OnList(c, k)' = OnList(c, k)
    BY DEF Alone, Remembers, OnList
  <1>2. In \subseteq Busy \cup {"running"} /\ {"boot_put", "stop_put"} \subseteq Busy
    BY DEF In, Stops, Busy
  <1>3. Fresh(c, k)' /\ Listed(c, k)'
    BY <1>1, <1>2 DEF Entry, Fresh, Listed
  <1>4. Only(c, k)'
    BY <1>1, <1>2 DEF Entry, Only, Remembers
  <1>5. QED
    BY <1>3, <1>4 DEF Entry

LEMMA QuietIsOrderly ==
  ASSUME AllOK, Orderly, NEW c \in Client,
         \/ Launch(c) \/ ShowPreferences(c) \/ GenerateSessionID(c) \/ WindowWillClose(c)
         \/ OnTimer(c) \/ HandlePeer(c)
         \/ ServerPublish(c) \/ ServerSubscribe(c) \/ ServerUnsubscribe(c) \/ Lose(c)
  PROVE  Orderly'
  <1>1. /\ Remembers /\ UNCHANGED <<lists, session, key, held>>
        /\ \A d \in Client : pc'[d] = pc[d] \/ {pc[d], pc'[d]} \cap (Busy \cup {"running"}) = {}
    BY QuietDoes
  <1>2. \A a, b \in Client : Serial(a, b)'
    BY <1>1, SerialStays
  <1>3. \A d \in Client : Keyed(d)'
    BY <1>1, KeyedStays DEF Orderly
  <1>4. \A d \in Client, k \in Id : Entry(d, k)'
    BY <1>1, EntryStays DEF Orderly
  <1>5. QED
    BY <1>2, <1>3, <1>4 DEF Orderly

\* What an operation of one process leaves of the others.
LEMMA OthersStayOrderly ==
  ASSUME AllOK, Orderly, Remembers, NEW c \in Client, NEW d \in Client, d # c, Same(d)
  PROVE  Keyed(d)' /\ \A k \in Id : lists'[k] = lists[k] => Entry(d, k)'
  <1>1. Keyed(d)'
    BY KeyedStays DEF Orderly, Same
  <1>2. QED
    BY <1>1, EntryStays DEF Orderly, Same

LEMMA BootIsOrderly ==
  ASSUME AllOK, Orderly, NEW c \in Client, NEW k \in Id, pc[c] = "idle", Boot(c, k)
  PROVE  Orderly'
  <1>1. /\ \A d \in Client : d # c => Same(d)
        /\ pc'[c] = "boot_get" /\ session'[c] = k /\ key'[c] = k /\ lists' = lists
        /\ Remembers /\ Overlap(c, k) \subseteq strain'[k]
    BY BootDoes
  <1>2. \A a, b \in Client : Serial(a, b)'
    BY <1>1, SerialBegins
  <1>3. Keyed(c)'
    BY <1>1 DEF Keyed, Stops
  <1>4. ASSUME NEW j \in Id PROVE Entry(c, j)'
    <2>1. Fresh(c, j)' /\ Listed(c, j)'
      BY <1>1 DEF Fresh, Listed, In, Stops
    <2>2. Only(c, j)'
      <3>1. Only(c, j) /\ pc[c] \notin In
        BY DEF Orderly, Entry, In, Stops
      <3>2. QED
        BY <1>1, <3>1 DEF Only, Remembers, Alone, OnList
    <2>3. QED
      BY <2>1, <2>2 DEF Entry
  <1>5. QED
    BY <1>1, <1>2, <1>3, <1>4, OthersStayOrderly DEF Orderly

LEMMA StoppingIsOrderly ==
  ASSUME AllOK, Orderly, NEW c \in Client, NEW k \in Id, pc[c] = "running", Stopping(c, k)
  PROVE  Orderly'
  <1>0. session[c] \in Id
    BY DEF AllOK, ThreadOK
  <1>1. /\ \A d \in Client : d # c => Same(d)
        /\ pc'[c] = "stop_get" /\ session'[c] = session[c] /\ key'[c] = k /\ lists' = lists
        /\ Remembers /\ Overlap(c, k) \subseteq strain'[k]
        /\ k # session[c] => "moved" \in strain'[k] /\ "moved" \in strain'[session[c]]
    BY <1>0, StoppingDoes
  <1>2. \A a, b \in Client : Serial(a, b)'
    BY <1>1, SerialBegins
  <1>3. Keyed(c)'
    BY <1>1 DEF Keyed, Boots
  <1>4. ASSUME NEW j \in Id PROVE Entry(c, j)'
    <2>1. (Alone(j)' => Alone(j)) /\ OnList(c, j)' = OnList(c, j)
      BY <1>1 DEF Remembers, Alone, OnList
    <2>2. pc[c] \in In /\ pc'[c] \in In /\ strain[j] \subseteq strain'[j]
      BY <1>1 DEF In, Stops, Remembers
    <2>3. Fresh(c, j)'
      BY <1>1 DEF Fresh
    <2>4. Listed(c, j)' /\ Only(c, j)'
      BY <1>1, <2>1, <2>2 DEF Orderly, Entry, Listed, Only
    <2>5. QED
      BY <2>3, <2>4 DEF Entry
  <1>5. QED
    BY <1>1, <1>2, <1>3, <1>4, OthersStayOrderly DEF Orderly

LEMMA BootGetIsOrderly ==
  ASSUME AllOK, Orderly, NEW c \in Client, BootGet(c)
  PROVE  Orderly'
  <1> DEFINE k == key[c]
  <1>0. pc[c] = "boot_get" /\ k \in Id
    BY DEF BootGet, AllOK, ThreadOK, Busy
  <1>1. /\ \A d \in Client : d # c => Same(d)
        /\ pc'[c] = "boot_put" /\ UNCHANGED <<lists, session, key>>
    BY DEF BootGet, Same, AllOK, ThreadOK
  <1>2. /\ Remembers
        /\ \/ "outage" \in strain'[k]
           \/ held'[c] = IF lists[k] = NoKey THEN SetToBag({c}) ELSE BagAdd(lists[k], c)
    <2>1. CASE strain' = Strained(k, {"outage"})
      BY <1>0, <2>1, StrainedGrows
    <2>2. CASE /\ UNCHANGED strain
               /\ held' = [held EXCEPT ![c] = IF lists[k] = NoKey THEN SetToBag({c})
                                                                  ELSE BagAdd(lists[k], c)]
      BY <2>2 DEF Remembers, AllOK, ThreadOK
    <2>3. QED
      BY <2>1, <2>2 DEF BootGet
  <1> HIDE DEF k
  <1>3. \A a, b \in Client : Serial(a, b)'
    <2>1. \A d \in Client : pc'[d] \in Busy => pc[d] \in Busy /\ key'[d] = key[d]
      BY <1>0, <1>1 DEF Same, Busy
    <2>2. QED
      BY <1>2, <2>1, SerialStays
  <1>4. Keyed(c)'
    BY <1>0, <1>1, <1>2, KeyedStays DEF Orderly, Boots
  <1>5. ASSUME NEW j \in Id PROVE Entry(c, j)'
    <2>1. (Alone(j)' => Alone(j)) /\ OnList(c, j)' = OnList(c, j)
      BY <1>1, <1>2 DEF Remembers, Alone, OnList
    <2>2. Fresh(c, j)'
      BY <1>1, <1>2 DEF Fresh, Alone, k
    <2>3. Listed(c, j)' /\ Only(c, j)'
      BY <1>0, <1>1, <1>2, <2>1 DEF Orderly, Entry, Listed, Only, In, Stops, Remembers
    <2>4. QED
      BY <2>2, <2>3 DEF Entry
  <1>6. QED
    BY <1>1, <1>2, <1>3, <1>4, <1>5, OthersStayOrderly DEF Orderly

LEMMA BootPutIsOrderly ==
  ASSUME AllOK, Orderly, NEW c \in Client, BootPut(c)
  PROVE  Orderly'
  <1> PICK k \in Id : k = key[c]
    BY DEF BootPut, AllOK, ThreadOK, Busy
  <1>0. pc[c] = "boot_put" /\ key[c] = k /\ k # NoId /\ session[c] = k
    BY DEF BootPut, Orderly, Keyed, Boots
  <1>1. /\ \A d \in Client : d # c => Same(d)
        /\ pc'[c] = "running" /\ session' = session /\ key'[c] = NoId
    BY DEF BootPut, Same, AllOK, ThreadOK
  <1>2. /\ Remembers /\ \A j \in Id \ {k} : lists'[j] = lists[j]
        /\ lists'[k] = held[c] \/ "outage" \in strain'[k]
    BY <1>0, ExecutedDoes DEF BootPut, SetStringValue
  <1>3. \A a, b \in Client : Serial(a, b)'
    <2>1. \A d \in Client : pc'[d] \in Busy => pc[d] \in Busy /\ key'[d] = key[d]
      BY <1>1 DEF Same, Busy
    <2>2. QED
      BY <1>2, <2>1, SerialStays
  <1>4. Keyed(c)'
    BY <1>1 DEF Keyed, Boots, Stops
  <1>5. ASSUME NEW j \in Id, Alone(j)' PROVE Alone(j)
    BY <1>2, <1>5 DEF Remembers, Alone
  <1>6. ASSUME Alone(k)'
        PROVE  /\ lists'[k] = IF lists[k] = NoKey THEN SetToBag({c}) ELSE BagAdd(lists[k], c)
               /\ \A d \in Client : OnList(d, k)' <=> d = c \/ OnList(d, k)
    <2>1. "outage" \notin strain'[k] /\ Fresh(c, k)
      BY <1>0, <1>6 DEF Alone, Orderly, Entry
    <2>2. lists'[k] = IF lists[k] = NoKey THEN SetToBag({c}) ELSE BagAdd(lists[k], c)
      BY <1>0, <1>2, <1>5, <1>6, <2>1 DEF Fresh
    <2>3. CASE lists[k] = NoKey
      BY <2>2, <2>3, SingleText DEF OnList, BagIn, Parts
    <2>4. CASE lists[k] # NoKey
      BY <1>0, <2>2, <2>4, LongerText DEF OnList, BagIn, AllOK, ServerOK
    <2>5. QED
      BY <2>2, <2>3, <2>4
  <1>7. ASSUME NEW j \in Id PROVE Entry(c, j)'
    <2>1. Fresh(c, j)'
      BY <1>1 DEF Fresh
    <2>2. CASE j = k
      BY <1>0, <1>1, <1>6, <2>1, <2>2 DEF Entry, Listed, Only, In
    <2>3. CASE j # k
      <3>1. OnList(c, j)' = OnList(c, j) /\ session'[c] # j /\ session[c] # j
        BY <1>0, <1>1, <1>2, <2>3 DEF OnList
      <3>2. QED
        BY <1>2, <1>5, <2>1, <3>1 DEF Orderly, Entry, Listed, Only, Remembers
    <2>4. QED
      BY <2>2, <2>3
  <1>8. ASSUME NEW d \in Client, d # c PROVE Entry(d, k)'
    <2>1. Same(d)
      BY <1>1, <1>8
    <2>2. Fresh(d, k)'
      <3> SUFFICES ASSUME Alone(k)', key'[d] = k PROVE pc'[d] \notin Busy
        BY DEF Fresh, Busy
      <3>1. Serial(c, d) /\ pc[c] \in Busy
        BY <1>0 DEF Orderly, Busy
      <3>2. QED
        BY <1>0, <1>5, <1>8, <2>1, <3>1 DEF Serial, Same, Alone
    <2>3. Listed(d, k)' /\ Only(d, k)'
      BY <1>2, <1>5, <1>6, <1>8, <2>1, <1>0 DEF Same, Orderly, Entry, Listed, Only, Remembers
    <2>4. QED
      BY <2>2, <2>3 DEF Entry
  <1>9. QED
    BY <1>1, <1>2, <1>3, <1>4, <1>7, <1>8, OthersStayOrderly DEF Orderly

\* A process that has left, or that has found nothing to leave.
LEMMA StoppedIsOrderly ==
  ASSUME AllOK, Orderly, NEW c \in Client, NEW k \in Id, NEW remain, NEW event,
         pc[c] \in Stops, key[c] = k, Stopped(c, remain, event), Remembers,
         \A j \in Id \ {k} : lists'[j] = lists[j],
         Alone(k)' => /\ ~OnList(c, k)'
                      /\ \A d \in Client \ {c} : OnList(d, k)' <=> OnList(d, k)
  PROVE  Orderly'
  <1>0. session[c] \in Id
    BY DEF AllOK, ThreadOK, Stops, Busy
  <1>1. /\ \A d \in Client : d # c => Same(d)
        /\ pc'[c] \in {"idle", "over"} /\ session'[c] = NoId /\ key'[c] = NoId
    BY StoppedDoes
  <1>3. \A a, b \in Client : Serial(a, b)'
    <2>1. \A d \in Client : pc'[d] \in Busy => pc[d] \in Busy /\ key'[d] = key[d]
      BY <1>1 DEF Same, Busy
    <2>2. QED
      BY <2>1, SerialStays
  <1>4. Keyed(c)'
    BY <1>1 DEF Keyed, Boots, Stops
  <1>5. ASSUME NEW j \in Id, Alone(j)' PROVE Alone(j)
    BY <1>5 DEF Remembers, Alone
  <1>6. ASSUME NEW j \in Id PROVE Entry(c, j)'
    <2>1. Fresh(c, j)' /\ Listed(c, j)'
      BY <1>1 DEF Fresh, Listed
    <2>2. ASSUME Alone(j)', "ended" \notin strain'[j], OnList(c, j)' PROVE FALSE
      <3>1. j # k
        BY <2>2
      <3>2. OnList(c, j) /\ Alone(j) /\ "ended" \notin strain[j]
        BY <1>5, <2>2, <3>1 DEF OnList, Remembers
      <3>3. session[c] = j
        BY <3>2 DEF Orderly, Entry, Only
      <3>4. "moved" \in strain[j]
        BY <3>1, <3>3 DEF Orderly, Keyed
      <3>5. QED
        BY <3>2, <3>4 DEF Alone
    <2>3. QED
      BY <2>1, <2>2 DEF Entry, Only
  <1>7. ASSUME NEW d \in Client, d # c PROVE Entry(d, k)'
    <2>1. Same(d)
      BY <1>1, <1>7
    <2>2. Fresh(d, k)'
      <3> SUFFICES ASSUME Alone(k)', key'[d] = k PROVE pc'[d] \notin Busy
        BY DEF Fresh, Busy
      <3>1. Serial(c, d) /\ pc[c] \in Busy
        BY DEF Orderly, Busy, Stops
      <3>2. QED
        BY <1>0, <1>5, <1>7, <2>1, <3>1 DEF Serial, Same, Alone
    <2>3. Listed(d, k)' /\ Only(d, k)'
      BY <1>0, <1>5, <1>7, <2>1 DEF Same, Orderly, Entry, Listed, Only, Remembers
    <2>4. QED
      BY <2>2, <2>3 DEF Entry
  <1>8. QED
    BY <1>1, <1>3, <1>4, <1>6, <1>7, OthersStayOrderly DEF Orderly

LEMMA StopGetIsOrderly ==
  ASSUME AllOK, Orderly, NEW c \in Client, StopGet(c)
  PROVE  Orderly'
  <1> PICK k \in Id : k = key[c]
    BY DEF StopGet, AllOK, ThreadOK, Busy
  <1>0. /\ pc[c] = "stop_get" /\ pc[c] \in Stops /\ key[c] = k /\ session[c] \in Id
        /\ lists' = lists /\ \A d \in Client, j \in Id : OnList(d, j)' = OnList(d, j)
    BY DEF StopGet, AllOK, ThreadOK, Busy, Stops, OnList
  <1>1. CASE /\ lists[k] # NoKey /\ held' = [held EXCEPT ![c] = lists[k]]
             /\ pc' = [pc EXCEPT ![c] = "stop_put"] /\ UNCHANGED <<session, key, strain>>
    <2>1. /\ \A d \in Client : d # c => Same(d)
          /\ pc'[c] = "stop_put" /\ held'[c] = lists[k] /\ Remembers
      BY <1>1 DEF Same, AllOK, ThreadOK, Remembers
    <2>2. \A a, b \in Client : Serial(a, b)'
      <3>1. \A d \in Client : pc'[d] \in Busy => pc[d] \in Busy /\ key'[d] = key[d]
        BY <1>0, <1>1, <2>1 DEF Same, Busy
      <3>2. QED
        BY <2>1, <3>1, SerialStays
    <2>3. Keyed(c)'
      BY <1>0, <1>1, <2>1, KeyedStays DEF Orderly, Stops
    <2>4. ASSUME NEW j \in Id PROVE Entry(c, j)'
      <3>1. Alone(j)' = Alone(j) /\ pc'[c] \in In /\ pc[c] \in In
        BY <1>0, <1>1, <2>1 DEF Alone, In, Stops
      <3>2. Fresh(c, j)'
        BY <1>0, <1>1, <2>1 DEF Fresh
      <3>3. Listed(c, j)' /\ Only(c, j)'
        BY <1>0, <1>1, <3>1 DEF Orderly, Entry, Listed, Only
      <3>4. QED
        BY <3>2, <3>3 DEF Entry
    <2>5. QED
      BY <1>0, <2>1, <2>2, <2>3, <2>4, OthersStayOrderly DEF Orderly
  <1>2. CASE /\ Stopped(c, peers[c], {"kept"})
             /\ \/ lists[k] = NoKey /\ UNCHANGED strain
                \/ strain' = Strained(k, {"outage"})
    <2>1. Remembers /\ (lists[k] = NoKey \/ "outage" \in strain'[k])
      BY <1>0, <1>2, StrainedGrows DEF Remembers
    <2>2. ASSUME Alone(k)' PROVE ~OnList(c, k)
      <3>1. lists[k] = NoKey
        BY <2>1, <2>2 DEF Alone
      <3>2. QED
        BY <3>1 DEF OnList
    <2>3. QED
      BY <1>0, <1>2, <2>1, <2>2, StoppedIsOrderly
  <1>3. QED
    BY <1>1, <1>2 DEF StopGet

LEMMA StopPutIsOrderly ==
  ASSUME AllOK, Orderly, NEW c \in Client, StopPut(c)
  PROVE  Orderly'
  <1> PICK k \in Id : k = key[c]
    BY DEF StopPut, AllOK, ThreadOK, Busy
  <1> DEFINE x == IF OnlyParticipant(held[c]) THEN NoKey ELSE Without(held[c], c)
  <1>0. pc[c] = "stop_put" /\ key[c] = k /\ session[c] \in Id /\ Stopped(c, {}, {}) /\ IsText(held[c])
    BY DEF StopPut, AllOK, ThreadOK, Busy
  <1>1. Executed(c, k, [lists EXCEPT ![k] = x])
    BY DEF StopPut, Leave, DeleteKey, SetStringValue
  <1>2. /\ Remembers /\ \A j \in Id \ {k} : lists'[j] = lists[j]
        /\ lists'[k] = x \/ "outage" \in strain'[k]
    <2> HIDE DEF x
    <2>1. QED
      BY <1>0, <1>1, ExecutedDoes
  <1>3. ASSUME Alone(k)'
        PROVE  ~OnList(c, k)' /\ \A d \in Client \ {c} : OnList(d, k)' <=> OnList(d, k)
    <2>1. lists'[k] = x /\ Alone(k)
      BY <1>0, <1>2, <1>3 DEF Alone, Remembers
    <2>2. held[c] = lists[k] /\ lists[k] # NoKey
      BY <1>0, <2>1 DEF Orderly, Entry, Fresh
    <2>3. session[c] = k /\ OnList(c, k)
      BY <1>0, <2>1 DEF Orderly, Keyed, Entry, Listed, Alone, In, Stops
    <2>4. CASE OnlyParticipant(held[c])
      <3>1. lists'[k] = NoKey
        BY <2>1, <2>4
      <3>2. PICK p \in Parts : lists[k] = SetToBag({p})
        BY <2>2, <2>4 DEF OnlyParticipant
      <3>3. BagToSet(lists[k]) = {p}
        BY <3>2, SingleText
      <3>4. QED
        BY <2>3, <3>1, <3>3 DEF OnList, BagIn
    <2>5. CASE ~OnlyParticipant(held[c])
      <3>1. lists'[k] = Without(lists[k], c)
        BY <2>1, <2>2, <2>5
      <3>2. IsText(lists[k])
        BY <1>0, <2>2
      <3>3. QED
        BY <2>2, <3>1, <3>2, ShorterText DEF OnList
    <2>6. QED
      BY <2>4, <2>5
  <1>4. pc[c] \in Stops
    BY <1>0 DEF Stops
  <1>5. QED
    BY <1>0, <1>2, <1>3, <1>4, StoppedIsOrderly

LEMMA GoneIsOrderly ==
  ASSUME AllOK, Orderly, NEW c \in Client, Gone(c)
  PROVE  Orderly'
  <1>1. /\ \A d \in Client : d # c => Same(d)
        /\ pc'[c] = "over" /\ session'[c] = NoId /\ key'[c] = NoId
        /\ Remembers /\ lists' = lists
        /\ session[c] \in Id => "ended" \in strain'[session[c]]
    BY GoneDoes
  <1>2. \A a, b \in Client : Serial(a, b)'
    <2>1. \A d \in Client : pc'[d] \in Busy => pc[d] \in Busy /\ key'[d] = key[d]
      BY <1>1 DEF Same, Busy
    <2>2. QED
      BY <1>1, <2>1, SerialStays
  <1>3. Keyed(c)'
    BY <1>1 DEF Keyed, Boots, Stops
  <1>4. ASSUME NEW j \in Id PROVE Entry(c, j)'
    <2>1. Fresh(c, j)' /\ Listed(c, j)'
      BY <1>1 DEF Fresh, Listed
    <2>2. Only(c, j)'
      <3>1. Alone(j)' /\ "ended" \notin strain'[j] /\ OnList(c, j)' =>
              Alone(j) /\ "ended" \notin strain[j] /\ OnList(c, j)
        BY <1>1 DEF Remembers, Alone, OnList
      <3>2. Only(c, j)
        BY DEF Orderly, Entry
      <3>3. QED
        BY <1>1, <3>1, <3>2 DEF Only
    <2>3. QED
      BY <2>1, <2>2 DEF Entry
  <1>5. QED
    BY <1>1, <1>2, <1>3, <1>4, OthersStayOrderly DEF Orderly

LEMMA StaysOrderly == Spec => []Orderly
  <1>1. Init => Orderly
    BY DEF Init, Orderly, Serial, Keyed, Entry, Fresh, Listed, Only, OnList, In, Boots, Stops, Busy
  <1>2. AllOK /\ Orderly /\ [Next]_vars => Orderly'
    <2> SUFFICES ASSUME AllOK, Orderly, [Next]_vars PROVE Orderly'
      OBVIOUS
    <2>1. CASE UNCHANGED vars
      BY <2>1 DEF vars, Orderly, Serial, Keyed, Entry, Fresh, Listed, Only, OnList, Alone
    <2>2. ASSUME NEW c \in Client, NEW k \in Id, UseSessionKey(c, k) PROVE Orderly'
      BY <2>2, BootIsOrderly DEF UseSessionKey
    <2>3. ASSUME NEW c \in Client, Start(c) \/ Cancel(c) PROVE Orderly'
      <3>1. pc[c] = "idle" /\ setting[c] \in Id /\ Boot(c, setting[c])
        BY <2>3 DEF Start, Cancel, AllOK, SettingsOK
      <3>2. QED
        BY <3>1, BootIsOrderly
    <2>4. ASSUME NEW c \in Client, Stop(c) \/ Quit(c) PROVE Orderly'
      <3>1. pc[c] = "running" /\ setting[c] \in Id /\ Stopping(c, setting[c])
        BY <2>4 DEF Stop, Quit, AllOK, SettingsOK
      <3>2. QED
        BY <3>1, StoppingIsOrderly
    <2>5. ASSUME NEW c \in Client, Crash(c) \/ Fall(c) PROVE Orderly'
      BY <2>5, GoneIsOrderly DEF Crash, Fall
    <2>6. ASSUME NEW c \in Client, User(c) \/ Thread(c) \/ World(c) PROVE Orderly'
      BY <2>2, <2>3, <2>4, <2>5, <2>6, QuietIsOrderly, BootGetIsOrderly, BootPutIsOrderly,
         StopGetIsOrderly, StopPutIsOrderly DEF User, Thread, World
    <2>7. QED
      BY <2>1, <2>6 DEF Next
  <1>3. QED
    BY <1>1, <1>2, AllStaysOK, PTL DEF Spec

\* start adds the process to its session's list and stop removes it: whoever runs is on
\* the list of its session and whoever has stopped or quit is on none, unless two
\* operations overlapped, a call got no answer, a process just ended, or the defaults
\* said another session at the stop than at the start.
THEOREM ListsStayRight == Spec => []ListsAreRight
  <1>1. Orderly => ListsAreRight
    <2> SUFFICES ASSUME Orderly, NEW c \in Client, NEW k \in Id,
                        strain[k] \cap {"overlap", "outage", "moved", "ended"} = {}
                 PROVE  /\ pc[c] = "running" /\ session[c] = k => OnList(c, k)
                        /\ pc[c] \in {"idle", "over"} => ~OnList(c, k)
      BY DEF ListsAreRight, OnList
    <2>1. Alone(k) /\ "ended" \notin strain[k]
      BY DEF Alone
    <2>2. QED
      BY <2>1 DEF Orderly, Entry, Listed, Only, In, Stops
  <1>2. QED
    BY <1>1, StaysOrderly, PTL

LEMMA StepRemembers ==
  ASSUME AllOK, NEW c \in Client, User(c) \/ Thread(c) \/ World(c)
  PROVE  Remembers
  <1>1. ASSUME \/ Launch(c) \/ ShowPreferences(c) \/ GenerateSessionID(c) \/ WindowWillClose(c)
               \/ OnTimer(c) \/ HandlePeer(c)
               \/ ServerPublish(c) \/ ServerSubscribe(c) \/ ServerUnsubscribe(c) \/ Lose(c)
        PROVE  Remembers
    BY <1>1, QuietDoes
  <1>2. ASSUME NEW k \in Id, UseSessionKey(c, k) PROVE Remembers
    BY <1>2, BootDoes DEF UseSessionKey
  <1>3. ASSUME Start(c) \/ Cancel(c) PROVE Remembers
    <2>1. setting[c] \in Id /\ Boot(c, setting[c])
      BY <1>3 DEF Start, Cancel, AllOK, SettingsOK
    <2>2. QED
      BY <2>1, BootDoes
  <1>4. ASSUME Stop(c) \/ Quit(c) PROVE Remembers
    <2>1. setting[c] \in Id /\ session[c] \in Id /\ Stopping(c, setting[c])
      BY <1>4 DEF Stop, Quit, AllOK, SettingsOK, ThreadOK
    <2>2. QED
      BY <2>1, StoppingDoes
  <1>5. ASSUME BootGet(c) \/ StopGet(c) PROVE Remembers
    <2>1. key[c] \in Id /\ (strain' = strain \/ strain' = Strained(key[c], {"outage"}))
      BY <1>5 DEF BootGet, StopGet, AllOK, ThreadOK, Busy
    <2>2. QED
      BY <2>1, StrainedGrows DEF Remembers
  <1>6. ASSUME BootPut(c) \/ StopPut(c) PROVE Remembers
    <2>1. key[c] \in Id /\ (strain' = strain \/ strain' = Strained(key[c], {"outage"}))
      BY <1>6 DEF BootPut, StopPut, Leave, DeleteKey, SetStringValue, Executed, AllOK, ThreadOK, Busy
    <2>2. QED
      BY <2>1, StrainedGrows DEF Remembers
  <1>7. ASSUME Crash(c) \/ Fall(c) PROVE Remembers
    BY <1>7, GoneDoes DEF Crash, Fall
  <1>8. QED
    BY <1>1, <1>2, <1>3, <1>4, <1>5, <1>6, <1>7 DEF User, Thread, World

-----------------------------------------------------------------------------

(***************************************************************************)
(* Who runs knows who runs with it.  Of two processes of a session the     *)
(* later one finds the earlier on the list, and the earlier hears the      *)
(* later one's HELLO: it is known, or its HELLO is under way to somebody   *)
(* who listens.                                                            *)
(***************************************************************************)

Calm(k) == strain[k] \cap {"overlap", "haste", "outage", "loss", "moved"} = {}

\* Nothing is left of, and nothing arrives at, a process that was not launched; what
\* arrives after a stop has crossed it.
Rested(c) ==
  /\ pc[c] = "down" => peers[c] = {} /\ inbox[c] = {} /\ subs[c] = {}
  /\ pc[c] \in Stops \cup {"idle"} /\ inbox[c] # {} => past[c] \cap {"kept", "crossed"} # {}
  /\ pc[c] = "idle" /\ peers[c] # {} => past[c] \cap {"kept", "crossed"} # {}

\* Who has started has subscribed, and is going to hear what is said.
Ear(c, k) ==
  session[c] = k /\ pc[c] \in Boots \cup {"running"} /\ strain[k] \cap {"outage", "loss"} = {} =>
    \E s \in subs[c] : s.id = k /\ s.n \notin freed[c]

Meets(c, d, k) ==
  /\ Calm(k) /\ session[c] = k /\ session[d] = k
  /\ pc[c] \in {"boot_put", "running"} /\ pc[d] \in Boots \cup {"running"}

Expects(c, d, k) ==
  d \in peers[c] \/ Contains(outbox[d], k) \/ \E m \in inbox[c] : m.from = d

Known(c, d, k) == c # d /\ Meets(c, d, k) => Expects(c, d, k)

Met ==
  /\ \A c \in Client : Rested(c)
  /\ \A c \in Client, k \in Id : Ear(c, k)
  /\ \A c, d \in Client, k \in Id : Known(c, d, k)

\* HELLOs are published in order.
LEMMA ContainsAfterAppend ==
  ASSUME NEW q \in Seq(Id), NEW k \in Id, NEW j \in Id
  PROVE  Contains(Append(q, k), j) <=> Contains(q, j) \/ j = k
  BY DEF Contains

LEMMA ContainsInTail ==
  ASSUME NEW q \in Seq(Id), q # <<>>, NEW j \in Id
  PROVE  Contains(q, j) => j = Head(q) \/ Contains(Tail(q), j)
  <1> SUFFICES ASSUME NEW i \in 1 .. Len(q), q[i] = j, j # Head(q) PROVE Contains(Tail(q), j)
    BY DEF Contains
  <1>1. i - 1 \in 1 .. Len(Tail(q)) /\ Tail(q)[i - 1] = j
    <2>1. i # 1
      OBVIOUS
    <2>2. QED
      BY <2>1
  <1>2. QED
    BY <1>1 DEF Contains

LEMMA RestedStays ==
  ASSUME NEW d, Rested(d), past[d] \subseteq past'[d], inbox'[d] \subseteq inbox[d],
         pc'[d] = pc[d], subs'[d] = subs[d] \/ pc[d] # "down",
         peers'[d] = peers[d] \/ (pc[d] # "down" /\ inbox[d] # {})
  PROVE  Rested(d)'
  BY DEF Rested

\* No claim is made about a process in session.
LEMMA RestedInSession ==
  ASSUME NEW d, pc'[d] \in Boots \cup {"running", "over", "hollow"}
  PROVE  Rested(d)'
  BY DEF Rested, Boots, Stops

LEMMA StoppingIsRested ==
  ASSUME AllOK, NEW c \in Client, NEW k \in Id, Stopping(c, k), NEW d \in Client, Rested(d)
  PROVE  Rested(d)'
  <1>1. /\ UNCHANGED <<peers, inbox, subs>> /\ pc' = [pc EXCEPT ![c] = "stop_get"]
        /\ past' = Mark(past, c, IF inbox[c] # {} THEN {"crossed"} ELSE {})
    BY DEF Stopping
  <1>2. past[d] \subseteq past'[d] /\ (d # c => pc'[d] = pc[d])
        /\ (d = c => pc'[d] = "stop_get" /\ (inbox'[d] # {} => "crossed" \in past'[d]))
    BY <1>1 DEF Mark, AllOK, PastOK, ThreadOK, LinksOK
  <1>3. CASE d = c
    BY <1>2, <1>3 DEF Rested
  <1>4. CASE d # c
    BY <1>1, <1>2, <1>4, RestedStays
  <1>5. QED
    BY <1>3, <1>4

LEMMA StoppedIsRested ==
  ASSUME AllOK, NEW c \in Client, pc[c] \in Stops, NEW remain, NEW event,
         Stopped(c, remain, event), remain = {} \/ "kept" \in event, NEW d \in Client, Rested(d)
  PROVE  Rested(d)'
  <1>1. CASE quitting[c]
    <2>1. Closed(c)
      BY <1>1 DEF Stopped
    <2>2. CASE d = c
      <3>1. pc'[d] = "over"
        BY <2>1, <2>2 DEF Closed, AllOK, ThreadOK
      <3>2. QED
        BY <3>1, RestedInSession
    <2>3. CASE d # c
      <3>1. /\ pc'[d] = pc[d] /\ peers'[d] = peers[d] /\ inbox'[d] = inbox[d]
            /\ subs'[d] = subs[d] /\ past'[d] = past[d]
        BY <2>1, <2>3 DEF Closed, AllOK, ThreadOK, LinksOK, PastOK
      <3>2. QED
        BY <3>1, RestedStays
    <2>4. QED
      BY <2>2, <2>3
  <1>2. CASE ~quitting[c]
    <2>1. /\ pc' = [pc EXCEPT ![c] = "idle"] /\ peers' = [peers EXCEPT ![c] = remain]
          /\ past' = Mark(past, c, event) /\ UNCHANGED <<subs, inbox>>
      BY <1>2 DEF Stopped
    <2>2. past[d] \subseteq past'[d]
      BY <2>1 DEF Mark, AllOK, PastOK
    <2>3. CASE d = c
      <3>1. pc'[d] = "idle" /\ peers'[d] = remain /\ event \subseteq past'[d]
        BY <2>1, <2>3 DEF Mark, AllOK, PastOK, ThreadOK, LinksOK
      <3>2. QED
        BY <2>1, <2>2, <2>3, <3>1 DEF Rested
    <2>4. CASE d # c
      <3>1. pc'[d] = pc[d] /\ peers'[d] = peers[d]
        BY <2>1, <2>4 DEF AllOK, ThreadOK, LinksOK
      <3>2. QED
        BY <2>1, <2>2, <3>1, RestedStays
    <2>5. QED
      BY <2>3, <2>4
  <1>3. QED
    BY <1>1, <1>2

LEMMA StepIsRested ==
  ASSUME AllOK, NEW c \in Client, User(c) \/ Thread(c) \/ World(c), NEW d \in Client,
         Rested(d), Sound(d)
  PROVE  Rested(d)'
  <1>1. ASSUME Launch(c) PROVE Rested(d)'
    <2>1. /\ UNCHANGED <<peers, inbox, subs, past>> /\ pc[c] = "down"
          /\ pc' = [pc EXCEPT ![c] = "idle"] \/ pc' = [pc EXCEPT ![c] = "hollow"]
      BY <1>1 DEF Launch
    <2>2. pc'[d] = pc[d] \/ (pc[d] = "down" /\ pc'[d] \in {"idle", "hollow"})
      BY <2>1 DEF AllOK, ThreadOK
    <2>3. QED
      BY <2>1, <2>2 DEF Rested, Stops
  <1>2. ASSUME NEW k \in Id, Boot(c, k), pc[c] = "idle" PROVE Rested(d)'
    <2>1. UNCHANGED <<peers, inbox, past>> /\ pc' = [pc EXCEPT ![c] = "boot_get"]
      BY <1>2 DEF Boot
    <2>2. CASE d = c
      <3>1. pc'[d] = "boot_get"
        BY <2>1, <2>2 DEF AllOK, ThreadOK
      <3>2. QED
        BY <3>1, RestedInSession DEF Boots
    <2>3. CASE d # c
      <3>1. pc'[d] = pc[d] /\ subs'[d] = subs[d]
        BY <1>2, <2>1, <2>3 DEF AllOK, ThreadOK, LinksOK, Boot, Subscribe, connectAndDispatch
      <3>2. QED
        BY <2>1, <3>1, RestedStays
    <2>4. QED
      BY <2>2, <2>3
  <1>3. ASSUME Start(c) \/ Cancel(c) \/ \E k \in Id : UseSessionKey(c, k) PROVE Rested(d)'
    <2>1. \E k \in Id : Boot(c, k) /\ pc[c] = "idle"
      BY <1>3 DEF Start, Cancel, UseSessionKey, AllOK, SettingsOK
    <2>2. QED
      BY <1>2, <2>1
  <1>4. ASSUME Stop(c) \/ Quit(c) PROVE Rested(d)'
    <2>1. setting[c] \in Id /\ Stopping(c, setting[c])
      BY <1>4 DEF Stop, Quit, AllOK, SettingsOK
    <2>2. QED
      BY <2>1, StoppingIsRested
  <1>5. ASSUME ShowPreferences(c) \/ GenerateSessionID(c) \/ WindowWillClose(c) \/ OnTimer(c)
        PROVE  Rested(d)'
    BY <1>5, RestedStays DEF ShowPreferences, GenerateSessionID, WindowWillClose, OnTimer
  <1>6. ASSUME BootGet(c) \/ BootPut(c) PROVE Rested(d)'
    <2>1. /\ UNCHANGED <<subs, past>> /\ \A e \in Client : e # c =>
                peers'[e] = peers[e] /\ inbox'[e] = inbox[e] /\ pc'[e] = pc[e]
          /\ pc'[c] \in {"boot_put", "running"}
      <3>1. UNCHANGED <<subs, past>>
        BY <1>6 DEF BootGet, BootPut
      <3>2. ASSUME NEW e \in Client, e # c
            PROVE  peers'[e] = peers[e] /\ inbox'[e] = inbox[e]
        BY <1>6, <3>2 DEF BootGet, BootPut, Together, Mark, AllOK, LinksOK
      <3>3. /\ \A e \in Client : e # c => pc'[e] = pc[e]
            /\ pc'[c] \in {"boot_put", "running"}
        BY <1>6 DEF BootGet, BootPut, AllOK, ThreadOK
      <3>4. QED
        BY <3>1, <3>2, <3>3
    <2>2. QED
      BY <2>1, RestedStays, RestedInSession DEF Boots
  <1>7. ASSUME StopGet(c) PROVE Rested(d)'
    <2>1. CASE Stopped(c, peers[c], {"kept"})
      <3>1. pc[c] \in Stops
        BY <1>7 DEF StopGet, Stops
      <3>2. QED
        BY <2>1, <3>1, StoppedIsRested
    <2>2. CASE pc' = [pc EXCEPT ![c] = "stop_put"] /\ UNCHANGED <<peers, inbox, subs, past>>
      <3>1. pc'[d] = pc[d] \/ (pc[d] = "stop_get" /\ pc'[d] = "stop_put")
        BY <1>7, <2>2 DEF StopGet, AllOK, ThreadOK
      <3>2. QED
        BY <2>2, <3>1 DEF Rested, Stops
    <2>3. QED
      BY <1>7, <2>1, <2>2 DEF StopGet
  <1>8. ASSUME StopPut(c) PROVE Rested(d)'
    BY <1>8, StoppedIsRested DEF StopPut, Stops
  <1>9. ASSUME HandlePeer(c) PROVE Rested(d)'
    <2>1. PICK m \in inbox[c] :
            /\ inbox' = [inbox EXCEPT ![c] = @ \ {m}] /\ peers' = Mark(peers, c, {m.from})
            /\ pc[c] \in Alive /\ UNCHANGED <<subs, past, pc>>
      BY <1>9 DEF HandlePeer
    <2>2. inbox'[d] \subseteq inbox[d]
      BY <2>1 DEF AllOK, LinksOK
    <2>3. peers'[d] = peers[d] \/ (pc[d] # "down" /\ inbox[d] # {})
      BY <2>1 DEF Mark, AllOK, LinksOK, Alive, Busy
    <2>4. QED
      BY <2>1, <2>2, <2>3, RestedStays
  <1>10. ASSUME ServerPublish(c) PROVE Rested(d)'
    <2> DEFINE To == {s \in subs[d] : s.st = "live" /\ s.id = Head(outbox[c])}
    <2>1. /\ inbox'[d] = inbox[d] \cup {[n |-> s.n, from |-> c] : s \in To}
          /\ past'[d] = IF \E s \in To : s.n \in freed[d] THEN past[d] \cup {"crossed"} ELSE past[d]
          /\ UNCHANGED <<pc, peers, subs>>
      BY <1>10 DEF ServerPublish
    <2>2. CASE To = {}
      BY <2>1, <2>2, RestedStays
    <2>3. CASE To # {}
      <3>1. PICK s \in subs[d] : s \in To
        BY <2>3
      <3>2. pc[d] # "down"
        BY <3>1 DEF Rested
      <3>3. pc[d] \in Stops \cup {"idle"} => "crossed" \in past'[d]
        <4>1. pc[d] \in Stops \cup {"idle"} => s.n \in freed[d]
          BY <3>1 DEF Sound, Clean, Boots, Stops
        <4>2. QED
          BY <2>1, <3>1, <4>1
      <3>4. QED
        BY <2>1, <3>2, <3>3 DEF Rested
    <2>4. QED
      BY <2>2, <2>3
  <1>11. ASSUME ServerSubscribe(c) \/ ServerUnsubscribe(c) PROVE Rested(d)'
    <2>1. UNCHANGED <<peers, inbox, past, pc>>
      BY <1>11 DEF ServerSubscribe, ServerUnsubscribe
    <2>2. subs[c] # {} /\ (d # c => subs'[d] = subs[d])
      BY <1>11 DEF ServerSubscribe, ServerUnsubscribe, AllOK, LinksOK
    <2>3. subs'[d] = subs[d] \/ pc[d] # "down"
      BY <2>2 DEF Rested
    <2>4. QED
      BY <2>1, <2>3, RestedStays
  <1>12. ASSUME Lose(c) PROVE Rested(d)'
    <2>1. /\ UNCHANGED <<peers, inbox, pc>> /\ past' = Mark(past, c, {"loss"}) /\ pc[c] \in Alive
      BY <1>12 DEF Lose
    <2>2. past[d] \subseteq past'[d]
      BY <2>1 DEF Mark, AllOK, PastOK
    <2>3. subs'[d] = subs[d] \/ pc[d] # "down"
      BY <1>12, <2>1 DEF Lose, AllOK, LinksOK, Alive, Busy
    <2>4. QED
      BY <2>1, <2>2, <2>3, RestedStays
  <1>13. ASSUME Crash(c) \/ Fall(c) PROVE Rested(d)'
    <2>1. Closed(c)
      BY <1>13 DEF Crash, Fall, Gone
    <2>2. /\ pc'[c] = "over"
          /\ d # c => /\ pc'[d] = pc[d] /\ peers'[d] = peers[d] /\ inbox'[d] = inbox[d]
                      /\ subs'[d] = subs[d] /\ past'[d] = past[d]
      BY <2>1 DEF Closed, AllOK, ThreadOK, LinksOK, PastOK
    <2>3. QED
      BY <2>2, RestedStays, RestedInSession
  <1>14. QED
    BY <1>1, <1>3, <1>4, <1>5, <1>6, <1>7, <1>8, <1>9, <1>10, <1>11, <1>12, <1>13
       DEF User, Thread, World

LEMMA EarStays ==
  ASSUME NEW d, NEW k \in Id, Ear(d, k), Remembers, session'[d] = session[d],
         pc'[d] \in Boots \cup {"running"} => pc[d] \in Boots \cup {"running"},
         subs[d] \subseteq subs'[d], freed'[d] = freed[d] \/ pc'[d] \notin Boots \cup {"running"}
  PROVE  Ear(d, k)'
  BY DEF Ear, Remembers

LEMMA BootHasAnEar ==
  ASSUME AllOK, NEW c \in Client, NEW j \in Id, Boot(c, j), NEW d \in Client, NEW k \in Id,
         Ear(d, k), Remembers
  PROVE  Ear(d, k)'
  <1>1. /\ freed' = freed /\ starts' = starts + 1
        /\ session' = [session EXCEPT ![c] = j] /\ pc' = [pc EXCEPT ![c] = "boot_get"]
    BY DEF Boot
  <1>2. CASE d # c
    <2>1. session'[d] = session[d] /\ pc'[d] = pc[d] /\ subs'[d] = subs[d]
      BY <1>1, <1>2 DEF Boot, Subscribe, connectAndDispatch, AllOK, ThreadOK, LinksOK
    <2>2. QED
      BY <1>1, <2>1, EarStays
  <1>3. CASE d = c /\ k # j
    <2>1. session'[d] # k
      BY <1>1, <1>3 DEF AllOK, ThreadOK
    <2>2. QED
      BY <2>1 DEF Ear
  <1>4. CASE d = c /\ k = j
    <2>1. CASE subs' = [subs EXCEPT ![c] = @ \cup {[n |-> starts', id |-> j, st |-> "asked"]}]
      <3> DEFINE new == [n |-> starts', id |-> j, st |-> "asked"]
      <3>1. new.n = starts' /\ new.id = k /\ new \in subs'[d]
        BY <1>4, <2>1 DEF AllOK, LinksOK
      <3>2. starts' \notin freed'[d]
        BY <1>1 DEF AllOK, LinksOK, PastOK
      <3> HIDE DEF new
      <3>3. QED
        BY <3>1, <3>2 DEF Ear
    <2>2. CASE strain' = Strained(j, {"outage"} \cup Overlap(c, j) \cup Unheard(c))
      <3>1. "outage" \in strain'[k]
        BY <1>4, <2>2, StrainedGrows
      <3>2. QED
        BY <3>1 DEF Ear
    <2>3. QED
      BY <2>1, <2>2 DEF Boot, Subscribe, connectAndDispatch
  <1>5. QED
    BY <1>2, <1>3, <1>4

LEMMA StepKeepsAnEar ==
  ASSUME AllOK, NEW c \in Client, User(c) \/ Thread(c) \/ World(c), NEW d \in Client, NEW k \in Id,
         Ear(d, k)
  PROVE  Ear(d, k)'
  <1>0. Remembers
    BY StepRemembers
  <1>1. ASSUME \/ Launch(c) \/ ShowPreferences(c) \/ GenerateSessionID(c) \/ WindowWillClose(c)
               \/ OnTimer(c) \/ HandlePeer(c) \/ ServerPublish(c)
        PROVE  Ear(d, k)'
    <2>1. UNCHANGED <<session, subs, freed>>
      BY <1>1 DEF Launch, ShowPreferences, GenerateSessionID, WindowWillClose, OnTimer, HandlePeer,
                  ServerPublish
    <2>2. pc'[d] = pc[d] \/ {pc[d], pc'[d]} \cap (Busy \cup {"running"}) = {}
      BY <1>1, QuietDoes
    <2>3. pc'[d] \in Boots \cup {"running"} => pc[d] \in Boots \cup {"running"}
      BY <2>2 DEF Boots, Busy
    <2>4. QED
      BY <1>0, <2>1, <2>3, EarStays
  <1>2. ASSUME Start(c) \/ Cancel(c) \/ \E j \in Id : UseSessionKey(c, j) PROVE Ear(d, k)'
    <2>1. PICK j \in Id : Boot(c, j)
      BY <1>2 DEF Start, Cancel, UseSessionKey, AllOK, SettingsOK
    <2>2. QED
      BY <1>0, <2>1, BootHasAnEar
  <1>3. ASSUME Stop(c) \/ Quit(c) PROVE Ear(d, k)'
    <2>1. /\ UNCHANGED <<session, subs>> /\ pc' = [pc EXCEPT ![c] = "stop_get"]
          /\ freed' = [freed EXCEPT ![c] = @ \cup table[c]]
      BY <1>3 DEF Stop, Quit, Stopping, UnsubscribeAll, freeBundle
    <2>2. /\ pc'[d] = pc[d] \/ pc'[d] = "stop_get"
          /\ freed'[d] = freed[d] \/ pc'[d] = "stop_get"
      BY <2>1 DEF AllOK, ThreadOK, LinksOK
    <2>3. QED
      BY <1>0, <2>1, <2>2, EarStays DEF Boots
  <1>4. ASSUME BootGet(c) \/ BootPut(c) PROVE Ear(d, k)'
    <2>1. /\ UNCHANGED <<session, subs, freed>> /\ pc[c] \in Boots
          /\ \A e \in Client : e # c => pc'[e] = pc[e]
      BY <1>4 DEF BootGet, BootPut, Boots, AllOK, ThreadOK
    <2>2. QED
      BY <1>0, <2>1, EarStays
  <1>5. ASSUME NEW remain, NEW event, Stopped(c, remain, event) PROVE Ear(d, k)'
    <2>1. CASE d = c
      <3>1. pc'[d] \in {"idle", "over"}
        BY <1>5, <2>1, StoppedDoes
      <3>2. QED
        BY <3>1 DEF Ear, Boots
    <2>2. CASE d # c
      <3>1. Same(d) /\ subs'[d] = subs[d] /\ freed'[d] = freed[d]
        BY <1>5, <2>2, StoppedDoes DEF Stopped, Closed, AllOK, LinksOK
      <3>2. QED
        BY <1>0, <3>1, EarStays DEF Same
    <2>3. QED
      BY <2>1, <2>2
  <1>6. ASSUME StopGet(c) PROVE Ear(d, k)'
    <2>1. CASE Stopped(c, peers[c], {"kept"})
      BY <1>5, <2>1
    <2>2. CASE pc' = [pc EXCEPT ![c] = "stop_put"] /\ UNCHANGED <<session, subs, freed>>
      <3>1. pc'[d] = pc[d] \/ pc'[d] = "stop_put"
        BY <2>2 DEF AllOK, ThreadOK
      <3>2. QED
        BY <1>0, <2>2, <3>1, EarStays DEF Boots
    <2>3. QED
      BY <1>6, <2>1, <2>2 DEF StopGet
  <1>7. ASSUME StopPut(c) PROVE Ear(d, k)'
    BY <1>5, <1>7 DEF StopPut
  <1>8. ASSUME ServerSubscribe(c) PROVE Ear(d, k)'
    <2>1. PICK s \in subs[c] : subs' = [subs EXCEPT ![c] = (@ \ {s}) \cup {[s EXCEPT !.st = "live"]}]
      BY <1>8 DEF ServerSubscribe
    <2>2. UNCHANGED <<session, pc, freed>>
      BY <1>8 DEF ServerSubscribe
    <2>3. s \in Sub /\ [s EXCEPT !.st = "live"].n = s.n /\ [s EXCEPT !.st = "live"].id = s.id
      BY DEF AllOK, LinksOK, Sub
    <2>4. \A u \in subs[d] : \E v \in subs'[d] : u.n = v.n /\ u.id = v.id
      BY <2>1, <2>3 DEF AllOK, LinksOK
    <2>5. QED
      BY <1>0, <2>2, <2>4 DEF Ear, Remembers
  <1>9. ASSUME ServerUnsubscribe(c) PROVE Ear(d, k)'
    <2>1. PICK s \in subs[c] : s.n \in freed[c] /\ subs' = [subs EXCEPT ![c] = @ \ {s}]
      BY <1>9 DEF ServerUnsubscribe
    <2>2. UNCHANGED <<session, pc, freed>>
      BY <1>9 DEF ServerUnsubscribe
    <2>3. \A u \in subs[d] : u.n \notin freed[d] => u \in subs'[d]
      BY <2>1 DEF AllOK, LinksOK
    <2>4. QED
      BY <1>0, <2>2, <2>3 DEF Ear, Remembers
  <1>10. ASSUME Lose(c) PROVE Ear(d, k)'
    <2>1. UNCHANGED <<session, pc, freed>>
      BY <1>10 DEF Lose
    <2>2. CASE subs' = subs
      BY <1>0, <2>1, <2>2, EarStays
    <2>3. CASE \E s \in subs[c] : /\ subs' = [subs EXCEPT ![c] = @ \ {s}]
                                  /\ strain' = Strained(s.id, {"loss"})
      <3>1. PICK s \in subs[c] : /\ subs' = [subs EXCEPT ![c] = @ \ {s}]
                                 /\ strain' = Strained(s.id, {"loss"})
        BY <2>3
      <3>2. s.id \in Id
        BY DEF AllOK, LinksOK, Sub
      <3>3. "loss" \in strain'[s.id]
        BY <3>1, <3>2, StrainedGrows
      <3>4. \A u \in subs[d] : u.id # s.id => u \in subs'[d]
        BY <3>1 DEF AllOK, LinksOK
      <3>5. QED
        BY <1>0, <2>1, <3>3, <3>4 DEF Ear, Remembers
    <2>4. QED
      BY <1>10, <2>2, <2>3 DEF Lose
  <1>11. ASSUME Crash(c) \/ Fall(c) PROVE Ear(d, k)'
    <2>1. Gone(c)
      BY <1>11 DEF Crash, Fall
    <2>2. CASE d = c
      <3>1. pc'[d] = "over"
        BY <2>1, <2>2, GoneDoes
      <3>2. QED
        BY <3>1 DEF Ear, Boots
    <2>3. CASE d # c
      <3>1. Same(d) /\ subs'[d] = subs[d] /\ freed'[d] = freed[d]
        BY <2>1, <2>3, GoneDoes DEF Gone, Closed, AllOK, LinksOK
      <3>2. QED
        BY <1>0, <3>1, EarStays DEF Same
    <2>4. QED
      BY <2>2, <2>3
  <1>12. QED
    BY <1>1, <1>2, <1>3, <1>4, <1>6, <1>7, <1>8, <1>9, <1>10, <1>11 DEF User, Thread, World

LEMMA KnownStays ==
  ASSUME NEW c, NEW d, NEW k \in Id, Known(c, d, k), Remembers,
         Meets(c, d, k)' => /\ session[c] = k /\ session[d] = k
                            /\ pc[c] \in {"boot_put", "running"} /\ pc[d] \in Boots \cup {"running"},
         Meets(c, d, k)' /\ Expects(c, d, k) => Expects(c, d, k)'
  PROVE  Known(c, d, k)'
  <1>1. Calm(k)' => Calm(k)
    BY DEF Calm, Remembers
  <1>2. Meets(c, d, k)' => Meets(c, d, k)
    BY <1>1 DEF Meets
  <1>3. QED
    BY <1>2 DEF Known

\* What one process does to itself alone.
LEMMA ExpectsStays ==
  ASSUME NEW c, NEW d, NEW k, peers'[c] = peers[c], inbox'[c] = inbox[c], outbox'[d] = outbox[d],
         Expects(c, d, k)
  PROVE  Expects(c, d, k)'
  BY DEF Expects

LEMMA KnownAfterBoot ==
  ASSUME AllOK, NEW a \in Client, NEW j \in Id, Boot(a, j), Remembers,
         NEW c \in Client, NEW d \in Client, c # d, NEW k \in Id, Known(c, d, k)
  PROVE  Known(c, d, k)'
  <1>1. /\ UNCHANGED <<peers, inbox>>
        /\ session' = [session EXCEPT ![a] = j] /\ pc' = [pc EXCEPT ![a] = "boot_get"]
        /\ outbox' = IF pub[a] = "live" THEN [outbox EXCEPT ![a] = Append(@, j)] ELSE outbox
    BY DEF Boot, Publish
  <1>2. CASE c = a
    <2>1. pc'[c] = "boot_get"
      BY <1>1, <1>2 DEF AllOK, ThreadOK
    <2>2. QED
      BY <2>1 DEF Known, Meets
  <1>3. CASE c # a /\ d # a
    <2>1. /\ session'[c] = session[c] /\ session'[d] = session[d] /\ pc'[c] = pc[c] /\ pc'[d] = pc[d]
          /\ outbox'[d] = outbox[d]
      BY <1>1, <1>3 DEF AllOK, ThreadOK, LinksOK
    <2>2. QED
      BY <1>1, <2>1, KnownStays, ExpectsStays DEF Meets
  <1>4. CASE d = a /\ k # j
    <2>1. session'[d] # k
      BY <1>1, <1>4 DEF AllOK, ThreadOK
    <2>2. QED
      BY <2>1 DEF Known, Meets
  <1>5. CASE d = a /\ k = j /\ pub[a] = "live"
    <2>1. outbox'[d] = Append(outbox[d], k) /\ outbox[d] \in Seq(Id)
      BY <1>1, <1>5 DEF AllOK, LinksOK
    <2>2. Contains(outbox'[d], k)
      BY <2>1, ContainsAfterAppend
    <2>3. QED
      BY <2>2 DEF Known, Expects
  <1>6. CASE k = j /\ pub[a] # "live"
    <2>1. Unheard(a) = {"loss"}
      BY <1>6 DEF Unheard
    <2>2. "loss" \in strain'[k]
      <3>1. CASE strain' = Strained(j, Overlap(a, j) \cup Unheard(a))
        BY <1>6, <2>1, <3>1, StrainedGrows
      <3>2. CASE strain' = Strained(j, {"outage"} \cup Overlap(a, j) \cup Unheard(a))
        BY <1>6, <2>1, <3>2, StrainedGrows
      <3>3. QED
        BY <3>1, <3>2 DEF Boot, Subscribe
    <2>3. QED
      BY <2>2 DEF Known, Meets, Calm
  <1>7. QED
    BY <1>2, <1>3, <1>4, <1>5, <1>6

LEMMA KnownAfterBootGet ==
  ASSUME AllOK, Orderly, NEW a \in Client, BootGet(a), Remembers,
         NEW c \in Client, NEW d \in Client, c # d, NEW k \in Id, Known(c, d, k)
  PROVE  Known(c, d, k)'
  <1>1. /\ UNCHANGED <<session, outbox>> /\ pc[a] = "boot_get"
        /\ pc' = [pc EXCEPT ![a] = "boot_put"]
    BY DEF BootGet
  <1>2. CASE c # a
    <2>1. peers'[c] = peers[c] /\ inbox'[c] = inbox[c]
      BY <1>2 DEF BootGet, Together, Mark, AllOK, LinksOK
    <2>2. pc'[c] = pc[c] /\ (pc'[d] = pc[d] \/ pc[d] \in Boots)
      BY <1>1, <1>2 DEF Boots, AllOK, ThreadOK
    <2>3. QED
      BY <1>1, <2>1, <2>2, KnownStays, ExpectsStays DEF Meets
  <1>3. CASE c = a
    <2> SUFFICES ASSUME Meets(c, d, k)' PROVE d \in peers'[c]
      BY DEF Known, Expects
    <2>1. /\ Calm(k)' /\ Calm(k) /\ session[c] = k /\ session[d] = k
          /\ pc[d] \in Boots \cup {"running"}
      BY <1>1, <1>3 DEF Meets, Calm, Remembers, AllOK, ThreadOK
    <2>2. key[c] = k
      BY <1>1, <1>3, <2>1 DEF Orderly, Keyed, Boots
    <2>3. pc[d] = "running"
      <3>1. ASSUME pc[d] \in Boots PROVE FALSE
        <4>1. key[d] = k
          BY <2>1, <3>1 DEF Orderly, Keyed
        <4>2. "overlap" \in strain[k]
          BY <1>1, <1>3, <2>2, <3>1, <4>1 DEF Orderly, Serial, Busy, Boots
        <4>3. QED
          BY <2>1, <4>2 DEF Calm
      <3>2. QED
        BY <2>1, <3>1
    <2>4. OnList(d, k)
      BY <2>1, <2>3 DEF Orderly, Entry, Listed, In, Alone, Calm
    <2>5. CASE peers' = Mark(peers, a, BagToSet(lists[key[a]]))
      BY <1>3, <2>2, <2>4, <2>5 DEF Mark, OnList, BagIn, AllOK, LinksOK
    <2>6. CASE strain' = Strained(key[a], {"outage"})
      <3>1. "outage" \in strain'[k]
        BY <1>3, <2>2, <2>6, StrainedGrows
      <3>2. QED
        BY <2>1, <3>1 DEF Calm
    <2>7. QED
      BY <1>3, <2>2, <2>4, <2>5, <2>6 DEF BootGet, OnList
  <1>4. QED
    BY <1>2, <1>3

LEMMA KnownAfterPublish ==
  ASSUME AllOK, NEW a \in Client, ServerPublish(a), Remembers,
         NEW c \in Client, NEW d \in Client, c # d, NEW k \in Id, Known(c, d, k), Ear(c, k)
  PROVE  Known(c, d, k)'
  <1> DEFINE j == Head(outbox[a])
             To == {s \in subs[c] : s.st = "live" /\ s.id = j}
  <1>1. /\ UNCHANGED <<session, pc, peers, subs>>
        /\ outbox[a] # <<>> /\ outbox' = [outbox EXCEPT ![a] = Tail(@)]
        /\ inbox'[c] = inbox[c] \cup {[n |-> s.n, from |-> a] : s \in To}
        /\ strain' = IF \E e \in Client : \E s \in subs[e] : s.st = "asked" /\ s.id = j
                     THEN Strained(j, {"haste"}) ELSE strain
    BY DEF ServerPublish
  <1>2. outbox[a] \in Seq(Id) /\ j \in Id
    BY <1>1 DEF AllOK, LinksOK
  <1> SUFFICES ASSUME Meets(c, d, k)', Expects(c, d, k) PROVE Expects(c, d, k)'
    BY <1>1, KnownStays DEF Meets
  <1>3. CASE d \in peers[c] \/ \E m \in inbox[c] : m.from = d
    BY <1>1, <1>3 DEF Expects
  <1>4. CASE Contains(outbox[d], k) /\ d # a
    <2>1. outbox'[d] = outbox[d]
      BY <1>1, <1>4 DEF AllOK, LinksOK
    <2>2. QED
      BY <1>4, <2>1 DEF Expects
  <1>5. CASE Contains(outbox[d], k) /\ d = a /\ k # j
    <2>1. outbox'[d] = Tail(outbox[d])
      BY <1>1, <1>5 DEF AllOK, LinksOK
    <2>2. Contains(outbox'[d], k)
      BY <1>1, <1>2, <1>5, <2>1, ContainsInTail
    <2>3. QED
      BY <2>2 DEF Expects
  <1>6. CASE d = a /\ k = j
    <2>1. /\ session[c] = k /\ pc[c] \in Boots \cup {"running"} /\ Calm(k)'
      BY <1>1 DEF Meets, Boots
    <2>2. strain[k] \cap {"outage", "loss"} = {}
      BY <2>1 DEF Calm, Remembers
    <2>3. PICK s \in subs[c] : s.id = k
      BY <2>1, <2>2 DEF Ear
    <2>4. s.st # "asked"
      <3>1. ASSUME s.st = "asked" PROVE FALSE
        <4>1. strain' = Strained(j, {"haste"})
          BY <1>1, <1>6, <2>3, <3>1
        <4>2. "haste" \in strain'[k]
          <5> HIDE DEF j
          <5>1. QED
            BY <1>2, <1>6, <4>1, StrainedGrows
        <4>3. QED
          BY <2>1, <4>2 DEF Calm
      <3>2. QED
        BY <3>1
    <2>5. s \in To
      BY <1>6, <2>3, <2>4 DEF AllOK, LinksOK, Sub
    <2>6. \E m \in inbox'[c] : m.from = d
      <3> DEFINE hello == [n |-> s.n, from |-> a]
      <3>1. hello \in inbox'[c] /\ hello.from = d
        BY <1>1, <1>6, <2>5
      <3> HIDE DEF hello
      <3>2. QED
        BY <3>1
    <2>7. QED
      BY <2>6 DEF Expects
  <1>7. QED
    BY <1>3, <1>4, <1>5, <1>6 DEF Expects

LEMMA KnownAfterHandling ==
  ASSUME AllOK, NEW a \in Client, HandlePeer(a), Remembers,
         NEW c \in Client, NEW d \in Client, c # d, NEW k \in Id, Known(c, d, k)
  PROVE  Known(c, d, k)'
  <1>1. PICK m \in inbox[a] :
          /\ inbox' = [inbox EXCEPT ![a] = @ \ {m}] /\ peers' = Mark(peers, a, {m.from})
          /\ UNCHANGED <<session, pc, outbox>>
    BY DEF HandlePeer
  <1> SUFFICES ASSUME Expects(c, d, k) PROVE Expects(c, d, k)'
    BY <1>1, KnownStays DEF Meets
  <1>2. peers[c] \subseteq peers'[c]
    BY <1>1 DEF Mark, AllOK, LinksOK
  <1>3. CASE d \in peers[c] \/ Contains(outbox[d], k)
    BY <1>1, <1>2, <1>3 DEF Expects
  <1>4. ASSUME NEW h \in inbox[c], h.from = d PROVE Expects(c, d, k)'
    <2>1. h \in inbox'[c] \/ (c = a /\ h = m)
      BY <1>1 DEF AllOK, LinksOK
    <2>2. c = a /\ h = m => d \in peers'[c]
      BY <1>1, <1>4 DEF Mark, AllOK, LinksOK
    <2>3. QED
      BY <1>4, <2>1, <2>2 DEF Expects
  <1>5. QED
    BY <1>3, <1>4 DEF Expects

LEMMA KnownAfterLoss ==
  ASSUME AllOK, NEW a \in Client, Lose(a), Remembers,
         NEW c \in Client, NEW d \in Client, c # d, NEW k \in Id, Known(c, d, k)
  PROVE  Known(c, d, k)'
  <1>1. UNCHANGED <<session, pc, peers, inbox>>
    BY DEF Lose
  <1>2. CASE outbox' = outbox
    BY <1>1, <1>2, KnownStays, ExpectsStays DEF Meets
  <1>3. CASE /\ outbox' = [outbox EXCEPT ![a] = <<>>]
             /\ strain' = [j \in Id |-> IF j \in ToSet(outbox[a]) THEN strain[j] \cup {"loss"}
                                                                 ELSE strain[j]]
    <2> SUFFICES ASSUME Meets(c, d, k)', Expects(c, d, k) PROVE Expects(c, d, k)'
      BY <1>1, KnownStays DEF Meets
    <2>1. CASE d # a
      <3>1. outbox'[d] = outbox[d]
        BY <1>3, <2>1 DEF AllOK, LinksOK
      <3>2. QED
        BY <1>1, <3>1, ExpectsStays
    <2>2. CASE d = a
      <3>1. ~Contains(outbox[d], k)
        <4>1. ASSUME Contains(outbox[d], k) PROVE FALSE
          <5>1. outbox[a] \in Seq(Id)
            BY DEF AllOK, LinksOK
          <5>2. k \in ToSet(outbox[a])
            BY <2>2, <4>1, <5>1 DEF Contains, ToSet
          <5>3. "loss" \in strain'[k]
            BY <1>3, <5>2
          <5>4. QED
            BY <5>3 DEF Meets, Calm
        <4>2. QED
          BY <4>1
      <3>2. QED
        BY <1>1, <3>1 DEF Expects
    <2>3. QED
      BY <2>1, <2>2
  <1>4. QED
    BY <1>2, <1>3 DEF Lose

LEMMA StepIsKnown ==
  ASSUME AllOK, Orderly, NEW a \in Client, User(a) \/ Thread(a) \/ World(a),
         NEW c \in Client, NEW d \in Client, c # d, NEW k \in Id, Known(c, d, k), Ear(c, k)
  PROVE  Known(c, d, k)'
  <1>0. Remembers
    BY StepRemembers
  <1>1. ASSUME UNCHANGED <<session, peers, inbox, outbox>>,
               \A e \in Client : \/ pc'[e] = pc[e] \/ {pc[e], pc'[e]} \subseteq {"boot_put", "running"}
                                 \/ pc'[e] \notin Boots \cup {"running"}
        PROVE  Known(c, d, k)'
    BY <1>0, <1>1, KnownStays, ExpectsStays DEF Meets, Boots
  <1>2. ASSUME \A e \in Client : e # a => Same(e) /\ peers'[e] = peers[e] /\ inbox'[e] = inbox[e],
               UNCHANGED outbox, pc'[a] \in {"idle", "over"}
        PROVE  Known(c, d, k)'
    <2>1. CASE a \in {c, d}
      BY <1>2, <2>1 DEF Known, Meets, Boots
    <2>2. CASE a \notin {c, d}
      BY <1>0, <1>2, <2>2, KnownStays, ExpectsStays DEF Meets, Same
    <2>3. QED
      BY <2>1, <2>2
  <1>3. ASSUME \/ Launch(a) \/ ShowPreferences(a) \/ GenerateSessionID(a) \/ WindowWillClose(a)
               \/ OnTimer(a) \/ ServerSubscribe(a) \/ ServerUnsubscribe(a)
        PROVE  Known(c, d, k)'
    <2>1. UNCHANGED <<session, peers, inbox, outbox>>
      BY <1>3 DEF Launch, ShowPreferences, GenerateSessionID, WindowWillClose, OnTimer,
                  ServerSubscribe, ServerUnsubscribe
    <2>2. \A e \in Client : pc'[e] = pc[e] \/ {pc[e], pc'[e]} \cap (Busy \cup {"running"}) = {}
      BY <1>3, QuietDoes
    <2>3. Boots \subseteq Busy
      BY DEF Boots, Busy
    <2>4. QED
      BY <1>1, <2>1, <2>2, <2>3
  <1>4. ASSUME Start(a) \/ Cancel(a) \/ \E j \in Id : UseSessionKey(a, j) PROVE Known(c, d, k)'
    <2>1. PICK j \in Id : Boot(a, j)
      BY <1>4 DEF Start, Cancel, UseSessionKey, AllOK, SettingsOK
    <2>2. QED
      BY <1>0, <2>1, KnownAfterBoot
  <1>5. ASSUME Stop(a) \/ Quit(a) PROVE Known(c, d, k)'
    <2>1. /\ UNCHANGED <<session, peers, inbox, outbox>> /\ pc' = [pc EXCEPT ![a] = "stop_get"]
      BY <1>5 DEF Stop, Quit, Stopping
    <2>2. \A e \in Client : pc'[e] = pc[e] \/ pc'[e] = "stop_get"
      BY <2>1 DEF AllOK, ThreadOK
    <2>3. QED
      BY <1>1, <2>1, <2>2 DEF Boots
  <1>6. ASSUME BootPut(a) PROVE Known(c, d, k)'
    <2>1. /\ UNCHANGED <<session, peers, inbox, outbox>> /\ pc[a] = "boot_put"
          /\ pc' = [pc EXCEPT ![a] = "running"]
      BY <1>6 DEF BootPut
    <2>2. \A e \in Client : pc'[e] = pc[e] \/ {pc[e], pc'[e]} \subseteq {"boot_put", "running"}
      BY <2>1 DEF AllOK, ThreadOK
    <2>3. QED
      BY <1>1, <2>1, <2>2
  <1>7. ASSUME NEW remain, NEW event, Stopped(a, remain, event) PROVE Known(c, d, k)'
    <2>1. \A e \in Client : e # a => peers'[e] = peers[e] /\ inbox'[e] = inbox[e]
      BY <1>7 DEF Stopped, Closed, AllOK, LinksOK
    <2>2. UNCHANGED outbox
      BY <1>7 DEF Stopped
    <2>3. QED
      BY <1>2, <1>7, <2>1, <2>2, StoppedDoes
  <1>8. ASSUME StopGet(a) PROVE Known(c, d, k)'
    <2>1. CASE Stopped(a, peers[a], {"kept"})
      BY <1>7, <2>1
    <2>2. CASE /\ pc' = [pc EXCEPT ![a] = "stop_put"]
               /\ UNCHANGED <<session, peers, inbox, outbox>>
      <3>1. \A e \in Client : pc'[e] = pc[e] \/ pc'[e] = "stop_put"
        BY <2>2 DEF AllOK, ThreadOK
      <3>2. QED
        BY <1>1, <2>2, <3>1 DEF Boots
    <2>3. QED
      BY <1>8, <2>1, <2>2 DEF StopGet
  <1>9. ASSUME StopPut(a) PROVE Known(c, d, k)'
    BY <1>7, <1>9 DEF StopPut
  <1>10. ASSUME Crash(a) \/ Fall(a) PROVE Known(c, d, k)'
    <2>1. Gone(a)
      BY <1>10 DEF Crash, Fall
    <2>2. /\ \A e \in Client : e # a => peers'[e] = peers[e] /\ inbox'[e] = inbox[e]
          /\ UNCHANGED outbox
      BY <2>1 DEF Gone, Closed, AllOK, LinksOK
    <2>3. QED
      BY <1>2, <2>1, <2>2, GoneDoes
  <1>11. ASSUME BootGet(a) \/ ServerPublish(a) \/ HandlePeer(a) \/ Lose(a) PROVE Known(c, d, k)'
    BY <1>0, <1>11, KnownAfterBootGet, KnownAfterPublish, KnownAfterHandling, KnownAfterLoss
  <1>12. QED
    BY <1>3, <1>4, <1>5, <1>6, <1>8, <1>9, <1>10, <1>11 DEF User, Thread, World

LEMMA StaysMet == Spec => []Met
  <1>1. Init => Met
    BY DEF Init, Met, Rested, Ear, Known, Meets, Boots, Stops
  <1>2. AllOK /\ Orderly /\ (\A c \in Client : Sound(c)) /\ Met /\ [Next]_vars => Met'
    <2> SUFFICES ASSUME AllOK, Orderly, \A c \in Client : Sound(c), Met, [Next]_vars PROVE Met'
      OBVIOUS
    <2>1. CASE UNCHANGED vars
      BY <2>1 DEF vars, Met, Rested, Ear, Known, Meets, Expects, Calm
    <2>2. ASSUME NEW a \in Client, User(a) \/ Thread(a) \/ World(a) PROVE Met'
      <3>1. \A c \in Client : Rested(c)'
        BY <2>2, StepIsRested DEF Met
      <3>2. \A c \in Client, k \in Id : Ear(c, k)'
        BY <2>2, StepKeepsAnEar DEF Met
      <3>3. \A c, d \in Client, k \in Id : Known(c, d, k)'
        <4> SUFFICES ASSUME NEW c \in Client, NEW d \in Client, NEW k \in Id, c # d
                     PROVE  Known(c, d, k)'
          BY DEF Known
        <4>1. QED
          BY <2>2, StepIsKnown DEF Met
      <3>4. QED
        BY <3>1, <3>2, <3>3 DEF Met
    <2>3. QED
      BY <2>1, <2>2 DEF Next
  <1>3. QED
    BY <1>1, <1>2, AllStaysOK, AllAreSound, StaysOrderly, PTL DEF Spec

\* start says HELLO before it subscribes and reads the list after: running processes of a
\* session know each other once the HELLOs are handled, unless operations overlapped, the
\* server was late to subscribe one, a call failed, a connection broke or the defaults had
\* moved; and who has stopped knows nobody, unless a HELLO crossed its stop or it found no
\* list to leave.
THEOREM PeersStayRight == Spec => []PeersAreRight
  <1>1. AllOK /\ Met => PeersAreRight
    <2> SUFFICES ASSUME AllOK, Met PROVE PeersAreRight
      OBVIOUS
    <2>1. ASSUME NEW c \in Client, NEW d \in Client, c # d, session[c] = session[d],
                 pc[c] = "running", pc[d] = "running", Calm(session[c]),
                 inbox[c] = {}, ~Contains(outbox[d], session[c])
          PROVE  d \in peers[c]
      <3>1. session[c] \in Id
        BY <2>1 DEF AllOK, ThreadOK
      <3>2. Meets(c, d, session[c])
        BY <2>1 DEF Meets
      <3>3. Expects(c, d, session[c])
        BY <2>1, <3>1, <3>2 DEF Met, Known
      <3>4. QED
        BY <2>1, <3>3 DEF Expects
    <2>2. ASSUME NEW c \in Client, pc[c] = "idle", peers[c] # {}
          PROVE  past[c] \cap {"kept", "crossed"} # {}
      BY <2>2 DEF Met, Rested
    <2>3. QED
      BY <2>1, <2>2 DEF PeersAreRight, Calm
  <1>2. QED
    BY <1>1, AllStaysOK, StaysMet, PTL

=============================================================================
