----------------------- MODULE ProfileSessionsProofs -----------------------
(***************************************************************************)
(* Proofs about ProfileSessions, for any number of sessions, of other      *)
(* devices and of starts, whatever the user and the system may do.         *)
(***************************************************************************)
EXTENDS ProfileSessions, TLAPS

USE ConductAssumption, BoundAssumption, NameAssumption, VisitsAssumption
USE DEF processReply, connectAndDispatch, stringValueForKey, setStringValue, deleteKey,
        publishObject, subscribeToChannel, unsubscribeAll

-----------------------------------------------------------------------------

(***************************************************************************)
(* Type correctness.                                                       *)
(***************************************************************************)

\* Strengthening of the type invariant: who is about to write has read a list.
HasRead ==
  /\ \A c \in Controller : In("stopPut", c) => held \in SUBSET Entry
  /\ Cleans("cleanPut") => SessionsKey \in Session /\ held \in SUBSET Entry

\* What stop writes is a list or the absence of one.
LEMMA StopWritesAList ==
  ASSUME NEW who, NEW l \in SUBSET Entry
  PROVE  StopWrites(who, l) \in (SUBSET Entry) \cup {NoKey}
  BY DEF StopWrites, Without

\* Where the main thread may wait is one of the states named.
LEMMA OpIsTyped ==
  /\ \A stage \in Stage, c \in Controller :
       [at |-> stage, who |-> c] \in [at : Stage, who : Controller]
  /\ \A at \in {"rest", "cleanGet", "cleanPut"} :
       [at |-> at] \in [at : {"rest", "cleanGet", "cleanPut"}]
  OBVIOUS

\* Marking keeps what was marked before, and the type.
LEMMA MarksAreTyped ==
  ASSUME strain \subseteq Session \X Strain, NEW set \in SUBSET (Session \X Strain), Marks(set)
  PROVE  strain' \subseteq Session \X Strain /\ strain \subseteq strain' /\ set \subseteq strain'
  BY DEF Marks

\* The ends of the process leave a well-typed state.
LEMMA EndsIsTyped ==
  ASSUME TypeOK, Ends
  PROVE  TypeOK' /\ HasRead'
  <1>1. strain' \subseteq Session \X Strain
    <2> DEFINE left == {s \in Session : list[s] # NoKey /\ \E e \in list[s] : Mine(e)} \X {"ended"}
    <2>1. left \in SUBSET (Session \X Strain) /\ Marks(left)
      BY DEF Ends, Strain
    <2> HIDE DEF left
    <2>2. QED
      BY <2>1, MarksAreTyped DEF TypeOK
  <1>2. op' \in [at : {"rest", "cleanGet", "cleanPut"}] /\ op'.at = "rest"
    BY DEF Ends, Rest
  <1>3. HasRead'
    BY <1>2 DEF HasRead, In, Cleans
  <1>4. shown' \in [Session -> 0..MaxCopy] /\ peers' \in [Controller -> SUBSET (Controller \cup Other)]
    <2>1. 0 \in 0..MaxCopy
      OBVIOUS
    <2>2. QED
      BY <2>1 DEF Ends
  <1>5. /\ running' = {} /\ subs' = {} /\ inbox' = {} /\ tasks' = {} /\ deaf' = {}
        /\ up' = FALSE /\ held' = NoKey
        /\ UNCHANGED <<stored, saved, made, starts, list, inside>>
    BY DEF Ends
  <1>6. QED
    BY <1>1, <1>2, <1>3, <1>4, <1>5 DEF TypeOK

\* An announcement reaches controllers as a message.
LEMMA AnnouncedIsTyped ==
  ASSUME NEW d \in Other, NEW s \in Session, NEW kind \in {"HELLO", "GOODBYE"}
  PROVE  Announced(d, s, kind) \subseteq Message
  <1>1. SUFFICES ASSUME NEW m \in Announced(d, s, kind) PROVE m \in Message
    OBVIOUS
  <1>2. PICK c \in Controller : m = [to |-> c, kind |-> kind, from |-> d]
    BY DEF Announced
  <1>3. QED
    BY <1>2 DEF Message

LEMMA TypeInvariant == Spec => [](TypeOK /\ HasRead)
  <1>1. Init => TypeOK /\ HasRead
    <2> SUFFICES ASSUME Init PROVE TypeOK /\ HasRead
      OBVIOUS
    <2>1. 0 \in 0..MaxCopy /\ 0 \in 0..MaxStart
      OBVIOUS
    <2>2. /\ shown \in [Session -> 0..MaxCopy] /\ made \in [Session -> 0..MaxCopy]
          /\ peers \in [Controller -> SUBSET (Controller \cup Other)]
          /\ list \in [Session -> (SUBSET Entry) \cup {NoKey}]
      BY <2>1 DEF Init
    <2>3. op \in [at : {"rest", "cleanGet", "cleanPut"}] /\ op.at = "rest"
      BY DEF Init, Rest
    <2>4. HasRead
      BY <2>3 DEF HasRead, In, Cleans
    <2>5. /\ up = FALSE /\ stored = {} /\ saved = FALSE /\ running = {} /\ subs = {} /\ inbox = {}
          /\ tasks = {} /\ starts = 0 /\ held = NoKey /\ inside = {} /\ deaf = {} /\ strain = {}
      BY DEF Init
    <2>6. QED
      BY <2>1, <2>2, <2>3, <2>4, <2>5 DEF TypeOK
  <1>2. TypeOK /\ HasRead /\ [Next]_vars => (TypeOK /\ HasRead)'
    <2> SUFFICES ASSUME TypeOK, HasRead, [Next]_vars
                 PROVE  TypeOK' /\ HasRead'
      OBVIOUS
    <2> USE DEF appVars, netVars
    <2>1. ASSUME Launch PROVE TypeOK' /\ HasRead'
      BY <2>1 DEF Launch, TypeOK, HasRead, Rest, In, Cleans
    <2>2. ASSUME CleanGet PROVE TypeOK' /\ HasRead'
      BY <2>2 DEF CleanGet, TypeOK, HasRead, Rest, In, Cleans
    <2>3. ASSUME CleanPut PROVE TypeOK' /\ HasRead'
      BY <2>3 DEF CleanPut, TypeOK, HasRead, Rest, In, Cleans
    <2>4. ASSUME Die PROVE TypeOK' /\ HasRead'
      BY <2>4, EndsIsTyped DEF Die
    <2>5. ASSUME NEW s \in Session, addProfile(s) PROVE TypeOK' /\ HasRead'
      BY <2>5 DEF addProfile, MarkIf, Mark, Marks, Strain, TypeOK, HasRead, In, Cleans
    <2>6. ASSUME NEW s \in Session, removeProfile(s) PROVE TypeOK' /\ HasRead'
      BY <2>6 DEF removeProfile, MarkIf, Mark, Marks, Strain, TypeOK, HasRead, In, Cleans
    <2>7. ASSUME NEW c \in Controller, Start(c) PROVE TypeOK' /\ HasRead'
      BY <2>7 DEF Start, Quieten, Mark, Marks, Strain, TypeOK, HasRead, In, Cleans, GoTo, Stage, Controller
    <2>8. ASSUME NEW c \in Controller, StartRefused(c) PROVE TypeOK' /\ HasRead'
      BY <2>8 DEF StartRefused, TypeOK, HasRead, In, Cleans
    <2>9. ASSUME NEW c \in Controller, BootGet(c) PROVE TypeOK' /\ HasRead'
      <3>1. CASE Ends
        BY <3>1, EndsIsTyped
      <3>2. CASE ~Ends
        <4>1. op' = [at |-> "bootPut", who |-> c] /\ held' \in {list[c.session], NoKey}
          BY <2>9, <3>2 DEF BootGet, GoTo
        <4>2. op' \in [at : Stage, who : Controller] /\ HasRead'
          BY <4>1 DEF Stage, HasRead, In, Cleans
        <4>3. held' \in (SUBSET Entry) \cup {NoKey}
          BY <4>1 DEF Controller, TypeOK
        <4>4. strain' \subseteq Session \X Strain
          BY <2>9, <3>2 DEF BootGet, MarkIf, Mark, Marks, Strain, Controller, TypeOK
        <4>5. peers' \in [Controller -> SUBSET (Controller \cup Other)]
          <5>1. \A l \in SUBSET Entry : {e.who : e \in l} \subseteq Controller \cup Other
            BY DEF Entry
          <5>2. list[c.session] \in (SUBSET Entry) \cup {NoKey}
            BY DEF Controller, TypeOK
          <5>3. peers' = peers \/ \E l \in SUBSET Entry :
                  peers' = [peers EXCEPT ![c] = @ \cup {e.who : e \in l}]
            BY <2>9, <3>2, <5>2 DEF BootGet
          <5>4. CASE peers' = peers
            BY <5>4 DEF TypeOK
          <5>5. ASSUME NEW l \in SUBSET Entry, peers' = [peers EXCEPT ![c] = @ \cup {e.who : e \in l}]
                PROVE  peers' \in [Controller -> SUBSET (Controller \cup Other)]
            <6> DEFINE found == {e.who : e \in l}
            <6>1. found \subseteq Controller \cup Other
              BY <5>1
            <6>2. peers' = [peers EXCEPT ![c] = @ \cup found]
              BY <5>5
            <6> HIDE DEF found
            <6>3. QED
              BY <6>1, <6>2 DEF TypeOK
          <5>6. QED
            BY <5>3, <5>4, <5>5
        <4>6. UNCHANGED <<appVars, running, subs, tasks, starts, netVars, deaf>>
          BY <2>9, <3>2 DEF BootGet
        <4>7. QED
          BY <4>4, <4>5, <4>6, <4>2, <4>3 DEF TypeOK
      <3>3. QED
        BY <3>1, <3>2
    <2>10. ASSUME NEW c \in Controller, BootPut(c) PROVE TypeOK' /\ HasRead'
      <3>1. [who |-> c, start |-> starts] \in Entry
        BY DEF Entry, TypeOK
      <3>2. list' \in [Session -> (SUBSET Entry) \cup {NoKey}]
        <4> DEFINE new == (IF held = NoKey THEN {} ELSE held) \cup {[who |-> c, start |-> starts]}
        <4>1. list' = list \/ list' = [list EXCEPT ![c.session] = new]
          BY <2>10 DEF BootPut
        <4>2. new \in SUBSET Entry
          BY <3>1 DEF TypeOK
        <4> HIDE DEF new
        <4>3. QED
          BY <4>1, <4>2 DEF TypeOK
      <3>3. op' \in [at : Stage, who : Controller] \cup [at : {"rest", "cleanGet", "cleanPut"}]
        BY <2>10 DEF BootPut, Quieten, GoTo, Stage, Rest
      <3>4. HasRead'
        BY <2>10 DEF BootPut, Quieten, GoTo, Rest, HasRead, In, Cleans
      <3>5. strain' \subseteq Session \X Strain
        BY <2>10 DEF BootPut, Mark, Marks, Strain, Controller, TypeOK
      <3>6. subs' \subseteq Controller \X (Controller \cup Other \cup {Broadcast})
        <4>1. subs' = {} \/ subs' = subs \cup ({c} \X peers[c])
          BY <2>10 DEF BootPut, Quieten
        <4>2. QED
          BY <4>1 DEF TypeOK
      <3>7. running' \subseteq Controller /\ deaf' \subseteq Controller /\ held' = NoKey
        BY <2>10 DEF BootPut, Quieten, TypeOK
      <3>8. UNCHANGED <<appVars, peers, tasks, starts, inside, inbox>>
        BY <2>10 DEF BootPut
      <3>9. QED
        BY <3>2, <3>3, <3>4, <3>5, <3>6, <3>7, <3>8 DEF TypeOK
    <2>11. ASSUME NEW c \in Controller, Stop(c) PROVE TypeOK' /\ HasRead'
      BY <2>11 DEF Stop, Quieten, TypeOK, HasRead, In, Cleans, GoTo, Stage
    <2>12. ASSUME NEW t \in tasks, Expire(t) PROVE TypeOK' /\ HasRead'
      BY <2>12 DEF Expire, Quieten, MarkIf, Mark, Marks, Strain, TypeOK, HasRead, In, Cleans, GoTo, Stage, Controller
    <2>13. ASSUME NEW c \in Controller, StopGet(c) PROVE TypeOK' /\ HasRead'
      BY <2>13 DEF StopGet, MarkIf, Mark, Marks, Strain, TypeOK, HasRead, In, Cleans, GoTo, Stage, Controller, Rest
    <2>14. ASSUME NEW c \in Controller, StopPut(c) PROVE TypeOK' /\ HasRead'
      <3>1. held \in SUBSET Entry /\ c.session \in Session
        BY <2>14 DEF StopPut, HasRead, Controller
      <3>2. list' \in {list, [list EXCEPT ![c.session] = NoKey], [list EXCEPT ![c.session] = Without(c, held)]}
        BY <2>14 DEF StopPut
      <3>3. Without(c, held) \in SUBSET Entry
        BY <3>1 DEF Without
      <3>4. list' \in [Session -> (SUBSET Entry) \cup {NoKey}]
        BY <3>1, <3>2, <3>3 DEF TypeOK
      <3>5. strain' \subseteq Session \X Strain
        BY <2>14, <3>1 DEF StopPut, MarkIf, Mark, Marks, Strain, TypeOK
      <3>6. QED
        BY <2>14, <3>4, <3>5 DEF StopPut, TypeOK, HasRead, In, Cleans, Rest
    <2>15. ASSUME NEW d \in Other, NEW s \in Session, <<d, s>> \in Visits, Join(d, s)
           PROVE  TypeOK' /\ HasRead'
      <3>1. [who |-> d, start |-> 0] \in Entry
        BY DEF Entry
      <3>2. list' \in [Session -> (SUBSET Entry) \cup {NoKey}]
        BY <2>15, <3>1 DEF Join, TypeOK
      <3>3. inbox' \subseteq Message
        BY <2>15, AnnouncedIsTyped DEF Join, TypeOK
      <3>4. inside' \subseteq Visits /\ HasRead'
        BY <2>15 DEF Join, TypeOK, HasRead, In, Cleans
      <3>5. UNCHANGED <<appVars, running, peers, subs, tasks, starts, op, held, deaf, strain>>
        BY <2>15 DEF Join
      <3>6. QED
        BY <3>2, <3>3, <3>4, <3>5 DEF TypeOK
    <2>16. ASSUME NEW d \in Other, NEW s \in Session, <<d, s>> \in Visits, Leave(d, s)
           PROVE  TypeOK' /\ HasRead'
      <3>1. list' \in [Session -> (SUBSET Entry) \cup {NoKey}]
        BY <2>16, StopWritesAList DEF Leave, TypeOK
      <3>2. inbox' \subseteq Message
        BY <2>16, AnnouncedIsTyped DEF Leave, TypeOK
      <3>3. inside' \subseteq Visits /\ HasRead'
        BY <2>16 DEF Leave, TypeOK, HasRead, In, Cleans
      <3>4. UNCHANGED <<appVars, running, peers, subs, tasks, starts, op, held, deaf, strain>>
        BY <2>16 DEF Leave
      <3>5. QED
        BY <3>1, <3>2, <3>3, <3>4 DEF TypeOK
    <2>17. ASSUME NEW m \in inbox, HandleHello(m) PROVE TypeOK' /\ HasRead'
      BY <2>17 DEF HandleHello, Message, TypeOK, HasRead, In, Cleans
    <2>18. ASSUME NEW m \in inbox, HandleGoodbye(m) PROVE TypeOK' /\ HasRead'
      BY <2>18 DEF HandleGoodbye, Message, TypeOK, HasRead, In, Cleans
    <2>19. CASE UNCHANGED vars
      BY <2>19 DEF vars, TypeOK, HasRead, In, Cleans
    <2>20. QED
      BY <2>1, <2>2, <2>3, <2>4, <2>5, <2>6, <2>7, <2>8, <2>9, <2>10, <2>11, <2>12, <2>13,
         <2>14, <2>15, <2>16, <2>17, <2>18, <2>19 DEF Next
  <1>3. QED
    BY <1>1, <1>2, PTL DEF Spec

\* Every variable keeps its type.
THEOREM TypeCorrect == Spec => []TypeOK
  BY TypeInvariant, PTL

-----------------------------------------------------------------------------

(***************************************************************************)
(* What has happened to a session stays on record, but for an end of the   *)
(* process, which the clean-up repairs.                                    *)
(***************************************************************************)
LEMMA StrainGrows ==
  ASSUME [Next]_vars, ~CleanPut
  PROVE  strain \subseteq strain'
  <1> USE DEF Mark, MarkIf, Marks
  <1>1. Launch \/ CleanGet \/ Die => strain \subseteq strain'
    BY DEF Launch, CleanGet, Die, Ends
  <1>2. ASSUME NEW t \in Session PROVE addProfile(t) \/ removeProfile(t) => strain \subseteq strain'
    BY DEF addProfile, removeProfile
  <1>3. ASSUME NEW c \in Controller
        PROVE  \/ Start(c) \/ StartRefused(c) \/ BootGet(c) \/ BootPut(c) \/ Stop(c)
               \/ StopGet(c) \/ StopPut(c)
               => strain \subseteq strain'
    BY DEF Start, StartRefused, BootGet, Ends, BootPut, Stop, StopGet, StopPut
  <1>4. ASSUME NEW t \in tasks, Expire(t) PROVE strain \subseteq strain'
    BY <1>4 DEF Expire
  <1>5. ASSUME NEW d \in Other, NEW t \in Session PROVE Join(d, t) \/ Leave(d, t) => strain' = strain
    BY DEF Join, Leave
  <1>6. ASSUME NEW m \in inbox PROVE HandleHello(m) \/ HandleGoodbye(m) => strain' = strain
    BY DEF HandleHello, HandleGoodbye
  <1>7. UNCHANGED vars => strain' = strain
    BY DEF vars
  <1>8. QED
    BY <1>1, <1>2, <1>3, <1>4, <1>5, <1>6, <1>7 DEF Next

LEMMA StrainStays ==
  ASSUME [Next]_vars, NEW s, NEW w, w # "ended", <<s, w>> \in strain
  PROVE  <<s, w>> \in strain'
  <1>1. CleanPut => <<s, w>> \in strain'
    BY DEF CleanPut
  <1>2. QED
    BY <1>1, StrainGrows

-----------------------------------------------------------------------------

(***************************************************************************)
(* A running controller hears its session.                                 *)
(***************************************************************************)

\* A start that goes on is subscribed to the broadcasts.
StartHears ==
  \A c \in Controller : In("bootGet", c) \/ In("bootPut", c) => <<c, Broadcast>> \in subs

\* At a launch, and until its clean-up is over, nothing runs and nothing waits.
Fresh ==
  /\ ~up => op = Rest
  /\ ~up \/ Cleans("cleanGet") \/ Cleans("cleanPut") =>
       running = {} /\ subs = {} /\ inbox = {} /\ \A c \in Controller : peers[c] = {}

HearsInv == Fresh /\ StartHears /\ RunningHears

\* Wherever the main thread waits, it does not rest and does not clean up.
LEMMA OnePlace ==
  ASSUME NEW a \in Stage, NEW b \in Stage, NEW c, NEW k
  PROVE  /\ In(a, c) => op # Rest /\ ~Cleans("cleanGet") /\ ~Cleans("cleanPut")
         /\ In(a, c) /\ In(b, k) => a = b /\ c = k
         /\ Cleans("cleanGet") => op # Rest /\ ~Cleans("cleanPut")
         /\ Cleans("cleanPut") => op # Rest
  BY DEF In, Cleans, Rest, Stage

\* The ends of the process leave a fresh state.
LEMMA EndsIsFresh ==
  ASSUME Ends
  PROVE  Fresh' /\ running' = {} /\ op' = Rest
  BY DEF Ends, Fresh

LEMMA FreshStays ==
  ASSUME TypeOK, Fresh, [Next]_vars
  PROVE  Fresh'
  <1> USE DEF appVars, netVars
  <1>1. Launch => Fresh'
    BY DEF Launch, Fresh
  <1>2. CleanGet => Fresh'
    BY DEF CleanGet, Fresh, Cleans, Rest
  <1>3. CleanPut => Fresh'
    BY DEF CleanPut, Fresh, Cleans, Rest
  <1>4. Die => Fresh'
    BY EndsIsFresh DEF Die
  <1>5. ASSUME NEW s \in Session PROVE addProfile(s) \/ removeProfile(s) => Fresh'
    BY DEF addProfile, removeProfile, AtRest, Fresh, Cleans, Rest
  <1>6. ASSUME NEW c \in Controller PROVE Start(c) \/ StartRefused(c) \/ Stop(c) => Fresh'
    BY DEF Start, StartRefused, Stop, Quieten, AtRest, Fresh, Cleans, Rest, GoTo
  <1>7. ASSUME NEW c \in Controller PROVE BootGet(c) => Fresh'
    BY EndsIsFresh DEF BootGet, Fresh, Cleans, Rest, In, GoTo
  <1>8. ASSUME NEW c \in Controller PROVE BootPut(c) \/ StopGet(c) \/ StopPut(c) => Fresh'
    BY DEF BootPut, StopGet, StopPut, Quieten, Fresh, Cleans, Rest, In, GoTo
  <1>9. ASSUME NEW t \in tasks PROVE Expire(t) => Fresh'
    BY DEF Expire, Quieten, AtRest, Fresh, Cleans, Rest, GoTo
  <1>10. ASSUME NEW d \in Other, NEW s \in Session PROVE Join(d, s) \/ Leave(d, s) => Fresh'
    <2>1. ASSUME NEW kind PROVE subs = {} => Announced(d, s, kind) = {}
      BY DEF Announced
    <2>2. QED
      BY <2>1 DEF Join, Leave, Fresh, Cleans
  <1>11. ASSUME NEW m \in inbox PROVE HandleHello(m) \/ HandleGoodbye(m) => Fresh'
    BY DEF HandleHello, HandleGoodbye, Fresh, Cleans
  <1>12. UNCHANGED vars => Fresh'
    BY DEF vars, Fresh, Cleans
  <1>13. QED
    BY <1>1, <1>2, <1>3, <1>4, <1>5, <1>6, <1>7, <1>8, <1>9, <1>10, <1>11, <1>12 DEF Next

\* unsubscribeAll silences all but the controller that stops, which is busy.
LEMMA QuietenedHears ==
  ASSUME NEW c \in Controller, Quieten(c), UNCHANGED running
  PROVE  StartHears' /\ RunningHears'
  BY DEF Quieten, GoTo, StartHears, RunningHears, Engaged, In, Stage

LEMMA HearsStays ==
  ASSUME TypeOK, HearsInv, [Next]_vars
  PROVE  StartHears' /\ RunningHears'
  <1> USE DEF appVars, netVars, HearsInv
  <1>1. Launch => StartHears' /\ RunningHears'
    BY DEF Launch, Fresh, StartHears, RunningHears, In, Rest
  <1>2. CleanGet \/ CleanPut => StartHears' /\ RunningHears'
    BY DEF CleanGet, CleanPut, Fresh, StartHears, RunningHears, In, Rest, Cleans
  <1>3. Ends => StartHears' /\ RunningHears'
    BY EndsIsFresh DEF StartHears, RunningHears, In, Rest
  <1>4. ASSUME NEW s \in Session PROVE addProfile(s) \/ removeProfile(s) => StartHears' /\ RunningHears'
    BY DEF addProfile, removeProfile, StartHears, RunningHears, Engaged, In
  <1>5. ASSUME NEW c \in Controller, Start(c) PROVE StartHears' /\ RunningHears'
    <2>1. CASE subs' = subs \cup {<<c, Broadcast>>} /\ GoTo("bootGet", c) /\ UNCHANGED deaf
      BY <1>5, <2>1 DEF Start, StartHears, RunningHears, Engaged, In, GoTo, AtRest, Rest, Stage
    <2>2. CASE Quieten(c)
      BY <1>5, <2>2, QuietenedHears DEF Start
    <2>3. QED
      BY <1>5, <2>1, <2>2 DEF Start
  <1>6. ASSUME NEW c \in Controller, StartRefused(c) PROVE StartHears' /\ RunningHears'
    BY <1>6 DEF StartRefused, StartHears, RunningHears, Engaged, In
  <1>7. ASSUME NEW c \in Controller, BootGet(c) PROVE StartHears' /\ RunningHears'
    <2>1. CASE Ends
      BY <2>1, <1>3
    <2>2. CASE ~Ends
      <3>1. /\ op = [at |-> "bootGet", who |-> c] /\ op' = [at |-> "bootPut", who |-> c]
            /\ UNCHANGED <<running, subs, deaf>> /\ \A k \in Controller \ {c} : peers'[k] = peers[k]
        BY <1>7, <2>2 DEF BootGet, In, GoTo, TypeOK
      <3>2. StartHears'
        BY <3>1 DEF StartHears, In
      <3>3. Engaged(c)' /\ \A k \in Controller : Engaged(k) => k = c
        BY <3>1 DEF Engaged, In, Stage
      <3>4. QED
        BY <3>1, <3>2, <3>3 DEF RunningHears, TypeOK
    <2>3. QED
      BY <2>1, <2>2
  <1>8. ASSUME NEW c \in Controller, BootPut(c) PROVE StartHears' /\ RunningHears'
    <2>1. CASE subs' = subs \cup ({c} \X peers[c]) /\ running' = running \cup {c} /\ op' = Rest /\ UNCHANGED deaf
      BY <1>8, <2>1 DEF BootPut, StartHears, RunningHears, Engaged, In, Rest, Stage
    <2>2. CASE Quieten(c) /\ UNCHANGED running
      BY <2>2, QuietenedHears
    <2>3. QED
      BY <1>8, <2>1, <2>2 DEF BootPut
  <1>9. ASSUME NEW c \in Controller, Stop(c) PROVE StartHears' /\ RunningHears'
    BY <1>9, QuietenedHears DEF Stop
  <1>10. ASSUME NEW t \in tasks, Expire(t) PROVE StartHears' /\ RunningHears'
    BY <1>10, QuietenedHears DEF Expire, TypeOK
  <1>11. ASSUME NEW c \in Controller, StopGet(c) PROVE StartHears' /\ RunningHears'
    <2>1. /\ op = [at |-> "stopGet", who |-> c] /\ UNCHANGED <<peers, subs, deaf>>
          /\ \/ op' = [at |-> "stopPut", who |-> c] /\ running' = running
             \/ op' = Rest /\ running' = running \ {c}
      BY <1>11 DEF StopGet, In, GoTo
    <2>2. StartHears'
      BY <2>1 DEF StartHears, In, Rest
    <2>3. \A k \in Controller : Engaged(k) => k = c
      BY <2>1 DEF Engaged, In, Stage
    <2>4. Engaged(c)' \/ c \notin running'
      BY <2>1 DEF Engaged, In, Stage
    <2>5. QED
      BY <2>1, <2>2, <2>3, <2>4 DEF RunningHears, TypeOK
  <1>12. ASSUME NEW c \in Controller, StopPut(c) PROVE StartHears' /\ RunningHears'
    BY <1>12 DEF StopPut, StartHears, RunningHears, Engaged, In, Rest, Stage, TypeOK
  <1>13. ASSUME NEW d \in Other, NEW s \in Session PROVE Join(d, s) \/ Leave(d, s) => StartHears' /\ RunningHears'
    BY DEF Join, Leave, StartHears, RunningHears, Engaged, In
  <1>14. ASSUME NEW m \in inbox, HandleHello(m) PROVE StartHears' /\ RunningHears'
    BY <1>14 DEF HandleHello, StartHears, RunningHears, Engaged, In, TypeOK
  <1>15. ASSUME NEW m \in inbox, HandleGoodbye(m) PROVE StartHears' /\ RunningHears'
    BY <1>15 DEF HandleGoodbye, StartHears, RunningHears, Engaged, In, TypeOK
  <1>16. UNCHANGED vars => StartHears' /\ RunningHears'
    BY DEF vars, StartHears, RunningHears, Engaged, In
  <1>17. QED
    BY <1>1, <1>2, <1>3, <1>4, <1>5, <1>6, <1>7, <1>8, <1>9, <1>10, <1>11, <1>12, <1>13,
       <1>14, <1>15, <1>16 DEF Next, Die

LEMMA HearsInvariant == Spec => []HearsInv
  <1>1. Init => HearsInv
    BY DEF Init, HearsInv, Fresh, StartHears, RunningHears, In, Rest, Cleans
  <1>2. TypeOK /\ HearsInv /\ [Next]_vars => HearsInv'
    BY FreshStays, HearsStays DEF HearsInv
  <1>3. QED
    BY <1>1, <1>2, TypeCorrect, PTL DEF Spec

\* A running controller hears its session's broadcasts and each of its peers,
\* except after the stop of another one.
THEOREM RunningOnesHear == Spec => []RunningHears
  <1>1. HearsInv => RunningHears
    BY DEF HearsInv
  <1>2. QED
    BY <1>1, HearsInvariant, PTL

-----------------------------------------------------------------------------

(***************************************************************************)
(* The others stay listed.                                                 *)
(***************************************************************************)

\* The list that is about to be replaced is still the one that was read; a start
\* that could not read it has that on record.
HeldIsList ==
  /\ \A c \in Controller : In("stopPut", c) => held # NoKey /\ held = list[c.session]
  /\ Cleans("cleanPut") => SessionsKey \in Session /\ held # NoKey /\ held = list[SessionsKey]
  /\ \A c \in Controller : In("bootPut", c) =>
       held = list[c.session] \/ (held = NoKey /\ Suffered(c.session, {"outage"}))

\* Who runs is listed, and who stops has run: so a stop that finds one component
\* finds its own.
RunningStands ==
  \A c \in running : Stands(c, list[c.session]) \/ Suffered(c.session, {"late", "outage"})

StoppingRuns ==
  \A c \in Controller : In("stopGet", c) \/ In("stopPut", c) =>
    c \in running \/ Suffered(c.session, {"late", "outage"})

ListInv == Fresh /\ HeldIsList /\ RunningStands /\ StoppingRuns /\ OthersStayListed

\* StrainStays, for what does not get repaired.
LEMMA SufferedStays ==
  ASSUME [Next]_vars, NEW s, NEW what, "ended" \notin what, Suffered(s, what)
  PROVE  Suffered(s, what)'
  BY StrainStays DEF Suffered

\* Whoever else stands on a list that one of two leaves, stays.
LEMMA OthersSurviveStop ==
  ASSUME NEW l \in SUBSET Entry, NEW who, NEW k, who # k, Stands(who, l), Stands(k, l)
  PROVE  Stands(k, StopWrites(who, l))
  <1>1. PICK e \in l : e.who = k
    BY DEF Stands
  <1>2. PICK f \in l : f.who = who
    BY DEF Stands
  <1>3. ~OneComponent(l)
    BY <1>1, <1>2 DEF OneComponent
  <1>4. e \in Without(who, l) /\ Without(who, l) \in SUBSET Entry
    BY <1>1 DEF Without
  <1>5. QED
    BY <1>1, <1>3, <1>4 DEF StopWrites, Stands

\* Steps that leave the lists, the running controllers and the others alone.
LEMMA StandingStays ==
  ASSUME TypeOK, ListInv, [Next]_vars, UNCHANGED <<list, inside>>, running' \subseteq running
  PROVE  RunningStands' /\ OthersStayListed'
  <1>1. ASSUME NEW c \in running' PROVE Stands(c, list[c.session])' \/ Suffered(c.session, {"late", "outage"})'
    BY <1>1, SufferedStays DEF ListInv, RunningStands, Stands
  <1>2. ASSUME NEW d \in Other, NEW s \in Session, <<d, s>> \in inside'
        PROVE  Stands(d, list[s])' \/ Suffered(s, {"late", "outage"})'
    BY <1>2, SufferedStays DEF ListInv, OthersStayListed, Stands
  <1>3. QED
    BY <1>1, <1>2 DEF RunningStands, OthersStayListed

\* Between the read and the write of a list nobody else replaces it.
LEMMA HeldStays ==
  ASSUME TypeOK, ListInv, [Next]_vars
  PROVE  HeldIsList'
  <1> USE DEF appVars, netVars
  <1>1. op' = Rest \/ Cleans("cleanGet")' \/ (\E c \in Controller : In("bootGet", c)' \/ In("stopGet", c)')
          => HeldIsList'
    BY DEF HeldIsList, In, Cleans, Rest
  <1>2. Launch \/ CleanPut \/ Ends => op' = Rest \/ Cleans("cleanGet")'
    BY DEF Launch, CleanPut, Ends, Cleans
  <1>3. CleanGet => HeldIsList'
    BY DEF CleanGet, HeldIsList, In, Cleans, Rest
  <1>4. ASSUME NEW s \in Session PROVE addProfile(s) \/ removeProfile(s) => op' = Rest
    BY DEF addProfile, removeProfile, AtRest
  <1>5. ASSUME NEW c \in Controller
        PROVE  Start(c) \/ StartRefused(c) \/ Stop(c) \/ BootPut(c) \/ StopPut(c)
                 => op' = Rest \/ In("bootGet", c)' \/ In("stopGet", c)'
    BY DEF Start, StartRefused, Stop, BootPut, StopPut, AtRest, Quieten, GoTo, In
  <1>6. ASSUME NEW t \in tasks, Expire(t) PROVE \E c \in Controller : In("stopGet", c)'
    BY <1>6 DEF Expire, Quieten, GoTo, In, TypeOK
  <1>7. ASSUME NEW c \in Controller, BootGet(c), ~Ends PROVE HeldIsList'
    <2>1. /\ op' = [at |-> "bootPut", who |-> c] /\ list' = list
          /\ held' = list[c.session] \/ (held' = NoKey /\ Suffered(c.session, {"outage"})')
      BY <1>7 DEF BootGet, GoTo, MarkIf, Mark, Marks, Suffered
    <2>2. QED
      BY <2>1 DEF HeldIsList, In, Cleans
  <1>8. ASSUME NEW c \in Controller, StopGet(c) PROVE HeldIsList'
    BY <1>8 DEF StopGet, GoTo, HeldIsList, In, Cleans, Rest
  <1>9. ASSUME NEW d \in Other, NEW s \in Session, Join(d, s) \/ Leave(d, s) PROVE HeldIsList'
    <2>1. /\ UNCHANGED <<op, held, strain>> /\ Undisturbed(s)
          /\ \A u \in Session \ {s} : list'[u] = list[u]
      BY <1>9 DEF Join, Leave, TypeOK
    <2>2. \A c \in Controller : c.session \in Session
      BY DEF Controller
    <2>3. QED
      BY <2>1, <2>2 DEF ListInv, HeldIsList, In, Cleans, Undisturbed, Suffered
  <1>10. ASSUME NEW m \in inbox, HandleHello(m) \/ HandleGoodbye(m) PROVE HeldIsList'
    BY <1>10 DEF HandleHello, HandleGoodbye, ListInv, HeldIsList, In, Cleans, Suffered
  <1>11. UNCHANGED vars => HeldIsList'
    BY DEF vars, ListInv, HeldIsList, In, Cleans, Suffered
  <1>12. QED
    BY <1>1, <1>2, <1>3, <1>4, <1>5, <1>6, <1>7, <1>8, <1>9, <1>10, <1>11 DEF Next, Die

\* A stop is of a controller that runs, or has a reason on record.
LEMMA StoppingStays ==
  ASSUME TypeOK, ListInv, [Next]_vars
  PROVE  StoppingRuns'
  <1> USE DEF appVars, netVars
  <1>1. op' = Rest \/ Cleans("cleanGet")' \/ Cleans("cleanPut")'
          \/ (\E c \in Controller : In("bootGet", c)' \/ In("bootPut", c)')
          => StoppingRuns'
    BY DEF StoppingRuns, In, Cleans, Rest
  <1>2. ASSUME NEW c \in Controller, op' = [at |-> "stopGet", who |-> c],
               c \in running' \/ Suffered(c.session, {"late", "outage"})'
        PROVE  StoppingRuns'
    BY <1>2 DEF StoppingRuns, In
  <1>3. op' = op /\ running' = running => StoppingRuns'
    BY SufferedStays DEF ListInv, StoppingRuns, In
  <1>4. Launch \/ CleanGet \/ CleanPut \/ Ends => StoppingRuns'
    BY <1>1 DEF Launch, CleanGet, CleanPut, Ends, Cleans
  <1>5. ASSUME NEW s \in Session PROVE addProfile(s) \/ removeProfile(s) => StoppingRuns'
    BY <1>3 DEF addProfile, removeProfile
  <1>6. ASSUME NEW c \in Controller, Start(c) \/ BootPut(c) PROVE StoppingRuns'
    <2>1. CASE op' = Rest \/ In("bootGet", c)'
      BY <2>1, <1>1
    <2>2. CASE op' = [at |-> "stopGet", who |-> c] /\ <<c.session, "outage">> \in strain'
      BY <2>2, <1>2 DEF Suffered
    <2>3. QED
      BY <1>6, <2>1, <2>2 DEF Start, BootPut, Quieten, GoTo, In, Mark, Marks
  <1>7. ASSUME NEW c \in Controller, StartRefused(c) PROVE StoppingRuns'
    BY <1>7, <1>3 DEF StartRefused
  <1>8. ASSUME NEW c \in Controller, BootGet(c), ~Ends PROVE StoppingRuns'
    BY <1>8, <1>1 DEF BootGet, GoTo, In
  <1>9. ASSUME NEW c \in Controller, Stop(c) PROVE StoppingRuns'
    BY <1>9, <1>2 DEF Stop, Quieten, GoTo
  <1>10. ASSUME NEW t \in tasks, Expire(t) PROVE StoppingRuns'
    BY <1>10, <1>2 DEF Expire, Quieten, GoTo, MarkIf, Mark, Marks, Suffered, TypeOK
  <1>11. ASSUME NEW c \in Controller, StopGet(c) PROVE StoppingRuns'
    <2>1. CASE op' = Rest
      BY <2>1, <1>1
    <2>2. CASE op' = [at |-> "stopPut", who |-> c] /\ running' = running
      <3>1. c \in running \/ Suffered(c.session, {"late", "outage"})
        BY <1>11 DEF StopGet, ListInv, StoppingRuns
      <3>2. c \in running' \/ Suffered(c.session, {"late", "outage"})'
        BY <2>2, <3>1, SufferedStays
      <3>3. QED
        BY <2>2, <3>2 DEF StoppingRuns, In
    <2>3. QED
      BY <1>11, <2>1, <2>2 DEF StopGet, GoTo
  <1>12. ASSUME NEW c \in Controller, StopPut(c) PROVE StoppingRuns'
    BY <1>12, <1>1 DEF StopPut
  <1>13. ASSUME NEW d \in Other, NEW s \in Session PROVE Join(d, s) \/ Leave(d, s) => StoppingRuns'
    BY <1>3 DEF Join, Leave
  <1>14. ASSUME NEW m \in inbox PROVE HandleHello(m) \/ HandleGoodbye(m) => StoppingRuns'
    BY <1>3 DEF HandleHello, HandleGoodbye
  <1>15. UNCHANGED vars => StoppingRuns'
    BY <1>3 DEF vars
  <1>16. QED
    BY <1>4, <1>5, <1>6, <1>7, <1>8, <1>9, <1>10, <1>11, <1>12, <1>13, <1>14, <1>15 DEF Next, Die

\* A list replaced by one on which all others keep standing.
LEMMA StandingSurvives ==
  ASSUME TypeOK, ListInv, [Next]_vars, NEW s \in Session,
         \A u \in Session \ {s} : list'[u] = list[u],
         \A k \in running' : k.session = s =>
           Stands(k, list'[s]) \/ (~Stands(k, list[s]) /\ k \in running) \/ Suffered(s, {"late", "outage"})',
         \A k \in running' : k.session # s => k \in running,
         \A d \in Other : <<d, s>> \in inside' =>
           Stands(d, list'[s]) \/ (~Stands(d, list[s]) /\ <<d, s>> \in inside) \/ Suffered(s, {"late", "outage"})',
         \A d \in Other, u \in Session \ {s} : <<d, u>> \in inside' => <<d, u>> \in inside,
         running' \subseteq Controller
  PROVE  RunningStands' /\ OthersStayListed'
  <1>1. ASSUME NEW k \in running' PROVE Stands(k, list'[k.session]) \/ Suffered(k.session, {"late", "outage"})'
    <2>1. k.session \in Session
      BY DEF Controller
    <2>2. k \in running /\ ~Stands(k, list[k.session]) => Suffered(k.session, {"late", "outage"})'
      BY SufferedStays DEF ListInv, RunningStands
    <2>3. QED
      BY <2>1, <2>2
  <1>2. ASSUME NEW d \in Other, NEW u \in Session, <<d, u>> \in inside'
        PROVE  Stands(d, list'[u]) \/ Suffered(u, {"late", "outage"})'
    <2>1. <<d, u>> \in inside /\ ~Stands(d, list[u]) => Suffered(u, {"late", "outage"})'
      BY SufferedStays DEF ListInv, OthersStayListed
    <2>2. QED
      BY <1>2, <2>1
  <1>3. RunningStands'
    BY <1>1 DEF RunningStands, Stands
  <1>4. OthersStayListed'
    BY <1>2 DEF OthersStayListed, Stands
  <1>5. QED
    BY <1>3, <1>4

\* The steps that replace a list, and the rest.
LEMMA StandingKept ==
  ASSUME TypeOK, ListInv, [Next]_vars
  PROVE  RunningStands' /\ OthersStayListed'
  <1> USE DEF appVars, netVars
  <1>1. \A c \in Controller : c.session \in Session
    BY DEF Controller
  <1>2. Launch \/ CleanGet \/ Ends => RunningStands' /\ OthersStayListed'
    BY StandingStays DEF Launch, CleanGet, Ends
  <1>3. ASSUME CleanPut PROVE RunningStands' /\ OthersStayListed'
    <2>1. running' = {} /\ running = {} /\ inside' = inside
      BY <1>3 DEF CleanPut, ListInv, Fresh
    <2>2. SessionsKey \in Session /\ held = list[SessionsKey] /\ held \in SUBSET Entry
      BY <1>3 DEF CleanPut, ListInv, HeldIsList, TypeOK
    <2>3. CASE list' = list
      BY <2>1, <2>3, StandingStays
    <2>4. CASE list' # list
      <3> DEFINE rest == {e \in held : ~Mine(e)}
      <3>1. list' = [list EXCEPT ![SessionsKey] = IF rest = {} /\ held # {} THEN NoKey ELSE rest]
        BY <1>3, <2>4 DEF CleanPut
      <3>2. ASSUME NEW d \in Other, Stands(d, held) PROVE Stands(d, list'[SessionsKey])
        <4>1. PICK e \in held : e.who = d
          BY <3>2 DEF Stands
        <4>2. e \in rest /\ rest \in SUBSET Entry
          BY <2>2, <4>1 DEF Mine
        <4>3. list'[SessionsKey] = rest /\ rest # NoKey
          BY <2>2, <3>1, <4>2 DEF TypeOK
        <4>4. QED
          BY <4>1, <4>2, <4>3 DEF Stands
      <3>3. \A u \in Session \ {SessionsKey} : list'[u] = list[u]
        BY <3>1 DEF TypeOK
      <3>4. QED
        BY <2>1, <2>2, <3>2, <3>3, StandingSurvives
    <2>5. QED
      BY <2>3, <2>4
  <1>4. ASSUME NEW s \in Session PROVE addProfile(s) \/ removeProfile(s) => RunningStands' /\ OthersStayListed'
    BY StandingStays DEF addProfile, removeProfile
  <1>5. ASSUME NEW c \in Controller
        PROVE  Start(c) \/ StartRefused(c) \/ Stop(c) \/ StopGet(c) => RunningStands' /\ OthersStayListed'
    BY StandingStays DEF Start, StartRefused, Stop, StopGet
  <1>6. ASSUME NEW c \in Controller, BootGet(c), ~Ends PROVE RunningStands' /\ OthersStayListed'
    BY <1>6, StandingStays DEF BootGet
  <1>7. ASSUME NEW c \in Controller, BootPut(c) PROVE RunningStands' /\ OthersStayListed'
    <2>1. CASE UNCHANGED <<list, running>>
      BY <1>7, <2>1, StandingStays DEF BootPut
    <2>2. CASE list' = [list EXCEPT ![c.session] =
                          (IF held = NoKey THEN {} ELSE held) \cup {[who |-> c, start |-> starts]}]
      <3> DEFINE s == c.session
                 me == [who |-> c, start |-> starts]
      <3>1. s \in Session /\ (list[s] \in SUBSET Entry \/ list[s] = NoKey) /\ me \in Entry
        BY <1>1 DEF TypeOK, Entry
      <3>2. held = list[s] \/ Suffered(s, {"late", "outage"})'
        <4>1. held = list[s] \/ Suffered(s, {"late", "outage"})
          BY <1>7 DEF BootPut, ListInv, HeldIsList, Suffered
        <4>2. QED
          BY <4>1, SufferedStays
      <3>3. held = list[s] => \A k : Stands(k, list[s]) => Stands(k, list'[s])
        <4>1. ASSUME held = list[s], NEW k, Stands(k, list[s]) PROVE Stands(k, list'[s])
          <5>1. list'[s] = list[s] \cup {me} /\ list'[s] \in SUBSET Entry
            BY <2>2, <3>1, <4>1 DEF TypeOK, Stands
          <5>2. QED
            BY <4>1, <5>1 DEF Stands
        <4>2. QED
          BY <4>1
      <3>4. Stands(c, list'[s])
        <4>1. list'[s] \in SUBSET Entry /\ me \in list'[s]
          <5>1. held \in SUBSET Entry \/ held = NoKey
            BY DEF TypeOK
          <5>2. QED
            BY <2>2, <3>1, <5>1 DEF TypeOK
        <4>2. QED
          BY <4>1 DEF Stands
      <3>5. /\ \A u \in Session \ {s} : list'[u] = list[u]
            /\ running' \subseteq running \cup {c} /\ inside' = inside
        BY <1>7, <2>2 DEF BootPut, TypeOK
      <3>6. running' \subseteq Controller
        BY <3>5 DEF TypeOK
      <3>7. \A k \in running' : k.session = s =>
              Stands(k, list'[s]) \/ (~Stands(k, list[s]) /\ k \in running) \/ Suffered(s, {"late", "outage"})'
        BY <3>2, <3>3, <3>4, <3>5
      <3>8. \A k \in running' : k.session # s => k \in running
        BY <3>5
      <3>9. \A d \in Other : <<d, s>> \in inside' =>
              Stands(d, list'[s]) \/ (~Stands(d, list[s]) /\ <<d, s>> \in inside) \/ Suffered(s, {"late", "outage"})'
        BY <3>2, <3>3, <3>5
      <3> HIDE DEF s, me
      <3>10. QED
        BY <3>1, <3>5, <3>6, <3>7, <3>8, <3>9, StandingSurvives
    <2>3. QED
      BY <1>7, <2>1, <2>2 DEF BootPut
  <1>8. ASSUME NEW t \in tasks, Expire(t) PROVE RunningStands' /\ OthersStayListed'
    BY <1>8, StandingStays DEF Expire
  <1>9. ASSUME NEW c \in Controller, StopPut(c) PROVE RunningStands' /\ OthersStayListed'
    <2>1. CASE list' = list
      BY <1>9, <2>1, StandingStays DEF StopPut
    <2>2. CASE list' = [list EXCEPT ![c.session] = StopWrites(c, held)]
      <3> DEFINE s == c.session
      <3>1. s \in Session /\ held = list[s] /\ held \in SUBSET Entry
        BY <1>1, <1>9 DEF StopPut, ListInv, HeldIsList, TypeOK
      <3>2. Stands(c, list[s]) \/ Suffered(s, {"late", "outage"})'
        <4>1. Stands(c, list[s]) \/ Suffered(s, {"late", "outage"})
          BY <1>9 DEF StopPut, ListInv, StoppingRuns, RunningStands
        <4>2. QED
          BY <4>1, SufferedStays
      <3>3. ASSUME NEW k, k # c, Stands(k, list[s]), Stands(c, list[s]) PROVE Stands(k, list'[s])
        BY <2>2, <3>1, <3>3, OthersSurviveStop DEF TypeOK
      <3>4. /\ \A u \in Session \ {s} : list'[u] = list[u]
            /\ running' = running \ {c} /\ inside' = inside
        BY <1>9, <2>2 DEF StopPut, TypeOK
      <3>5. running' \subseteq Controller
        BY <3>4 DEF TypeOK
      <3>6. \A k \in running' : k.session = s =>
              Stands(k, list'[s]) \/ (~Stands(k, list[s]) /\ k \in running) \/ Suffered(s, {"late", "outage"})'
        BY <3>2, <3>3, <3>4
      <3>7. \A d \in Other : <<d, s>> \in inside' =>
              Stands(d, list'[s]) \/ (~Stands(d, list[s]) /\ <<d, s>> \in inside) \/ Suffered(s, {"late", "outage"})'
        BY <3>2, <3>3, <3>4
      <3> HIDE DEF s
      <3>8. QED
        BY <3>1, <3>4, <3>5, <3>6, <3>7, StandingSurvives
    <2>3. list' = list \/ list' = [list EXCEPT ![c.session] = StopWrites(c, held)]
      BY <1>9 DEF StopPut, StopWrites
    <2>4. QED
      BY <2>1, <2>2, <2>3
  <1>10. ASSUME NEW d \in Other, NEW s \in Session, Join(d, s) PROVE RunningStands' /\ OthersStayListed'
    <2>1. /\ inside' = inside \cup {<<d, s>>} /\ running' = running
          /\ \A u \in Session \ {s} : list'[u] = list[u]
      BY <1>10 DEF Join, TypeOK
    <2>2. /\ [who |-> d, start |-> 0] \in list'[s] /\ list'[s] \in SUBSET Entry
          /\ list[s] # NoKey => list[s] \subseteq list'[s]
      <3>1. [who |-> d, start |-> 0] \in Entry
        BY DEF Entry
      <3>2. QED
        BY <1>10, <3>1 DEF Join, TypeOK
    <2>3. \A k : Stands(k, list[s]) => Stands(k, list'[s])
      BY <2>2 DEF Stands
    <2>4. Stands(d, list'[s])
      BY <2>2 DEF Stands
    <2>5. running' \subseteq Controller
      BY <2>1 DEF TypeOK
    <2>6. /\ \A e \in Other : <<e, s>> \in inside' => e = d \/ <<e, s>> \in inside
          /\ \A e \in Other, u \in Session \ {s} : <<e, u>> \in inside' => <<e, u>> \in inside
      BY <2>1
    <2>7. \A e \in Other : <<e, s>> \in inside' =>
            Stands(e, list'[s]) \/ (~Stands(e, list[s]) /\ <<e, s>> \in inside) \/ Suffered(s, {"late", "outage"})'
      BY <2>3, <2>4, <2>6
    <2>8. QED
      BY <2>1, <2>3, <2>5, <2>6, <2>7, StandingSurvives
  <1>11. ASSUME NEW d \in Other, NEW s \in Session, Leave(d, s) PROVE RunningStands' /\ OthersStayListed'
    <2>1. /\ inside' = inside \ {<<d, s>>} /\ running' = running /\ <<d, s>> \in inside
          /\ \A u \in Session \ {s} : list'[u] = list[u]
      BY <1>11 DEF Leave, TypeOK
    <2>2. Stands(d, list[s]) \/ Suffered(s, {"late", "outage"})'
      BY <2>1, SufferedStays DEF ListInv, OthersStayListed
    <2>3. ASSUME NEW k, k # d, Stands(k, list[s]), Stands(d, list[s]) PROVE Stands(k, list'[s])
      <3>1. list[s] \in SUBSET Entry /\ list[s] # NoKey
        BY <2>3 DEF Stands, TypeOK
      <3>2. QED
        BY <1>11, <2>3, <3>1, OthersSurviveStop DEF Leave, TypeOK
    <2>4. running' \subseteq Controller
      BY <2>1 DEF TypeOK
    <2>5. \A k \in running' : k # d
      BY <2>4
    <2>6. \A k \in Other : <<k, s>> \in inside' => k # d /\ <<k, s>> \in inside
      BY <2>1
    <2>7. QED
      BY <2>1, <2>2, <2>3, <2>4, <2>5, <2>6, StandingSurvives
  <1>12. ASSUME NEW m \in inbox PROVE HandleHello(m) \/ HandleGoodbye(m) => RunningStands' /\ OthersStayListed'
    BY StandingStays DEF HandleHello, HandleGoodbye
  <1>13. UNCHANGED vars => RunningStands' /\ OthersStayListed'
    BY StandingStays DEF vars
  <1>14. QED
    BY <1>2, <1>3, <1>4, <1>5, <1>6, <1>7, <1>8, <1>9, <1>10, <1>11, <1>12, <1>13 DEF Next, Die

LEMMA ListInvariant == Spec => []ListInv
  <1>1. Init => ListInv
    BY DEF Init, ListInv, Fresh, HeldIsList, RunningStands, StoppingRuns, OthersStayListed, In, Rest, Cleans
  <1>2. TypeOK /\ ListInv /\ [Next]_vars => ListInv'
    BY FreshStays, HeldStays, StoppingStays, StandingKept DEF ListInv
  <1>3. QED
    BY <1>1, <1>2, TypeCorrect, PTL DEF Spec

\* The stops of the device leave the others on the list, except where a stop
\* came twice or the server was out of reach.
THEOREM OthersAreListed == Spec => []OthersStayListed
  <1>1. ListInv => OthersStayListed
    BY DEF ListInv
  <1>2. QED
    BY <1>1, ListInvariant, PTL

-----------------------------------------------------------------------------

(***************************************************************************)
(* The device and its other selves.                                        *)
(***************************************************************************)

\* A controller is listed in its own session.
OwnSession ==
  \A s \in Session : list[s] # NoKey => \A e \in list[s] : Mine(e) => e.who.session = s

\* The first part of NoOtherSelf.
ListedRuns ==
  \A s \in Session : list[s] # NoKey =>
    \A e \in list[s] : Mine(e) => e.who \in running \/ Suffered(s, {"ended", "outage"})

\* A session has one controller in the table of profiles.  A start is of that
\* one, and of the running ones all others have been replaced.
StartIsShown ==
  \A c \in Controller : In("bootGet", c) \/ In("bootPut", c) => Shown(c) /\ c \notin running

RunningIsShown ==
  \A c \in running : Shown(c) \/ Suffered(c.session, {"replaced"})

\* The second part of NoOtherSelf, for those that do not run as well.
NoSelfPeer ==
  \A c \in Controller :
    peers[c] \cap Controller # {} => Suffered(c.session, {"ended", "outage", "replaced"})

SelfInv == ListInv /\ OwnSession /\ ListedRuns /\ StartIsShown /\ RunningIsShown /\ NoSelfPeer

\* A session shows one controller.
LEMMA ShownIsOne ==
  ASSUME NEW c \in Controller, NEW k \in Controller, c.session = k.session, Shown(c), Shown(k)
  PROVE  c = k
  BY DEF Controller, Shown

LEMMA ShownStays ==
  ASSUME TypeOK, SelfInv, [Next]_vars
  PROVE  StartIsShown' /\ RunningIsShown'
  <1> USE DEF appVars, netVars, SelfInv, Shown
  <1>1. UNCHANGED <<shown, op>> /\ running' = running => StartIsShown' /\ RunningIsShown'
    BY SufferedStays DEF StartIsShown, RunningIsShown, In
  <1>2. ASSUME UNCHANGED shown, running' \subseteq running,
               \A c \in Controller : ~In("bootGet", c)' /\ ~In("bootPut", c)'
        PROVE  StartIsShown' /\ RunningIsShown'
    BY <1>2, SufferedStays DEF StartIsShown, RunningIsShown
  <1>3. Launch => StartIsShown' /\ RunningIsShown'
    BY DEF Launch, ListInv, Fresh, StartIsShown, RunningIsShown, In, Rest
  <1>4. CleanGet \/ CleanPut => StartIsShown' /\ RunningIsShown'
    BY <1>2 DEF CleanGet, CleanPut, In, Rest
  <1>5. Ends => StartIsShown' /\ RunningIsShown'
    BY DEF Ends, StartIsShown, RunningIsShown, In, Rest
  <1>6. ASSUME NEW s \in Session, addProfile(s) \/ removeProfile(s) PROVE StartIsShown' /\ RunningIsShown'
    <2>1. StartIsShown'
      BY <1>6 DEF addProfile, removeProfile, AtRest, StartIsShown, In, Rest
    <2>2. ASSUME NEW c \in running', c.session = s, Shown(c) PROVE <<s, "replaced">> \in strain'
      <3>1. c = [session |-> s, copy |-> shown[s]] /\ c \in running
        BY <1>6, <2>2 DEF addProfile, removeProfile, TypeOK, Controller
      <3>2. QED
        BY <1>6, <3>1 DEF addProfile, removeProfile, MarkIf, Mark, Marks
    <2>3. ASSUME NEW c \in running' PROVE Shown(c)' \/ Suffered(c.session, {"replaced"})'
      <3>1. c \in running /\ c.session \in Session
        BY <1>6, <2>3 DEF addProfile, removeProfile, TypeOK, Controller
      <3>2. c.session # s => shown'[c.session] = shown[c.session]
        BY <1>6, <3>1 DEF addProfile, removeProfile, TypeOK
      <3>3. Suffered(c.session, {"replaced"}) => Suffered(c.session, {"replaced"})'
        BY SufferedStays
      <3>4. QED
        BY <2>2, <3>1, <3>2, <3>3 DEF RunningIsShown, Suffered
    <2>4. QED
      BY <2>1, <2>3 DEF RunningIsShown
  <1>7. ASSUME NEW c \in Controller, Start(c) PROVE StartIsShown' /\ RunningIsShown'
    <2>1. /\ UNCHANGED <<shown, running>> /\ Shown(c) /\ c \notin running
          /\ op' \in {[at |-> "bootGet", who |-> c], [at |-> "stopGet", who |-> c]}
      BY <1>7 DEF Start, Quieten, GoTo
    <2>2. QED
      BY <2>1, SufferedStays DEF StartIsShown, RunningIsShown, In
  <1>8. ASSUME NEW c \in Controller, StartRefused(c) \/ Stop(c) \/ StopGet(c) \/ StopPut(c)
        PROVE  StartIsShown' /\ RunningIsShown'
    <2>1. CASE UNCHANGED op
      BY <1>8, <2>1, <1>1 DEF StartRefused, Stop, StopGet, StopPut, Quieten, GoTo, AtRest, In, Rest
    <2>2. CASE op' \in {Rest, [at |-> "stopGet", who |-> c], [at |-> "stopPut", who |-> c]}
      BY <1>8, <2>2, <1>2 DEF StartRefused, Stop, StopGet, StopPut, In, Rest
    <2>3. QED
      BY <1>8, <2>1, <2>2 DEF StartRefused, Stop, StopGet, StopPut, Quieten, GoTo
  <1>9. ASSUME NEW c \in Controller, BootGet(c), ~Ends PROVE StartIsShown' /\ RunningIsShown'
    <2>1. /\ op = [at |-> "bootGet", who |-> c] /\ op' = [at |-> "bootPut", who |-> c]
          /\ UNCHANGED <<shown, running>>
      BY <1>9 DEF BootGet, GoTo, In
    <2>2. QED
      BY <2>1, SufferedStays DEF StartIsShown, RunningIsShown, In
  <1>10. ASSUME NEW c \in Controller, BootPut(c) PROVE StartIsShown' /\ RunningIsShown'
    <2>1. /\ UNCHANGED shown /\ running' \subseteq running \cup {c} /\ Shown(c)
          /\ op' \in {Rest, [at |-> "stopGet", who |-> c]}
      BY <1>10 DEF BootPut, Quieten, GoTo, StartIsShown
    <2>2. QED
      BY <2>1, SufferedStays DEF StartIsShown, RunningIsShown, In, Rest
  <1>11. ASSUME NEW t \in tasks, Expire(t) PROVE StartIsShown' /\ RunningIsShown'
    BY <1>11, <1>2 DEF Expire, Quieten, GoTo, In
  <1>12. ASSUME NEW d \in Other, NEW s \in Session PROVE Join(d, s) \/ Leave(d, s) => StartIsShown' /\ RunningIsShown'
    BY <1>1 DEF Join, Leave
  <1>13. ASSUME NEW m \in inbox PROVE HandleHello(m) \/ HandleGoodbye(m) => StartIsShown' /\ RunningIsShown'
    BY <1>1 DEF HandleHello, HandleGoodbye
  <1>14. UNCHANGED vars => StartIsShown' /\ RunningIsShown'
    BY <1>1 DEF vars
  <1>15. QED
    BY <1>3, <1>4, <1>5, <1>6, <1>7, <1>8, <1>9, <1>10, <1>11, <1>12, <1>13, <1>14 DEF Next, Die

\* What is on record stays there.
LEMMA MarkedStays ==
  ASSUME strain \subseteq strain', NEW s, NEW what, Suffered(s, what)
  PROVE  Suffered(s, what)'
  BY DEF Suffered

\* Steps that put the device on no list and stop nobody.
LEMMA OwnListsStay ==
  ASSUME SelfInv, strain \subseteq strain', running \subseteq running',
         \A s \in Session : list'[s] # NoKey =>
           \A e \in list'[s] : Mine(e) => list[s] # NoKey /\ e \in list[s]
  PROVE  OwnSession' /\ ListedRuns'
  <1>1. OwnSession'
    BY DEF SelfInv, OwnSession, Mine
  <1>2. ASSUME NEW s \in Session, list'[s] # NoKey, NEW e \in list'[s], Mine(e)
        PROVE  e.who \in running' \/ Suffered(s, {"ended", "outage"})'
    BY <1>2, MarkedStays DEF SelfInv, ListedRuns
  <1>3. QED
    BY <1>1, <1>2 DEF ListedRuns, Mine

\* Steps that give nobody a controller of the device for a peer.
LEMMA PeersStay ==
  ASSUME SelfInv, strain \subseteq strain',
         \A c \in Controller : peers'[c] \cap Controller \subseteq peers[c]
  PROVE  NoSelfPeer'
  <1>1. ASSUME NEW c \in Controller, peers'[c] \cap Controller # {}
        PROVE  Suffered(c.session, {"ended", "outage", "replaced"})'
    BY <1>1, MarkedStays DEF SelfInv, NoSelfPeer
  <1>2. QED
    BY <1>1 DEF NoSelfPeer

\* The end of the process leaves its entries behind, on record.
LEMMA EndsIsOnRecord ==
  ASSUME SelfInv, Ends
  PROVE  OwnSession' /\ ListedRuns' /\ NoSelfPeer'
  <1>1. list' = list /\ \A c \in Controller : peers'[c] = {}
    BY DEF Ends
  <1>2. ASSUME NEW s \in Session, list[s] # NoKey, NEW e \in list[s], Mine(e)
        PROVE  <<s, "ended">> \in strain'
    BY <1>2 DEF Ends, Marks
  <1>3. QED
    BY <1>1, <1>2 DEF SelfInv, OwnSession, ListedRuns, NoSelfPeer, Mine, Suffered

\* The clean-up takes the device off the list of "sessions", and its end with it.
LEMMA CleanUpRepairs ==
  ASSUME TypeOK, SelfInv, CleanPut
  PROVE  OwnSession' /\ ListedRuns' /\ NoSelfPeer'
  <1>1. /\ SessionsKey \in Session /\ held = list[SessionsKey] /\ held # NoKey
        /\ running = {} /\ \A c \in Controller : peers[c] = {}
    BY DEF CleanPut, SelfInv, ListInv, HeldIsList, Fresh
  <1>2. running' = running /\ NoSelfPeer'
    BY <1>1 DEF CleanPut, NoSelfPeer
  <1>3. CASE UNCHANGED <<list, strain>>
    BY <1>2, <1>3, OwnListsStay
  <1>4. CASE /\ list' = [list EXCEPT ![SessionsKey] =
                           IF {e \in held : ~Mine(e)} = {} /\ held # {} THEN NoKey ELSE {e \in held : ~Mine(e)}]
             /\ strain' = strain \ {<<SessionsKey, "ended">>}
    <2>1. /\ \A s \in Session \ {SessionsKey} : list'[s] = list[s]
          /\ list'[SessionsKey] # NoKey => \A e \in list'[SessionsKey] : ~Mine(e)
      BY <1>1, <1>4 DEF TypeOK
    <2>2. OwnSession'
      BY <2>1 DEF SelfInv, OwnSession, Mine
    <2>3. ASSUME NEW s \in Session, list'[s] # NoKey, NEW e \in list'[s], Mine(e)
          PROVE  Suffered(s, {"ended", "outage"})'
      <3>1. s # SessionsKey /\ list'[s] = list[s]
        BY <2>1, <2>3
      <3>2. Suffered(s, {"ended", "outage"})
        BY <1>1, <2>3, <3>1 DEF SelfInv, ListedRuns
      <3>3. PICK w \in {"ended", "outage"} : <<s, w>> \in strain
        BY <3>2 DEF Suffered
      <3>4. <<s, w>> \in strain'
        BY <1>4, <3>1, <3>3
      <3>5. QED
        BY <3>4 DEF Suffered
    <2>4. QED
      BY <1>2, <2>2, <2>3 DEF ListedRuns, Mine
  <1>5. QED
    BY <1>3, <1>4 DEF CleanPut

\* A start finds no other self on the list that nothing on record explains.
LEMMA BootFindsNoSelf ==
  ASSUME TypeOK, SelfInv, NEW c \in Controller, In("bootGet", c), list[c.session] # NoKey,
         NEW e \in list[c.session], Mine(e)
  PROVE  Suffered(c.session, {"ended", "outage", "replaced"})
  <1>1. e.who \in Controller /\ e.who.session = c.session /\ c.session \in Session
    BY DEF SelfInv, OwnSession, Mine, Controller
  <1>2. CASE Suffered(c.session, {"ended", "outage"})
    BY <1>2 DEF Suffered
  <1>3. CASE e.who \in running
    <2>1. Shown(c) /\ c \notin running
      BY DEF SelfInv, StartIsShown
    <2>2. ~Shown(e.who)
      BY <1>1, <1>3, <2>1, ShownIsOne
    <2>3. Suffered(e.who.session, {"replaced"})
      BY <1>3, <2>2 DEF SelfInv, RunningIsShown
    <2>4. QED
      BY <1>1, <2>3 DEF Suffered
  <1>4. QED
    BY <1>1, <1>2, <1>3 DEF SelfInv, ListedRuns

LEMMA SelfStays ==
  ASSUME TypeOK, SelfInv, [Next]_vars
  PROVE  OwnSession' /\ ListedRuns' /\ NoSelfPeer'
  <1> USE DEF appVars, netVars
  <1>1. CASE CleanPut
    BY <1>1, CleanUpRepairs
  <1>2. CASE Ends
    BY <1>2, EndsIsOnRecord
  <1>3. CASE ~CleanPut /\ ~Ends
    <2> DEFINE Goal == OwnSession' /\ ListedRuns' /\ NoSelfPeer'
    <2>1. strain \subseteq strain'
      BY <1>3, StrainGrows
    <2>2. running \subseteq running' /\ UNCHANGED <<list, peers>> => Goal
      BY <2>1, OwnListsStay, PeersStay
    <2> HIDE DEF Goal
    <2>3. Launch \/ CleanGet => Goal
      BY <2>2 DEF Launch, CleanGet
    <2>4. ASSUME NEW s \in Session PROVE addProfile(s) \/ removeProfile(s) => Goal
      BY <2>2 DEF addProfile, removeProfile
    <2>5. ASSUME NEW c \in Controller PROVE Start(c) \/ StartRefused(c) \/ Stop(c) => Goal
      BY <2>2 DEF Start, StartRefused, Stop
    <2>6. ASSUME NEW t \in tasks PROVE Expire(t) => Goal
      BY <2>2 DEF Expire
    <2>7. ASSUME NEW c \in Controller, BootGet(c) PROVE Goal
      <3>1. UNCHANGED <<list, running>> /\ \A k \in Controller \ {c} : peers'[k] = peers[k]
        BY <1>3, <2>7 DEF BootGet, TypeOK
      <3>2. OwnSession' /\ ListedRuns'
        BY <2>1, <3>1, OwnListsStay
      <3>3. CASE peers' = peers
        BY <2>2, <3>1, <3>3
      <3>4. CASE list[c.session] # NoKey /\ peers' = [peers EXCEPT ![c] = @ \cup {e.who : e \in list[c.session]}]
        <4>1. ASSUME NEW p \in peers'[c] \cap Controller
              PROVE  Suffered(c.session, {"ended", "outage", "replaced"})
          <5>1. CASE p \in peers[c]
            BY <5>1, <4>1 DEF SelfInv, NoSelfPeer
          <5>2. ASSUME NEW e \in list[c.session], p = e.who
                PROVE  Suffered(c.session, {"ended", "outage", "replaced"})
            <6>1. Mine(e) /\ In("bootGet", c)
              BY <2>7, <4>1, <5>2 DEF Mine, BootGet
            <6>2. QED
              BY <3>4, <6>1, BootFindsNoSelf
          <5>3. p \in peers[c] \/ \E e \in list[c.session] : p = e.who
            BY <3>4, <4>1 DEF TypeOK
          <5>4. QED
            BY <5>1, <5>2, <5>3
        <4>2. ASSUME NEW k \in Controller, peers'[k] \cap Controller # {}
              PROVE  Suffered(k.session, {"ended", "outage", "replaced"})
          BY <3>1, <4>1, <4>2 DEF SelfInv, NoSelfPeer
        <4>3. NoSelfPeer'
          BY <2>1, <4>2, MarkedStays DEF NoSelfPeer
        <4>4. QED
          BY <3>2, <4>3 DEF Goal
      <3>5. QED
        BY <1>3, <2>7, <3>3, <3>4 DEF BootGet
    <2>8. ASSUME NEW c \in Controller, BootPut(c) PROVE Goal
      <3>1. UNCHANGED peers /\ running \subseteq running'
        BY <2>8 DEF BootPut
      <3>2. CASE list' = list
        BY <2>2, <3>1, <3>2
      <3>3. CASE list' = [list EXCEPT ![c.session] =
                            (IF held = NoKey THEN {} ELSE held) \cup {[who |-> c, start |-> starts]}]
        <4> DEFINE s == c.session
        <4>1. s \in Session /\ (held = list[s] \/ held = NoKey)
          BY <2>8 DEF BootPut, SelfInv, ListInv, HeldIsList, Controller
        <4>2. \A e \in list'[s] : e.who = c \/ (list[s] # NoKey /\ e \in list[s])
          BY <3>3, <4>1 DEF TypeOK
        <4>3. \A u \in Session \ {s} : list'[u] = list[u]
          BY <3>3 DEF TypeOK
        <4>4. c \in running' \/ <<s, "outage">> \in strain'
          BY <2>8, <3>3 DEF BootPut, Mark, Marks
        <4>5. ASSUME NEW u \in Session, list'[u] # NoKey, NEW e \in list'[u], Mine(e)
              PROVE  /\ e.who.session = u
                     /\ e.who \in running' \/ Suffered(u, {"ended", "outage"})'
          <5>1. CASE list[u] # NoKey /\ e \in list[u]
            BY <2>1, <3>1, <4>5, <5>1, MarkedStays DEF SelfInv, OwnSession, ListedRuns
          <5>2. CASE u = s /\ e.who = c
            BY <4>4, <5>2 DEF Suffered
          <5>3. QED
            BY <4>2, <4>3, <4>5, <5>1, <5>2
        <4>6. OwnSession' /\ ListedRuns'
          BY <4>5 DEF OwnSession, ListedRuns, Mine
        <4>7. NoSelfPeer'
          BY <2>1, <3>1, PeersStay
        <4>8. QED
          BY <4>6, <4>7 DEF Goal
      <3>4. QED
        BY <2>8, <3>2, <3>3 DEF BootPut
    <2>9. ASSUME NEW c \in Controller, StopGet(c) PROVE Goal
      <3>1. UNCHANGED <<list, peers>>
        BY <2>9 DEF StopGet
      <3>2. CASE running' = running
        BY <2>2, <3>1, <3>2
      <3>3. CASE running' = running \ {c} /\ (list[c.session] = NoKey \/ <<c.session, "outage">> \in strain')
        <4>1. ASSUME NEW u \in Session, list[u] # NoKey, NEW e \in list[u], Mine(e)
              PROVE  e.who \in running' \/ Suffered(u, {"ended", "outage"})'
          <5>1. e.who.session = u /\ (e.who \in running \/ Suffered(u, {"ended", "outage"})')
            BY <2>1, <4>1, MarkedStays DEF SelfInv, OwnSession, ListedRuns
          <5>2. e.who = c => Suffered(u, {"ended", "outage"})'
            BY <3>3, <4>1, <5>1 DEF Suffered
          <5>3. QED
            BY <3>3, <5>1, <5>2
        <4>2. OwnSession' /\ ListedRuns'
          BY <3>1, <4>1 DEF SelfInv, OwnSession, ListedRuns, Mine
        <4>3. NoSelfPeer'
          BY <2>1, <3>1, PeersStay
        <4>4. QED
          BY <4>2, <4>3 DEF Goal
      <3>4. \/ running' = running
            \/ running' = running \ {c} /\ MarkIf(list[c.session] # NoKey, c.session, "outage")
        BY <2>9 DEF StopGet
      <3>5. MarkIf(list[c.session] # NoKey, c.session, "outage") =>
              list[c.session] = NoKey \/ <<c.session, "outage">> \in strain'
        BY DEF MarkIf, Mark, Marks
      <3>6. QED
        BY <3>2, <3>3, <3>4, <3>5
    <2>10. ASSUME NEW c \in Controller, StopPut(c) PROVE Goal
      <3> DEFINE s == c.session
      <3>1. running' = running \ {c} /\ s \in Session /\ held = list[s] /\ held \in SUBSET Entry
        BY <2>10 DEF StopPut, SelfInv, ListInv, HeldIsList, Controller, TypeOK
      <3>2. \A k \in Controller : peers'[k] \subseteq peers[k]
        BY <2>10 DEF StopPut, TypeOK
      <3>3. /\ \A u \in Session \ {s} : list'[u] = list[u]
            /\ list'[s] = list[s] \/ list'[s] = StopWrites(c, list[s])
            /\ list'[s] = StopWrites(c, list[s]) \/ <<s, "outage">> \in strain'
        <4>1. \/ list' = [list EXCEPT ![s] = StopWrites(c, held)]
              \/ list' = list /\ Mark(s, "outage")
          BY <2>10 DEF StopPut, StopWrites, MarkIf
        <4>2. Mark(s, "outage") => <<s, "outage">> \in strain'
          BY DEF Mark, Marks
        <4> HIDE DEF s
        <4>3. QED
          BY <3>1, <4>1, <4>2 DEF TypeOK
      <3>4. ASSUME NEW u \in Session, list'[u] # NoKey, NEW e \in list'[u], Mine(e)
            PROVE  /\ e.who.session = u
                   /\ e.who \in running' \/ Suffered(u, {"ended", "outage"})'
        <4>1. e \in list[u] /\ list[u] # NoKey
          BY <3>1, <3>3, <3>4 DEF StopWrites, Without
        <4>2. e.who.session = u /\ (e.who \in running \/ Suffered(u, {"ended", "outage"})')
          BY <2>1, <3>4, <4>1, MarkedStays DEF SelfInv, OwnSession, ListedRuns
        <4>3. e.who = c => Suffered(u, {"ended", "outage"})'
          BY <3>1, <3>3, <3>4, <4>2 DEF StopWrites, Without, Suffered
        <4>4. QED
          BY <3>1, <4>2, <4>3
      <3>5. OwnSession' /\ ListedRuns'
        BY <3>4 DEF OwnSession, ListedRuns, Mine
      <3>6. NoSelfPeer'
        BY <2>1, <3>2, PeersStay
      <3>7. QED
        BY <3>5, <3>6 DEF Goal
    <2>11. ASSUME NEW d \in Other, NEW s \in Session, Join(d, s) \/ Leave(d, s) PROVE Goal
      <3>1. UNCHANGED <<running, peers>> /\ \A u \in Session \ {s} : list'[u] = list[u]
        BY <2>11 DEF Join, Leave, TypeOK
      <3>2. list'[s] # NoKey => \A e \in list'[s] : e.who = d \/ (list[s] # NoKey /\ e \in list[s])
        BY <2>11 DEF Join, Leave, TypeOK, StopWrites, Without
      <3>3. \A e : e.who = d => ~Mine(e)
        BY DEF Mine
      <3>4. OwnSession' /\ ListedRuns'
        BY <2>1, <3>1, <3>2, <3>3, OwnListsStay
      <3>5. NoSelfPeer'
        BY <2>1, <3>1, PeersStay
      <3>6. QED
        BY <3>4, <3>5 DEF Goal
    <2>12. ASSUME NEW m \in inbox, HandleHello(m) \/ HandleGoodbye(m) PROVE Goal
      <3>1. UNCHANGED <<list, running>> /\ m.from \in Other
        BY <2>12 DEF HandleHello, HandleGoodbye, TypeOK, Message
      <3>2. \A c \in Controller : peers'[c] \cap Controller \subseteq peers[c]
        BY <2>12, <3>1 DEF HandleHello, HandleGoodbye, TypeOK
      <3>3. QED
        BY <2>1, <3>1, <3>2, OwnListsStay, PeersStay DEF Goal
    <2>13. UNCHANGED vars => Goal
      BY <2>2 DEF vars
    <2>14. Goal
      BY <1>3, <2>3, <2>4, <2>5, <2>6, <2>7, <2>8, <2>9, <2>10, <2>11, <2>12, <2>13 DEF Next, Die
    <2>15. QED
      BY <2>14 DEF Goal
  <1>4. QED
    BY <1>1, <1>2, <1>3

LEMMA SelfInvariant == Spec => []SelfInv
  <1>1. Init => SelfInv
    BY DEF Init, SelfInv, ListInv, Fresh, HeldIsList, RunningStands, StoppingRuns, OthersStayListed,
           OwnSession, ListedRuns, StartIsShown, RunningIsShown, NoSelfPeer, In, Rest, Cleans
  <1>2. ASSUME TypeOK, SelfInv, [Next]_vars PROVE SelfInv'
    <2>1. ListInv'
      BY <1>2, FreshStays, HeldStays, StoppingStays, StandingKept DEF SelfInv, ListInv
    <2>2. QED
      BY <1>2, <2>1, ShownStays, SelfStays DEF SelfInv
  <1>3. QED
    BY <1>1, <1>2, TypeCorrect, PTL DEF Spec

\* The device stands on the lists for its running controllers only, and a running
\* one has no other self of the device for a peer, except where a process ended,
\* the server was out of reach or a profile was replaced.
THEOREM NoSelfToHear == Spec => []NoOtherSelf
  <1>1. TypeOK /\ SelfInv => NoOtherSelf
    BY DEF TypeOK, SelfInv, ListedRuns, NoSelfPeer, NoOtherSelf
  <1>2. QED
    BY <1>1, SelfInvariant, TypeCorrect, PTL

=============================================================================
