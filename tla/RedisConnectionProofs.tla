----------------------- MODULE RedisConnectionProofs ------------------------
(***************************************************************************)
(* Proofs about RedisConnection, for any number of connections and any     *)
(* faults: type correctness, that a PUBLISH keeps the promises of          *)
(* AsyncCall, that what is in an output buffer has its write scheduled,    *)
(* that unsubscribeAll forgets no listener, and that no connection faults  *)
(* without a cause.                                                        *)
(***************************************************************************)
EXTENDS RedisConnection, SequenceTheorems, TLAPS

USE DEF connectAndDispatch

-----------------------------------------------------------------------------

(***************************************************************************)
(* Type correctness.                                                       *)
(***************************************************************************)

\* Strengthening of the type invariant: unsubscribeAll is at an entry of the table.
Pointed == upc.i > 0 /\ (upc.at = "schedule" => upc.i <= Len(table))

LEMMA TypeInit == Init => TypeOK /\ Pointed
  <1> SUFFICES ASSUME Init PROVE TypeOK /\ Pointed
    OBVIOUS
  <1>1. \A S : <<>> \in Seq(S)
    OBVIOUS
  <1>2. upc \in [at : {"idle", "append", "schedule", "clear"}, i : Nat] /\ upc.i > 0 /\ upc.at = "idle"
    BY DEF Init
  <1>3. QED
    BY <1>1, <1>2 DEF Init, TypeOK, Pointed, Source, Fault

\* The hooks keep the types of what they set.
LEMMA HookTypes ==
  ASSUME TypeOK, NEW c \in Conn
  PROVE  /\ AddRead(c) => isReading' \in [Conn -> BOOLEAN] /\ readSrc' \in [Conn -> Source]
         /\ AddWrite(c) => isWriting' \in [Conn -> BOOLEAN] /\ writeSrc' \in [Conn -> Source]
  <1>1. /\ isReading \in [Conn -> BOOLEAN] /\ readSrc \in [Conn -> Source]
        /\ isWriting \in [Conn -> BOOLEAN] /\ writeSrc \in [Conn -> Source]
        /\ TRUE \in BOOLEAN /\ "active" \in Source
    BY DEF TypeOK, Source
  <1>2. AddRead(c) => isReading' \in [Conn -> BOOLEAN]
    BY <1>1 DEF AddRead
  <1>3. AddRead(c) => readSrc' \in [Conn -> Source]
    BY <1>1 DEF AddRead
  <1>4. AddWrite(c) => isWriting' \in [Conn -> BOOLEAN]
    BY <1>1 DEF AddWrite
  <1>5. AddWrite(c) => writeSrc' \in [Conn -> Source]
    BY <1>1 DEF AddWrite
  <1>6. QED
    BY <1>2, <1>3, <1>4, <1>5

LEMMA StrainedTypes ==
  ASSUME TypeOK, NEW c \in Conn, NEW s \in Strain, UNCHANGED strain \/ Strained(c, s)
  PROVE  strain' \in [Conn -> SUBSET Strain]
  <1>1. strain \in [Conn -> SUBSET Strain]
    BY DEF TypeOK
  <1>2. strain' = strain \/ strain' = [strain EXCEPT ![c] = strain[c] \cup {s}]
    BY DEF Strained
  <1>3. QED
    BY ONLY <1>1, <1>2, c \in Conn, s \in Strain

LEMMA FailsTypes ==
  ASSUME TypeOK, Pointed, NEW c \in Conn, NEW f \in Fault, Fails(c, f),
         strain' \in [Conn -> SUBSET Strain]
  PROVE  TypeOK' /\ Pointed'
  BY DEF TypeOK, Pointed, Fails, contextVars, sourceVars, handlerVars, callerVars, serverVars

\* Closing: what the callbacks are called with.
LEMMA AbandonTypes ==
  ASSUME TypeOK, NEW c \in Conn, NEW f \in SUBSET Flag, Abandon(c, f)
  PROVE  /\ flags' \in [Conn -> SUBSET Flag] /\ replies' \in [Conn -> Nat]
         /\ channel' \in [Conn -> BOOLEAN] /\ answers' \in [Conn -> Seq(Reply \cup {"null"})]
         /\ UNCHANGED <<kind, life, obuf>>
  <1>1. replies[c] \in Nat /\ answers[c] \in Seq(Reply \cup {"null"})
    BY DEF TypeOK
  <1>2. [i \in 1..replies[c] |-> "null"] \in Seq(Reply \cup {"null"})
    BY <1>1
  <1>3. answers[c] \o [i \in 1..replies[c] |-> "null"] \in Seq(Reply \cup {"null"})
    BY <1>1, <1>2
  <1>4. answers' = [answers EXCEPT ![c] = answers[c] \o [i \in 1..replies[c] |-> "null"]]
    BY DEF Abandon
  <1>5. answers' \in [Conn -> Seq(Reply \cup {"null"})]
    <2>1. answers \in [Conn -> Seq(Reply \cup {"null"})]
      BY DEF TypeOK
    <2>2. QED
      BY <1>3, <1>4, <2>1
  <1>6. QED
    BY <1>5 DEF TypeOK, Abandon, Raise

LEMMA TearTypes ==
  ASSUME TypeOK, Pointed, NEW c \in Conn, NEW f \in SUBSET Flag, TearByRead(c, f) \/ TearByWrite(c, f),
         strain' \in [Conn -> SUBSET Strain]
  PROVE  TypeOK' /\ Pointed'
  <1>1. CASE Fails(c, "overResume")
    BY <1>1, FailsTypes DEF Fault
  <1>2. CASE TearByRead(c, f) /\ ~Fails(c, "overResume")
    <2>1. /\ Abandon(c, f) /\ AddWrite(c)
          /\ rpc' = [rpc EXCEPT ![c] = "tearing"] /\ readSrc' = [readSrc EXCEPT ![c] = "cancelled"]
          /\ UNCHANGED <<rbuf, isReading, wpc, handed, callerVars, serverVars, fault>>
      BY <1>2 DEF TearByRead
    <2>2. /\ rpc' \in [Conn -> {"idle", "processing", "tearing"}] /\ readSrc' \in [Conn -> Source]
      BY <2>1 DEF TypeOK, Source
    <2>3. /\ flags' \in [Conn -> SUBSET Flag] /\ replies' \in [Conn -> Nat]
          /\ channel' \in [Conn -> BOOLEAN] /\ answers' \in [Conn -> Seq(Reply \cup {"null"})]
          /\ UNCHANGED <<kind, life, obuf>>
      BY <2>1, AbandonTypes
    <2>4. isWriting' \in [Conn -> BOOLEAN] /\ writeSrc' \in [Conn -> Source]
      BY <2>1, HookTypes
    <2>5. UNCHANGED <<rbuf, isReading, wpc, handed, table, upc, sock, toServer, inbound, heard, executed, fault>>
      BY <2>1 DEF callerVars, serverVars
    <2>6. QED
      BY <2>2, <2>3, <2>4, <2>5 DEF TypeOK, Pointed
  <1>3. CASE TearByWrite(c, f)
    <2>1. /\ Abandon(c, f) /\ AddRead(c) /\ wpc' = [wpc EXCEPT ![c] = "tearing"]
          /\ UNCHANGED <<rbuf, isWriting, writeSrc, rpc, handed, callerVars, serverVars, fault>>
      BY <1>3 DEF TearByWrite
    <2>2. wpc' \in [Conn -> {"idle", "writing", "done", "unflagged", "tearing"}]
      BY <2>1 DEF TypeOK
    <2>3. /\ flags' \in [Conn -> SUBSET Flag] /\ replies' \in [Conn -> Nat]
          /\ channel' \in [Conn -> BOOLEAN] /\ answers' \in [Conn -> Seq(Reply \cup {"null"})]
          /\ UNCHANGED <<kind, life, obuf>>
      BY <2>1, AbandonTypes
    <2>4. isReading' \in [Conn -> BOOLEAN] /\ readSrc' \in [Conn -> Source]
      BY <2>1, HookTypes
    <2>5. UNCHANGED <<rbuf, isWriting, writeSrc, rpc, handed, table, upc, sock, toServer, inbound, heard, executed, fault>>
      BY <2>1 DEF callerVars, serverVars
    <2>6. QED
      BY <2>2, <2>3, <2>4, <2>5 DEF TypeOK, Pointed
  <1>4. QED
    BY <1>1, <1>2, <1>3

LEMMA TypeCaller ==
  ASSUME TypeOK, Pointed, Caller
  PROVE  TypeOK' /\ Pointed'
  <1> USE DEF contextVars, sourceVars, handlerVars, callerVars, serverVars, historyVars
  <1>1. /\ upc \in [at : {"idle", "append", "schedule", "clear"}, i : Nat]
        /\ table \in Seq(Conn) /\ Len(table) \in Nat /\ upc.i \in Nat /\ upc.i > 0
    BY DEF TypeOK, Pointed
  <1>2. ASSUME UNCHANGED <<contextVars, sourceVars, handlerVars, serverVars, historyVars>>,
               table' \in Seq(Conn), upc' \in [at : {"idle", "append", "schedule", "clear"}, i : Nat],
               Pointed'
        PROVE  TypeOK' /\ Pointed'
    BY <1>2 DEF TypeOK
  <1>3. ASSUME UnsubscribeAll \/ UnsubscribeEnds \/ UnsubscribeClear PROVE TypeOK' /\ Pointed'
    <2>1. \/ upc' = [at |-> "append", i |-> 1] \/ upc' = [at |-> "clear", i |-> upc.i]
          \/ upc' = [at |-> "idle", i |-> 1]
      BY <1>1, <1>3 DEF UnsubscribeAll, UnsubscribeEnds, UnsubscribeClear
    <2>2. upc' \in [at : {"idle", "append", "schedule", "clear"}, i : Nat] /\ Pointed'
      <3>1. upc'.at \in {"idle", "append", "clear"} /\ upc'.i \in {1, upc.i}
        BY <2>1
      <3>2. upc' \in [at : {"idle", "append", "schedule", "clear"}, i : Nat]
        BY <1>1, <2>1
      <3>3. upc'.at # "schedule" /\ upc'.i > 0
        BY <1>1, <3>1
      <3>4. QED
        BY <3>2, <3>3 DEF Pointed
    <2>3. table' \in Seq(Conn)
      <3>1. table' = table \/ table' = <<>>
        BY <1>3 DEF UnsubscribeAll, UnsubscribeEnds, UnsubscribeClear
      <3>2. table \in Seq(Conn) /\ <<>> \in Seq(Conn)
        BY <1>1
      <3>3. QED
        BY ONLY <3>1, <3>2
    <2>4. QED
      BY <1>2, <1>3, <2>2, <2>3 DEF UnsubscribeAll, UnsubscribeEnds, UnsubscribeClear
  <1>4. ASSUME UnsubscribeAppend PROVE TypeOK' /\ Pointed'
    <2>1. PICK c : c = table[upc.i]
      OBVIOUS
    <2>2. c \in Conn /\ upc.at = "append" /\ upc.i <= Len(table)
      BY <1>1, <1>4, <2>1 DEF UnsubscribeAppend
    <2>3. strain' \in [Conn -> SUBSET Strain]
      BY <1>4, <2>1, <2>2, StrainedTypes DEF UnsubscribeAppend, StrainedIf, Strain
    <2>4. CASE Fails(c, "staleEntry")
      BY <2>2, <2>3, <2>4, FailsTypes DEF Fault
    <2>5. CASE upc' = [upc EXCEPT !.i = @ + 1] /\ UNCHANGED <<contextVars, sourceVars, handlerVars, table, serverVars, historyVars>>
      <3>1. upc' = [at |-> "append", i |-> upc.i + 1]
        BY <1>1, <2>2, <2>5
      <3>2. QED
        BY <1>1, <1>2, <2>5, <3>1 DEF Pointed
    <2>6. CASE /\ obuf' = [obuf EXCEPT ![c] = Append(obuf[c], "UNSUBSCRIBE")]
               /\ upc' = [upc EXCEPT !.at = "schedule"]
               /\ UNCHANGED <<kind, life, flags, replies, channel, rbuf, sourceVars, handlerVars,
                              table, serverVars, answers, fault>>
      <3>1. upc' = [at |-> "schedule", i |-> upc.i]
        BY <1>1, <2>6
      <3>2. Append(obuf[c], "UNSUBSCRIBE") \in Seq(Command)
        BY <2>2 DEF TypeOK, Command
      <3>3. obuf' \in [Conn -> Seq(Command)]
        BY <2>6, <3>2 DEF TypeOK
      <3>4. Pointed' /\ upc' \in [at : {"idle", "append", "schedule", "clear"}, i : Nat]
        BY <1>1, <2>2, <2>6, <3>1 DEF Pointed
      <3>5. QED
        BY <2>3, <2>6, <3>3, <3>4 DEF TypeOK
    <2>7. QED
      BY <1>4, <2>1, <2>4, <2>5, <2>6 DEF UnsubscribeAppend
  <1>5. ASSUME UnsubscribeSchedule PROVE TypeOK' /\ Pointed'
    <2>1. PICK c : c = table[upc.i]
      OBVIOUS
    <2>2. c \in Conn /\ upc.at = "schedule" /\ upc.i <= Len(table)
      BY <1>1, <1>5, <2>1 DEF UnsubscribeSchedule, Pointed
    <2>3. strain' \in [Conn -> SUBSET Strain]
      BY <1>5, <2>1, <2>2, StrainedTypes DEF UnsubscribeSchedule, StrainedIf, Strain
    <2>4. CASE Fails(c, "useAfterFree") \/ Fails(c, "overResume")
      BY <2>2, <2>3, <2>4, FailsTypes DEF Fault
    <2>5. CASE /\ AddWrite(c) /\ upc' = [at |-> "append", i |-> upc.i + 1]
               /\ UNCHANGED <<contextVars, isReading, readSrc, handlerVars, table, serverVars,
                              answers, fault>>
      <3>1. Pointed' /\ upc' \in [at : {"idle", "append", "schedule", "clear"}, i : Nat]
        BY <1>1, <2>5 DEF Pointed
      <3>2. isWriting' \in [Conn -> BOOLEAN] /\ writeSrc' \in [Conn -> Source]
        BY <2>2, <2>5, HookTypes
      <3>3. QED
        BY <2>3, <2>5, <3>1, <3>2 DEF TypeOK
    <2>6. QED
      BY <1>5, <2>1, <2>4, <2>5 DEF UnsubscribeSchedule
  <1>6. QED
    BY <1>3, <1>4, <1>5 DEF Caller

LEMMA TypeOpen ==
  ASSUME TypeOK, Pointed, NEW c \in Conn, Publish(c) \/ Subscribe(c)
  PROVE  TypeOK' /\ Pointed'
  <1>1. PICK cmd \in {"PUBLISH", "SUBSCRIBE"}, k \in {"publish", "subscribe"} : Open(c, k, cmd)
    BY DEF Publish, Subscribe
  <1>2. <<cmd>> \in Seq(Command)
    BY DEF Command
  <1>3. /\ life' \in [Conn -> {"none", "live", "freed"}] /\ kind' \in [Conn -> {"none", "publish", "subscribe"}]
        /\ sock' \in [Conn -> {"none", "connecting", "open", "refused", "closed"}]
        /\ readSrc' \in [Conn -> Source] /\ isWriting' \in [Conn -> BOOLEAN] /\ writeSrc' \in [Conn -> Source]
    BY <1>1 DEF Open, TypeOK, Source
  <1>4. obuf' \in [Conn -> Seq(Command)]
    BY <1>1, <1>2 DEF Open, TypeOK
  <1>5. /\ flags' \in [Conn -> SUBSET Flag] /\ channel' \in [Conn -> BOOLEAN]
        /\ replies' \in [Conn -> Nat]
    <2>1. /\ flags' = flags \/ flags' = [flags EXCEPT ![c] = flags[c] \cup {"subscribed"}]
          /\ channel' = channel \/ channel' = [channel EXCEPT ![c] = TRUE]
          /\ replies' = replies \/ replies' = [replies EXCEPT ![c] = 1]
      BY DEF Publish, Subscribe, Raise
    <2>2. /\ flags \in [Conn -> SUBSET Flag] /\ channel \in [Conn -> BOOLEAN]
          /\ replies \in [Conn -> Nat] /\ "subscribed" \in Flag
      BY DEF TypeOK, Flag
    <2>3. flags' \in [Conn -> SUBSET Flag]
      BY ONLY <2>1, <2>2, c \in Conn
    <2>4. channel' \in [Conn -> BOOLEAN]
      BY ONLY <2>1, <2>2, c \in Conn
    <2>5. replies' \in [Conn -> Nat]
      BY ONLY <2>1, <2>2, c \in Conn
    <2>6. QED
      BY <2>3, <2>4, <2>5
  <1>6. strain' \in [Conn -> SUBSET Strain]
    BY StrainedTypes DEF Publish, Subscribe, StrainedIf, Strain
  <1>7. table' \in Seq(Conn) /\ Len(table') \in Nat /\ Len(table') >= Len(table)
    <2>1. table' = table \/ table' = Append(table, c)
      BY DEF Publish, Subscribe
    <2>2. table \in Seq(Conn)
      BY DEF TypeOK
    <2>3. QED
      BY <2>1, <2>2
  <1>8. Pointed'
    <2>1. upc' = upc /\ upc.i \in Nat /\ Len(table) \in Nat
      BY <1>1 DEF Open, TypeOK
    <2>2. QED
      BY <1>7, <2>1 DEF Pointed
  <1>9. QED
    BY <1>1, <1>3, <1>4, <1>5, <1>6, <1>7, <1>8 DEF Open, TypeOK, handlerVars

LEMMA TypeRelease ==
  ASSUME TypeOK, Pointed, NEW c \in Conn, ReleaseByRead(c) \/ ReleaseByWrite(c)
  PROVE  TypeOK' /\ Pointed'
  <1>1. PICK other, src : Release(c, other, src) /\ UNCHANGED strain
    BY DEF ReleaseByRead, ReleaseByWrite
  <1>2. strain' \in [Conn -> SUBSET Strain]
    BY <1>1 DEF TypeOK
  <1>3. CASE Fails(c, "useAfterFree") \/ Fails(c, "releasedSuspended")
    BY <1>2, <1>3, FailsTypes DEF Fault
  <1>4. CASE life' = [life EXCEPT ![c] = "freed"] /\ ~Fails(c, "useAfterFree") /\ ~Fails(c, "releasedSuspended")
    <2>1. <<>> \in Seq(Command) /\ <<>> \in Seq(Reply)
      OBVIOUS
    <2>2. /\ flags' = [flags EXCEPT ![c] = {}]
          /\ obuf' = [obuf EXCEPT ![c] = <<>>] /\ rbuf' = [rbuf EXCEPT ![c] = <<>>]
          /\ isReading' = [isReading EXCEPT ![c] = FALSE] /\ isWriting' = [isWriting EXCEPT ![c] = FALSE]
          /\ readSrc' = [readSrc EXCEPT ![c] = "cancelled"]
          /\ writeSrc' = [writeSrc EXCEPT ![c] = "cancelled"]
          /\ rpc' = [rpc EXCEPT ![c] = "idle"] /\ wpc' = [wpc EXCEPT ![c] = "idle"]
          /\ sock' = [sock EXCEPT ![c] = "closed"] /\ inbound' = [inbound EXCEPT ![c] = <<>>]
          /\ heard' = heard \ {c}
          /\ UNCHANGED <<kind, replies, channel, handed, callerVars, toServer, executed, answers, fault>>
      BY <1>1, <1>4 DEF Release
    <2>3. /\ obuf' \in [Conn -> Seq(Command)] /\ rbuf' \in [Conn -> Seq(Reply)]
          /\ inbound' \in [Conn -> Seq(Reply)]
      BY <2>1, <2>2 DEF TypeOK
    <2>4. /\ flags' \in [Conn -> SUBSET Flag] /\ readSrc' \in [Conn -> Source]
          /\ writeSrc' \in [Conn -> Source] /\ life' \in [Conn -> {"none", "live", "freed"}]
          /\ sock' \in [Conn -> {"none", "connecting", "open", "refused", "closed"}]
      BY <1>4, <2>2 DEF TypeOK, Source
    <2>5. /\ isReading' \in [Conn -> BOOLEAN] /\ isWriting' \in [Conn -> BOOLEAN]
          /\ rpc' \in [Conn -> {"idle", "processing", "tearing"}]
          /\ wpc' \in [Conn -> {"idle", "writing", "done", "unflagged", "tearing"}]
          /\ heard' \subseteq Conn
      BY <2>2 DEF TypeOK
    <2>6. QED
      BY <1>2, <2>2, <2>3, <2>4, <2>5 DEF TypeOK, Pointed, callerVars
  <1>5. QED
    BY <1>1, <1>3, <1>4 DEF Release

LEMMA TypeWrite ==
  ASSUME TypeOK, Pointed, NEW c \in Conn, WriteHandler(c)
  PROVE  TypeOK' /\ Pointed'
  <1>1. CASE WriteFails(c)
    <2>1. strain' \in [Conn -> SUBSET Strain]
      BY <1>1, StrainedTypes DEF WriteFails, StrainedIf, Strain
    <2>2. QED
      BY <1>1, <2>1, TearTypes DEF WriteFails, Flag
  <1>2. CASE WriteOut(c)
    <2>1. strain' \in [Conn -> SUBSET Strain]
      BY <1>2, StrainedTypes DEF WriteOut, StrainedIf, Strain
    <2>2. flags' \in [Conn -> SUBSET Flag]
      BY <1>2 DEF WriteOut, Raise, TypeOK, Flag
    <2>3. wpc' \in [Conn -> {"idle", "writing", "done", "unflagged", "tearing"}]
      BY <1>2 DEF WriteOut, TypeOK
    <2>4. handed' \in [Conn -> Nat] /\ toServer' \in [Conn -> Seq(Command)]
      <3>1. /\ handed' = handed \/ handed' = [handed EXCEPT ![c] = Len(obuf[c])]
            /\ toServer' = toServer \/ toServer' = [toServer EXCEPT ![c] = toServer[c] \o obuf[c]]
        BY <1>2 DEF WriteOut
      <3>2. Len(obuf[c]) \in Nat /\ toServer[c] \o obuf[c] \in Seq(Command)
        BY DEF TypeOK
      <3>3. handed \in [Conn -> Nat] /\ toServer \in [Conn -> Seq(Command)]
        BY DEF TypeOK
      <3>4. QED
        BY <3>1, <3>2, <3>3
    <2>5. QED
      BY <1>2, <2>1, <2>2, <2>3, <2>4 DEF WriteOut, TypeOK, Pointed, sourceVars, callerVars
  <1>3. CASE WriteTrim(c)
    <2>1. PICK rest \in {Rest(c), <<>>} :
            /\ obuf' = [obuf EXCEPT ![c] = rest]
            /\ \/ wpc' = [wpc EXCEPT ![c] = "done"] /\ UNCHANGED sourceVars
               \/ wpc' = [wpc EXCEPT ![c] = "idle"] /\ AddWrite(c) /\ AddRead(c)
      BY <1>3 DEF WriteTrim
    <2>2. rest \in Seq(Command)
      <3>1. /\ obuf[c] \in Seq(Command) /\ handed[c] + 1 \in Int /\ Len(obuf[c]) \in Int
            /\ \A i \in handed[c] + 1..Len(obuf[c]) : obuf[c][i] \in Command
        BY DEF TypeOK
      <3>2. Rest(c) \in Seq(Command)
        BY <3>1, SubSeqProperties DEF Rest
      <3>3. <<>> \in Seq(Command)
        OBVIOUS
      <3>4. QED
        BY <3>2, <3>3
    <2>3. obuf' \in [Conn -> Seq(Command)]
      BY <2>1, <2>2 DEF TypeOK
    <2>4. /\ isReading' \in [Conn -> BOOLEAN] /\ readSrc' \in [Conn -> Source]
          /\ isWriting' \in [Conn -> BOOLEAN] /\ writeSrc' \in [Conn -> Source]
      BY <2>1, HookTypes DEF TypeOK, sourceVars
    <2>5. /\ wpc' \in [Conn -> {"idle", "writing", "done", "unflagged", "tearing"}]
          /\ handed' \in [Conn -> Nat]
      BY <1>3, <2>1 DEF WriteTrim, TypeOK
    <2>6. QED
      BY <1>3, <2>3, <2>4, <2>5 DEF WriteTrim, TypeOK, Pointed, callerVars, serverVars, historyVars
  <1>4. CASE WriteUnflag(c)
    BY <1>4 DEF WriteUnflag, TypeOK, Pointed, contextVars, callerVars, serverVars, historyVars
  <1>5. CASE WriteSuspend(c)
    <2>1. writeSrc' \in [Conn -> Source] /\ wpc' \in [Conn -> {"idle", "writing", "done", "unflagged", "tearing"}]
      BY <1>5 DEF WriteSuspend, TypeOK, Source
    <2>2. isReading' \in [Conn -> BOOLEAN] /\ readSrc' \in [Conn -> Source]
      BY <1>5, HookTypes DEF WriteSuspend
    <2>3. QED
      BY <1>5, <2>1, <2>2 DEF WriteSuspend, TypeOK, Pointed, contextVars, callerVars, serverVars, historyVars
  <1>6. QED
    BY <1>1, <1>2, <1>3, <1>4, <1>5, TypeRelease DEF WriteHandler

LEMMA TypeRead ==
  ASSUME TypeOK, Pointed, NEW c \in Conn, ReadHandler(c)
  PROVE  TypeOK' /\ Pointed'
  <1> USE DEF sourceVars, handlerVars, callerVars, serverVars
  <1>1. CASE ReadFails(c)
    <2>1. strain' \in [Conn -> SUBSET Strain]
      BY <1>1, StrainedTypes DEF ReadFails, StrainedIf, Strain
    <2>2. QED
      BY <1>1, <2>1, TearTypes DEF ReadFails, Flag
  <1>2. CASE ReadIn(c)
    <2>1. strain' \in [Conn -> SUBSET Strain]
      BY <1>2, StrainedTypes DEF ReadIn, StrainedIf, Strain
    <2>2. PICK k \in 1..Len(inbound[c]) :
            /\ rbuf' = [rbuf EXCEPT ![c] = rbuf[c] \o SubSeq(inbound[c], 1, k)]
            /\ inbound' = [inbound EXCEPT ![c] = SubSeq(inbound[c], k + 1, Len(inbound[c]))]
      BY <1>2 DEF ReadIn
    <2>3. SubSeq(inbound[c], 1, k) \in Seq(Reply) /\ SubSeq(inbound[c], k + 1, Len(inbound[c])) \in Seq(Reply)
      <3>1. /\ 1 \in Int /\ k \in Int /\ k + 1 \in Int /\ Len(inbound[c]) \in Int
            /\ \A i \in 1..k : inbound[c][i] \in Reply
            /\ \A i \in k + 1..Len(inbound[c]) : inbound[c][i] \in Reply
        BY DEF TypeOK
      <3>2. QED
        BY <3>1, SubSeqProperties
    <2>4. rbuf[c] \o SubSeq(inbound[c], 1, k) \in Seq(Reply)
      BY <2>3 DEF TypeOK
    <2>5. rbuf' \in [Conn -> Seq(Reply)] /\ inbound' \in [Conn -> Seq(Reply)]
      BY <2>2, <2>3, <2>4 DEF TypeOK
    <2>6. isReading' \in [Conn -> BOOLEAN] /\ readSrc' \in [Conn -> Source]
      BY <1>2, HookTypes DEF ReadIn
    <2>7. flags' \in [Conn -> SUBSET Flag] /\ rpc' \in [Conn -> {"idle", "processing", "tearing"}]
      BY <1>2 DEF ReadIn, Raise, TypeOK, Flag
    <2>8. QED
      BY <1>2, <2>1, <2>5, <2>6, <2>7 DEF ReadIn, TypeOK, Pointed
  <1>3. CASE ProcessRegular(c)
    <2>1. Head(rbuf[c]) \in Reply /\ Tail(rbuf[c]) \in Seq(Reply)
      BY <1>3 DEF ProcessRegular, TypeOK
    <2>2. replies[c] - 1 \in Nat /\ Append(answers[c], Head(rbuf[c])) \in Seq(Reply \cup {"null"})
      BY <1>3, <2>1 DEF ProcessRegular, TypeOK
    <2>3. replies' \in [Conn -> Nat]
      BY <1>3, <2>2 DEF ProcessRegular, TypeOK
    <2>4. answers' \in [Conn -> Seq(Reply \cup {"null"})]
      BY <1>3, <2>2 DEF ProcessRegular, TypeOK
    <2>5. rbuf' \in [Conn -> Seq(Reply)]
      BY <1>3, <2>1 DEF ProcessRegular, TypeOK
    <2>6. flags' \in [Conn -> SUBSET Flag]
      BY <1>3 DEF ProcessRegular, Raise, TypeOK, Flag
    <2>7. QED
      BY <1>3, <2>3, <2>4, <2>5, <2>6 DEF ProcessRegular, TypeOK, Pointed
  <1>4. CASE ProcessError(c) \/ Disconnect(c)
    <2>1. strain' \in [Conn -> SUBSET Strain]
      BY <1>4 DEF ProcessError, Disconnect, TypeOK
    <2>2. CASE Fails(c, "assertion")
      BY <2>1, <2>2, FailsTypes DEF Fault
    <2>3. CASE ~Fails(c, "assertion")
      BY <1>4, <2>1, <2>3, TearTypes DEF ProcessError, Disconnect, Flag
    <2>4. QED
      BY <2>2, <2>3
  <1>5. CASE ProcessSubscriber(c)
    <2>1. strain' \in [Conn -> SUBSET Strain]
      BY <1>5 DEF ProcessSubscriber, TypeOK
    <2>2. CASE Fails(c, "assertion") \/ Fails(c, "useAfterFree")
      BY <2>1, <2>2, FailsTypes DEF Fault
    <2>3. CASE ~Fails(c, "assertion") /\ ~Fails(c, "useAfterFree")
      <3>1. /\ rbuf[c] # <<>> /\ rbuf' = [rbuf EXCEPT ![c] = Tail(@)]
            /\ \/ /\ channel' = [channel EXCEPT ![c] = FALSE]
                  /\ flags' = [flags EXCEPT ![c] = @ \ {"subscribed"}]
               \/ UNCHANGED <<channel, flags>>
            /\ UNCHANGED <<kind, life, replies, obuf, sourceVars, handlerVars, callerVars,
                           serverVars, answers, fault>>
        BY <1>5, <2>3 DEF ProcessSubscriber
      <3>2. Tail(rbuf[c]) \in Seq(Reply)
        BY <3>1 DEF TypeOK
      <3>3. rbuf' \in [Conn -> Seq(Reply)]
        BY <3>1, <3>2 DEF TypeOK
      <3>4. channel' \in [Conn -> BOOLEAN]
        BY <3>1 DEF TypeOK
      <3>5. flags' \in [Conn -> SUBSET Flag]
        <4>1. flags \in [Conn -> SUBSET Flag]
          BY DEF TypeOK
        <4>2. flags' = flags \/ flags' = [flags EXCEPT ![c] = flags[c] \ {"subscribed"}]
          BY <3>1
        <4>3. QED
          BY ONLY <4>1, <4>2, c \in Conn
      <3>6. /\ UNCHANGED <<kind, life, replies, obuf, isReading, isWriting, readSrc, writeSrc>>
            /\ UNCHANGED <<rpc, wpc, handed, table, upc, sock, toServer, inbound, heard, executed>>
            /\ UNCHANGED <<answers, fault>>
        <4>1. UNCHANGED <<kind, life, replies, obuf, sourceVars, handlerVars, callerVars,
                          serverVars, answers, fault>>
          BY <3>1
        <4>2. QED
          BY <4>1
      <3>7. QED
        BY <2>1, <3>3, <3>4, <3>5, <3>6 DEF TypeOK, Pointed
    <2>4. QED
      BY <2>2, <2>3
  <1>6. CASE ProcessEnds(c)
    BY <1>6 DEF ProcessEnds, TypeOK, Pointed, contextVars, historyVars
  <1>7. QED
    BY <1>1, <1>2, <1>3, <1>4, <1>5, <1>6, TypeRelease DEF ReadHandler

\* What the server sends, and what it takes.
LEMMA DeliverTypes ==
  ASSUME TypeOK, NEW news \in [Conn -> Seq(Reply)], Deliver(news)
  PROVE  inbound' \in [Conn -> Seq(Reply)]
  <1>1. ASSUME NEW d \in Conn PROVE inbound[d] \in Seq(Reply) /\ inbound[d] \o news[d] \in Seq(Reply)
    BY DEF TypeOK
  <1>2. QED
    BY <1>1 DEF Deliver

LEMMA ServerTypes ==
  ASSUME TypeOK, Pointed, NEW c \in Conn, Answer(c) \/ Close(c)
  PROVE  TypeOK' /\ Pointed'
  <1> USE DEF ServerKeeps, contextVars, sourceVars, handlerVars, callerVars
  <1>1. ASSUME ServerKeeps, strain' \in [Conn -> SUBSET Strain],
               sock' \in [Conn -> {"none", "connecting", "open", "refused", "closed"}],
               toServer' = toServer \/ toServer' = [toServer EXCEPT ![c] = <<>>]
                 \/ (toServer[c] # <<>> /\ toServer' = [toServer EXCEPT ![c] = Tail(toServer[c])]),
               heard' \subseteq Conn, executed' \subseteq Conn, inbound' \in [Conn -> Seq(Reply)]
        PROVE  TypeOK' /\ Pointed'
    <2>1. toServer \in [Conn -> Seq(Command)] /\ <<>> \in Seq(Command)
      BY DEF TypeOK
    <2>2. toServer[c] # <<>> => Tail(toServer[c]) \in Seq(Command)
      BY <2>1
    <2>3. toServer' \in [Conn -> Seq(Command)]
      BY ONLY <1>1, <2>1, <2>2, c \in Conn
    <2>4. QED
      BY <1>1, <2>3 DEF TypeOK, Pointed
  <1>2. CASE Accept(c)
    <2>1. sock' \in [Conn -> {"none", "connecting", "open", "refused", "closed"}]
      BY <1>2 DEF Accept, TypeOK
    <2>2. /\ strain' \in [Conn -> SUBSET Strain] /\ heard' \subseteq Conn /\ executed' \subseteq Conn
          /\ inbound' \in [Conn -> Seq(Reply)] /\ toServer' = toServer
      BY <1>2 DEF Accept, TypeOK
    <2>3. ServerKeeps
      BY <1>2 DEF Accept
    <2>4. QED
      BY <1>1, <2>1, <2>2, <2>3
  <1>3. CASE Refuse(c) \/ Close(c)
    <2>1. sock' \in [Conn -> {"none", "connecting", "open", "refused", "closed"}]
      <3>1. \E x \in {"refused", "closed"} : sock' = [sock EXCEPT ![c] = x]
        BY <1>3 DEF Refuse, Close
      <3>2. QED
        BY <3>1 DEF TypeOK
    <2>2. strain' \in [Conn -> SUBSET Strain]
      BY <1>3, StrainedTypes DEF Refuse, Close, Strain
    <2>3. heard' \subseteq Conn /\ executed' \subseteq Conn /\ inbound' \in [Conn -> Seq(Reply)]
      BY <1>3 DEF Refuse, Close, TypeOK
    <2>4. /\ ServerKeeps
          /\ toServer' = toServer \/ toServer' = [toServer EXCEPT ![c] = <<>>]
      BY <1>3 DEF Refuse, Close
    <2>5. QED
      BY <1>1, <2>1, <2>2, <2>3, <2>4
  <1>4. ASSUME NEW r \in Reply PROVE Only(c, r) \in [Conn -> Seq(Reply)]
    <2>1. <<r>> \in Seq(Reply) /\ <<>> \in Seq(Reply)
      OBVIOUS
    <2>2. QED
      BY <2>1 DEF Only
  <1>5. CASE Execute(c)
    <2>1. [d \in Conn |-> IF d = c THEN <<"published">> ELSE IF d \in heard THEN <<"message">> ELSE <<>>]
            \in [Conn -> Seq(Reply)]
      <3>1. <<"published">> \in Seq(Reply) /\ <<"message">> \in Seq(Reply) /\ <<>> \in Seq(Reply)
        BY DEF Reply
      <3>2. QED
        BY <3>1
    <2>2. Head(toServer[c]) \in Command
      BY <1>5 DEF Execute, TypeOK
    <2>3. \E news \in [Conn -> Seq(Reply)] : Deliver(news)
      BY <1>4, <1>5, <2>1, <2>2 DEF Execute, Command, Reply
    <2>4. inbound' \in [Conn -> Seq(Reply)]
      BY <2>3, DeliverTypes
    <2>5. heard' \subseteq Conn /\ executed' \subseteq Conn
      BY <1>5, <2>2 DEF Execute, Command, TypeOK
    <2>6. QED
      BY <1>1, <1>5, <2>4, <2>5 DEF Execute, TypeOK
  <1>6. CASE Reject(c)
    <2>1. strain' \in [Conn -> SUBSET Strain]
      BY <1>6, StrainedTypes DEF Reject, Strain
    <2>2. inbound' \in [Conn -> Seq(Reply)]
      BY <1>4, <1>6, DeliverTypes DEF Reject, Reply
    <2>3. QED
      BY <1>1, <1>6, <2>1, <2>2 DEF Reject, TypeOK
  <1>7. QED
    BY <1>2, <1>3, <1>5, <1>6 DEF Answer

(***************************************************************************)
(* Every variable of the connections keeps its type, whatever the handlers *)
(* and the caller do to each other.                                        *)
(***************************************************************************)
THEOREM TypeCorrect == Spec => [](TypeOK /\ Pointed)
  <1>1. TypeOK /\ Pointed /\ [Next]_vars => (TypeOK /\ Pointed)'
    <2>1. ASSUME TypeOK, Pointed, UNCHANGED vars PROVE TypeOK' /\ Pointed'
      BY <2>1 DEF vars, contextVars, sourceVars, handlerVars, callerVars, serverVars, historyVars,
        TypeOK, Pointed
    <2>2. QED
      BY <2>1, TypeCaller, TypeOpen, TypeWrite, TypeRead, ServerTypes DEF Next, Publish, Subscribe
  <1>2. QED
    BY <1>1, TypeInit, PTL DEF Spec

-----------------------------------------------------------------------------

(***************************************************************************)
(* A PUBLISH keeps the promises of AsyncCall.                              *)
(***************************************************************************)

\* What the server may have told the connection of a PUBLISH.
Told(c) == IF c \in executed THEN {"published", "error"} ELSE {"error"}

\* The one PUBLISH is in the output buffer, with the server or executed; in the
\* buffer beside either of the others only until the running write trims it.
Publishing(c) ==
  /\ obuf[c] \in {<<>>, <<"PUBLISH">>} /\ toServer[c] \in {<<>>, <<"PUBLISH">>}
  /\ toServer[c] # <<>> => c \notin executed
  /\ toServer[c] # <<>> \/ c \in executed => obuf[c] = <<>> \/ handed[c] = 1
  /\ handed[c] \in {0, 1}
  /\ c \notin heard
  /\ rbuf[c] \in Seq(Told(c)) /\ inbound[c] \in Seq(Told(c))
  /\ replies[c] \in {0, 1} /\ (replies[c] = 1 => answers[c] = <<>>)

Sound(c) ==
  /\ life[c] = "none" => kind[c] = "none"
  /\ life[c] = "live" => kind[c] # "none"
  /\ kind[c] = "none" => /\ toServer[c] = <<>> /\ inbound[c] = <<>> /\ rbuf[c] = <<>>
                         /\ handed[c] = 0 /\ c \notin heard
  /\ kind[c] # "publish" => /\ replies[c] = 0 /\ answers[c] = <<>> /\ c \notin executed
                            /\ obuf[c] \in Seq(Command \ {"PUBLISH"})
                            /\ toServer[c] \in Seq(Command \ {"PUBLISH"})
  /\ kind[c] = "publish" => Publishing(c)
  /\ handed[c] # 0 => wpc[c] = "writing"

\* Only subscribers get into the table.
TableOfSubscribers == \A i \in 1..Len(table) : kind[table[i]] = "subscribe"

CallInv == TypeOK /\ Pointed /\ (\A c \in Conn : Sound(c)) /\ TableOfSubscribers

\* What Sound(d) is about stays as it is.
Same(d) ==
  /\ kind'[d] = kind[d] /\ life'[d] = life[d] /\ replies'[d] = replies[d]
  /\ obuf'[d] = obuf[d] /\ rbuf'[d] = rbuf[d] /\ wpc'[d] = wpc[d] /\ handed'[d] = handed[d]
  /\ toServer'[d] = toServer[d] /\ inbound'[d] = inbound[d] /\ answers'[d] = answers[d]
  /\ (d \in heard' <=> d \in heard) /\ (d \in executed' <=> d \in executed)

LEMMA SoundStays ==
  ASSUME NEW d, Sound(d), Same(d)
  PROVE  Sound(d)'
  BY DEF Sound, Same, Publishing, Told

LEMMA OneMoves ==
  ASSUME NEW c, \A d \in Conn : Sound(d), \A d \in Conn : d # c => Same(d), Sound(c)'
  PROVE  \A d \in Conn : Sound(d)'
  BY SoundStays

\* The table and the kinds of its entries.
LEMMA TableStays ==
  ASSUME TypeOK, TableOfSubscribers, table' \in {table, <<>>},
         \A d \in Conn : kind[d] = "subscribe" => kind'[d] = "subscribe"
  PROVE  TableOfSubscribers'
  <1>1. \A i \in 1..Len(table) : table[i] \in Conn
    BY DEF TypeOK
  <1>2. CASE table' = table
    BY <1>1, <1>2 DEF TableOfSubscribers
  <1>3. CASE table' = <<>>
    BY <1>3 DEF TableOfSubscribers
  <1>4. QED
    BY <1>2, <1>3

CallStep == [AsyncCalls!CallNext]_<<{c \in Conn : kind[c] = "publish"}, executed, answers>>

LEMMA Stutters == ASSUME UNCHANGED <<kind, executed, answers>> PROVE CallStep
  BY DEF CallStep

LEMMA FailsCall ==
  ASSUME CallInv, NEW c \in Conn, NEW f, Fails(c, f)
  PROVE  (\A d \in Conn : Sound(d)') /\ TableOfSubscribers' /\ CallStep
  <1>1. UNCHANGED <<kind, life, replies, obuf, rbuf, wpc, handed, toServer, inbound, heard, executed,
                    answers, table>>
    BY DEF Fails, contextVars, handlerVars, serverVars, callerVars
  <1>2. \A d \in Conn : Same(d)
    BY <1>1 DEF Same
  <1>3. QED
    BY <1>1, <1>2, SoundStays, TableStays, Stutters DEF CallInv

\* Closing answers NULL to a callback that has not run, and to no other.
LEMMA AbandonCall ==
  ASSUME CallInv, NEW c \in Conn, NEW f, Abandon(c, f), wpc' = wpc \/ handed[c] = 0,
         \A d \in Conn : d # c => wpc'[d] = wpc[d],
         UNCHANGED <<rbuf, handed, toServer, inbound, heard, executed, table>>
  PROVE  (\A d \in Conn : Sound(d)') /\ TableOfSubscribers' /\ CallStep
  <1>1. /\ replies' = [replies EXCEPT ![c] = 0] /\ UNCHANGED <<kind, life, obuf>>
        /\ answers' = [answers EXCEPT ![c] = answers[c] \o [i \in 1..replies[c] |-> "null"]]
    BY DEF Abandon
  <1>2. /\ replies \in [Conn -> Nat] /\ answers \in [Conn -> Seq(Reply \cup {"null"})]
        /\ wpc \in [Conn -> {"idle", "writing", "done", "unflagged", "tearing"}]
        /\ kind \in [Conn -> {"none", "publish", "subscribe"}]
    BY DEF CallInv, TypeOK
  <1>3. Sound(c) /\ replies[c] \in {0, 1} /\ (replies[c] = 1 => answers[c] = <<>> /\ kind[c] = "publish")
    BY DEF CallInv, Sound, Publishing
  <1>4. replies[c] = 0 => answers' = answers
    <2>1. replies[c] = 0 => [i \in 1..replies[c] |-> "null"] = <<>>
      OBVIOUS
    <2>2. answers[c] \o <<>> = answers[c]
      BY <1>2
    <2>3. QED
      BY <1>1, <1>2, <2>1, <2>2
  <1>5. replies[c] = 1 => answers' = [answers EXCEPT ![c] = <<"null">>]
    <2>1. replies[c] = 1 => [i \in 1..replies[c] |-> "null"] = <<"null">>
      OBVIOUS
    <2>2. <<>> \o <<"null">> = <<"null">>
      OBVIOUS
    <2>3. QED
      BY <1>1, <1>3, <2>1, <2>2
  <1>6. \A d \in Conn : d # c => Same(d)
    BY <1>1, <1>2 DEF Same
  <1>7. Sound(c)'
    <2>1. /\ replies'[c] = 0 /\ (kind[c] # "publish" => answers' = answers)
          /\ (handed[c] # 0 => wpc'[c] = wpc[c])
      BY <1>1, <1>2, <1>3, <1>4
    <2>2. kind[c] = "publish" => Publishing(c)'
      <3>1. Told(c)' = Told(c)
        BY DEF Told
      <3>2. QED
        BY <1>1, <1>3, <2>1, <3>1 DEF Sound, Publishing
    <2>3. QED
      BY <1>1, <1>3, <2>1, <2>2 DEF Sound
  <1>8. CallStep
    <2>1. CASE replies[c] = 0
      BY <1>1, <1>4, <2>1, Stutters
    <2>2. CASE replies[c] = 1
      <3>1. AsyncCalls!Respond(c, "null")
        BY <1>1, <1>3, <1>5, <2>2 DEF AsyncCalls!Respond
      <3>2. QED
        BY <3>1 DEF CallStep, AsyncCalls!CallNext
    <2>3. QED
      BY <1>3, <2>1, <2>2
  <1>9. QED
    BY <1>1, <1>6, <1>7, <1>8, OneMoves, TableStays DEF CallInv

\* A step of c that leaves the calls alone and the output buffer in order.
LEMMA QuietCall ==
  ASSUME CallInv, NEW c \in Conn,
         UNCHANGED <<kind, life, replies, obuf, rbuf, handed, toServer, inbound, heard, executed, answers>>,
         wpc' = wpc \/ (handed[c] = 0 /\ \E x : wpc' = [wpc EXCEPT ![c] = x]),
         table' \in {table, <<>>}
  PROVE  (\A d \in Conn : Sound(d)') /\ TableOfSubscribers' /\ CallStep
  <1>1. wpc \in [Conn -> {"idle", "writing", "done", "unflagged", "tearing"}]
    BY DEF CallInv, TypeOK
  <1>2. \A d \in Conn : d # c => Same(d)
    BY <1>1 DEF Same
  <1>3. Sound(c)'
    <2>1. Told(c)' = Told(c) /\ Sound(c)
      BY DEF Told, CallInv
    <2>2. handed[c] # 0 => wpc'[c] = "writing"
      BY <2>1 DEF Sound
    <2>3. kind[c] = "publish" => Publishing(c)'
      BY <2>1 DEF Sound, Publishing
    <2>4. QED
      BY <2>1, <2>2, <2>3 DEF Sound
  <1>4. QED
    BY <1>2, <1>3, OneMoves, TableStays, Stutters DEF CallInv

LEMMA CallerCall ==
  ASSUME CallInv, Caller
  PROVE  (\A d \in Conn : Sound(d)') /\ TableOfSubscribers' /\ CallStep
  <1> USE DEF contextVars, sourceVars, handlerVars, serverVars, historyVars
  <1>1. /\ table \in Seq(Conn) /\ Len(table) \in Nat /\ upc.i \in Nat /\ upc.i > 0
        /\ upc.at = "schedule" => upc.i <= Len(table)
    BY DEF CallInv, TypeOK, Pointed
  <1>2. ASSUME UNCHANGED <<kind, life, replies, obuf, rbuf, handed, toServer, inbound, heard, executed,
                           answers, wpc>>,
               table' \in {table, <<>>}
        PROVE  (\A d \in Conn : Sound(d)') /\ TableOfSubscribers' /\ CallStep
    <2>1. \A d \in Conn : Same(d)
      BY <1>2 DEF Same
    <2>2. QED
      BY <1>2, <2>1, SoundStays, TableStays, Stutters DEF CallInv
  <1>3. CASE UnsubscribeAll \/ UnsubscribeEnds \/ UnsubscribeClear
    BY <1>2, <1>3 DEF UnsubscribeAll, UnsubscribeEnds, UnsubscribeClear
  <1>4. CASE UnsubscribeSchedule
    <2>1. PICK c : c = table[upc.i]
      OBVIOUS
    <2>2. c \in Conn
      BY <1>1, <1>4, <2>1 DEF UnsubscribeSchedule
    <2>3. CASE \E f : Fails(c, f)
      BY <2>2, <2>3, FailsCall
    <2>4. CASE ~\E f : Fails(c, f)
      BY <1>2, <1>4, <2>1, <2>4 DEF UnsubscribeSchedule
    <2>5. QED
      BY <2>3, <2>4
  <1>5. CASE UnsubscribeAppend
    <2>1. PICK c : c = table[upc.i]
      OBVIOUS
    <2>2. upc.i \in 1..Len(table)
      BY <1>1, <1>5 DEF UnsubscribeAppend
    <2>3. c \in Conn /\ kind[c] = "subscribe"
      BY <1>1, <2>1, <2>2 DEF CallInv, TableOfSubscribers
    <2>4. CASE \E f : Fails(c, f)
      BY <2>3, <2>4, FailsCall
    <2>5. CASE obuf' = obuf /\ ~\E f : Fails(c, f)
      BY <1>2, <1>5, <2>1, <2>5 DEF UnsubscribeAppend
    <2>6. CASE /\ obuf' = [obuf EXCEPT ![c] = Append(obuf[c], "UNSUBSCRIBE")]
               /\ UNCHANGED <<kind, life, flags, replies, channel, rbuf, sourceVars, handlerVars,
                              table, serverVars, answers, fault>>
      <3>1. obuf \in [Conn -> Seq(Command)]
        BY DEF CallInv, TypeOK
      <3>2. \A d \in Conn : d # c => Same(d)
        BY <2>6, <3>1 DEF Same
      <3>3. Sound(c) /\ obuf'[c] = Append(obuf[c], "UNSUBSCRIBE")
        BY <2>3, <2>6, <3>1 DEF CallInv
      <3>4. obuf'[c] \in Seq(Command \ {"PUBLISH"})
        <4>1. obuf[c] \in Seq(Command \ {"PUBLISH"}) /\ "UNSUBSCRIBE" \in Command \ {"PUBLISH"}
          BY <2>3, <3>3 DEF Sound, Command
        <4>2. QED
          BY <3>3, <4>1
      <3>5. Sound(c)'
        BY <2>3, <2>6, <3>3, <3>4 DEF Sound
      <3>6. QED
        BY <2>6, <3>2, <3>5, OneMoves, TableStays, Stutters DEF CallInv
    <2>7. QED
      BY <1>5, <2>1, <2>4, <2>5, <2>6 DEF UnsubscribeAppend
  <1>6. QED
    BY <1>3, <1>4, <1>5 DEF Caller

LEMMA PublishCall ==
  ASSUME CallInv, NEW c \in Conn, Publish(c)
  PROVE  (\A d \in Conn : Sound(d)') /\ TableOfSubscribers' /\ CallStep
  <1>1. /\ life[c] = "none" /\ life' = [life EXCEPT ![c] = "live"]
        /\ kind' = [kind EXCEPT ![c] = "publish"] /\ obuf' = [obuf EXCEPT ![c] = <<"PUBLISH">>]
        /\ replies' = [replies EXCEPT ![c] = 1]
        /\ UNCHANGED <<rbuf, handed, wpc, toServer, inbound, heard, executed, answers, table>>
    BY DEF Publish, Open, handlerVars
  <1>2. /\ life \in [Conn -> {"none", "live", "freed"}] /\ kind \in [Conn -> {"none", "publish", "subscribe"}]
        /\ obuf \in [Conn -> Seq(Command)] /\ replies \in [Conn -> Nat]
    BY DEF CallInv, TypeOK
  <1>3. Sound(c) /\ kind[c] = "none"
    BY <1>1 DEF CallInv, Sound
  <1>4. \A d \in Conn : d # c => Same(d)
    BY <1>1, <1>2 DEF Same
  <1>5. Publishing(c)'
    <2>1. /\ toServer[c] = <<>> /\ c \notin executed /\ c \notin heard /\ handed[c] = 0
          /\ rbuf[c] = <<>> /\ inbound[c] = <<>> /\ answers[c] = <<>>
      BY <1>3 DEF Sound
    <2>2. obuf'[c] = <<"PUBLISH">> /\ replies'[c] = 1
      BY <1>1, <1>2
    <2>3. <<>> \in Seq(Told(c)')
      OBVIOUS
    <2>4. QED
      BY <1>1, <2>1, <2>2, <2>3 DEF Publishing
  <1>6. Sound(c)'
    <2>1. kind'[c] = "publish" /\ life'[c] = "live" /\ handed'[c] = 0
      BY <1>1, <1>2, <1>3 DEF Sound
    <2>2. QED
      BY <1>5, <2>1 DEF Sound
  <1>7. AsyncCalls!Issue(c)
    BY <1>1, <1>2, <1>3 DEF AsyncCalls!Issue
  <1>8. \A d \in Conn : kind[d] = "subscribe" => kind'[d] = "subscribe"
    BY <1>1, <1>2, <1>3
  <1>9. QED
    BY <1>1, <1>4, <1>6, <1>7, <1>8, OneMoves, TableStays DEF CallInv, CallStep, AsyncCalls!CallNext

LEMMA SubscribeCall ==
  ASSUME CallInv, NEW c \in Conn, Subscribe(c)
  PROVE  (\A d \in Conn : Sound(d)') /\ TableOfSubscribers' /\ CallStep
  <1>1. /\ life[c] = "none" /\ life' = [life EXCEPT ![c] = "live"]
        /\ kind' = [kind EXCEPT ![c] = "subscribe"] /\ obuf' = [obuf EXCEPT ![c] = <<"SUBSCRIBE">>]
        /\ table' = Append(table, c)
        /\ UNCHANGED <<replies, rbuf, handed, wpc, toServer, inbound, heard, executed, answers>>
    BY DEF Subscribe, Open, handlerVars
  <1>2. /\ life \in [Conn -> {"none", "live", "freed"}] /\ kind \in [Conn -> {"none", "publish", "subscribe"}]
        /\ obuf \in [Conn -> Seq(Command)] /\ table \in Seq(Conn)
    BY DEF CallInv, TypeOK
  <1>3. Sound(c) /\ kind[c] = "none"
    BY <1>1 DEF CallInv, Sound
  <1>4. \A d \in Conn : d # c => Same(d)
    BY <1>1, <1>2 DEF Same
  <1>5. Sound(c)'
    <2>1. /\ kind'[c] = "subscribe" /\ life'[c] = "live" /\ obuf'[c] = <<"SUBSCRIBE">>
          /\ handed'[c] = 0
      BY <1>1, <1>2, <1>3 DEF Sound
    <2>2. <<"SUBSCRIBE">> \in Seq(Command \ {"PUBLISH"})
      BY DEF Command
    <2>3. QED
      BY <1>1, <1>3, <2>1, <2>2 DEF Sound
  <1>6. TableOfSubscribers'
    <2>1. \A i \in 1..Len(table') : table'[i] = c \/ (i \in 1..Len(table) /\ table'[i] = table[i])
      BY <1>1, <1>2
    <2>2. \A d \in Conn : d = c \/ kind[d] = "subscribe" => kind'[d] = "subscribe"
      BY <1>1, <1>2
    <2>3. \A i \in 1..Len(table) : table[i] \in Conn /\ kind[table[i]] = "subscribe"
      BY <1>2 DEF CallInv, TableOfSubscribers
    <2>4. QED
      BY <2>1, <2>2, <2>3 DEF TableOfSubscribers
  <1>7. CallStep
    <2>1. {d \in Conn : kind'[d] = "publish"} = {d \in Conn : kind[d] = "publish"}
      BY <1>1, <1>2, <1>3
    <2>2. QED
      BY <1>1, <2>1 DEF CallStep
  <1>8. QED
    BY <1>4, <1>5, <1>6, <1>7, OneMoves DEF CallInv

LEMMA ReleaseCall ==
  ASSUME CallInv, NEW c \in Conn, ReleaseByRead(c) \/ ReleaseByWrite(c)
  PROVE  (\A d \in Conn : Sound(d)') /\ TableOfSubscribers' /\ CallStep
  <1>1. Sound(c) /\ (handed[c] = 0 \/ wpc[c] = "writing")
    BY DEF CallInv, Sound, ReleaseByRead, ReleaseByWrite
  <1>2. CASE \E f : Fails(c, f)
    BY <1>2, FailsCall
  <1>3. CASE ~\E f : Fails(c, f)
    <2>1. /\ life' = [life EXCEPT ![c] = "freed"] /\ obuf' = [obuf EXCEPT ![c] = <<>>]
          /\ rbuf' = [rbuf EXCEPT ![c] = <<>>] /\ wpc' = [wpc EXCEPT ![c] = "idle"]
          /\ inbound' = [inbound EXCEPT ![c] = <<>>] /\ heard' = heard \ {c}
          /\ UNCHANGED <<kind, replies, handed, table, toServer, executed, answers>>
          /\ handed[c] = 0
      BY <1>1, <1>3 DEF ReleaseByRead, ReleaseByWrite, Release, callerVars
    <2>2. /\ life \in [Conn -> {"none", "live", "freed"}] /\ obuf \in [Conn -> Seq(Command)]
          /\ rbuf \in [Conn -> Seq(Reply)] /\ inbound \in [Conn -> Seq(Reply)]
          /\ wpc \in [Conn -> {"idle", "writing", "done", "unflagged", "tearing"}]
      BY DEF CallInv, TypeOK
    <2>3. \A d \in Conn : d # c => Same(d)
      BY <2>1, <2>2 DEF Same
    <2>4. /\ life'[c] = "freed" /\ obuf'[c] = <<>> /\ rbuf'[c] = <<>> /\ inbound'[c] = <<>>
          /\ c \notin heard'
      BY <2>1, <2>2
    <2>5. kind[c] = "publish" => Publishing(c)'
      <3>1. \A S : <<>> \in Seq(S)
        OBVIOUS
      <3>2. QED
        BY <1>1, <2>1, <2>4, <3>1 DEF Sound, Publishing
    <2>6. Sound(c)'
      <3>1. <<>> \in Seq(Command \ {"PUBLISH"})
        OBVIOUS
      <3>2. QED
        BY <1>1, <2>1, <2>4, <2>5, <3>1 DEF Sound
    <2>7. QED
      BY <2>1, <2>3, <2>6, OneMoves, TableStays, Stutters DEF CallInv
  <1>4. QED
    BY <1>2, <1>3

LEMMA TearCall ==
  ASSUME CallInv, NEW c \in Conn, NEW f, TearByRead(c, f) \/ (TearByWrite(c, f) /\ wpc[c] # "writing")
  PROVE  (\A d \in Conn : Sound(d)') /\ TableOfSubscribers' /\ CallStep
  <1>1. CASE \E g : Fails(c, g)
    BY <1>1, FailsCall
  <1>2. CASE ~\E g : Fails(c, g)
    <2>1. /\ Abandon(c, f) /\ UNCHANGED <<rbuf, handed, toServer, inbound, heard, executed, table>>
          /\ \/ wpc' = wpc
             \/ wpc' = [wpc EXCEPT ![c] = "tearing"] /\ wpc[c] # "writing"
      BY <1>2 DEF TearByRead, TearByWrite, callerVars, serverVars
    <2>2. wpc[c] # "writing" => handed[c] = 0
      BY DEF CallInv, Sound
    <2>3. \A d \in Conn : d # c => wpc'[d] = wpc[d]
      BY <2>1 DEF CallInv, TypeOK
    <2>4. QED
      BY <2>1, <2>2, <2>3, AbandonCall
  <1>3. QED
    BY <1>1, <1>2

LEMMA WriteOutCall ==
  ASSUME CallInv, NEW c \in Conn, WriteOut(c)
  PROVE  (\A d \in Conn : Sound(d)') /\ TableOfSubscribers' /\ CallStep
  <1>1. /\ life[c] = "live" /\ wpc[c] = "idle" /\ wpc' = [wpc EXCEPT ![c] = "writing"]
        /\ \/ /\ handed' = [handed EXCEPT ![c] = Len(obuf[c])]
              /\ toServer' = toServer \/ toServer' = [toServer EXCEPT ![c] = toServer[c] \o obuf[c]]
           \/ UNCHANGED <<handed, toServer>>
        /\ UNCHANGED <<kind, life, replies, obuf, rbuf, table, inbound, heard, executed, answers>>
    BY DEF WriteOut, Writable, callerVars
  <1>2. /\ wpc \in [Conn -> {"idle", "writing", "done", "unflagged", "tearing"}]
        /\ handed \in [Conn -> Nat] /\ toServer \in [Conn -> Seq(Command)] /\ obuf \in [Conn -> Seq(Command)]
    BY DEF CallInv, TypeOK
  <1>3. \A d \in Conn : d # c => Same(d)
    BY <1>1, <1>2 DEF Same
  <1>4. Sound(c) /\ handed[c] = 0 /\ wpc'[c] = "writing"
    BY <1>1, <1>2 DEF CallInv, Sound
  <1>5. /\ handed'[c] \in {0, Len(obuf[c])}
        /\ toServer'[c] = toServer[c] \/ (handed'[c] = Len(obuf[c]) /\ toServer'[c] = toServer[c] \o obuf[c])
    BY <1>1, <1>2, <1>4
  <1>6. ASSUME kind[c] = "publish" PROVE Sound(c)'
    <2>1. Publishing(c) /\ Told(c)' = Told(c)
      BY <1>1, <1>4, <1>6 DEF Sound, Told
    <2>2. CASE obuf[c] = <<>>
      <3>1. Len(<<>>) = 0 /\ toServer[c] \o <<>> = toServer[c]
        BY <1>2
      <3>2. handed'[c] = 0 /\ toServer'[c] = toServer[c]
        BY <1>5, <2>2, <3>1
      <3>3. Publishing(c)'
        BY <1>1, <2>1, <2>2, <3>2 DEF Publishing
      <3>4. QED
        BY <1>1, <1>4, <1>6, <3>3 DEF Sound
    <2>3. CASE obuf[c] = <<"PUBLISH">>
      <3>1. toServer[c] = <<>> /\ c \notin executed
        BY <1>4, <2>1, <2>3 DEF Publishing
      <3>2. Len(<<"PUBLISH">>) = 1 /\ <<>> \o <<"PUBLISH">> = <<"PUBLISH">>
        OBVIOUS
      <3>3. /\ handed'[c] \in {0, 1} /\ toServer'[c] \in {<<>>, <<"PUBLISH">>}
            /\ toServer'[c] # <<>> => handed'[c] = 1
        BY <1>5, <2>3, <3>1, <3>2
      <3>4. Publishing(c)'
        BY <1>1, <2>1, <2>3, <3>1, <3>3 DEF Publishing
      <3>5. QED
        BY <1>1, <1>4, <1>6, <3>4 DEF Sound
    <2>4. QED
      BY <2>1, <2>2, <2>3 DEF Publishing
  <1>7. ASSUME kind[c] # "publish" PROVE Sound(c)'
    <2>1. kind[c] # "none"
      BY <1>1, <1>4 DEF CallInv, Sound
    <2>2. toServer'[c] \in Seq(Command \ {"PUBLISH"})
      <3>1. toServer[c] \in Seq(Command \ {"PUBLISH"}) /\ obuf[c] \in Seq(Command \ {"PUBLISH"})
        BY <1>4, <1>7 DEF Sound
      <3>2. toServer[c] \o obuf[c] \in Seq(Command \ {"PUBLISH"})
        BY <3>1
      <3>3. QED
        BY <1>5, <3>1, <3>2
    <2>3. QED
      BY <1>1, <1>4, <1>7, <2>1, <2>2 DEF Sound
  <1>8. QED
    BY <1>1, <1>3, <1>6, <1>7, OneMoves, TableStays, Stutters DEF CallInv

LEMMA WriteTrimCall ==
  ASSUME CallInv, NEW c \in Conn, WriteTrim(c)
  PROVE  (\A d \in Conn : Sound(d)') /\ TableOfSubscribers' /\ CallStep
  <1>1. PICK rest \in {Rest(c), <<>>} :
          /\ rest = <<>> => rest = Rest(c) \/ handed[c] > 0
          /\ obuf' = [obuf EXCEPT ![c] = rest]
          /\ handed' = [handed EXCEPT ![c] = 0]
          /\ \E x : wpc' = [wpc EXCEPT ![c] = x]
          /\ UNCHANGED <<kind, life, replies, rbuf, table, toServer, inbound, heard, executed, answers>>
    BY DEF WriteTrim, callerVars, serverVars, historyVars
  <1>2. /\ obuf \in [Conn -> Seq(Command)] /\ handed \in [Conn -> Nat]
        /\ wpc \in [Conn -> {"idle", "writing", "done", "unflagged", "tearing"}]
    BY DEF CallInv, TypeOK
  <1>3. \A d \in Conn : d # c => Same(d)
    BY <1>1, <1>2 DEF Same
  <1>4. Sound(c) /\ obuf'[c] = rest /\ handed'[c] = 0
    BY <1>1, <1>2 DEF CallInv
  <1>5. ASSUME kind[c] = "publish" PROVE Sound(c)'
    <2>1. Publishing(c) /\ Told(c)' = Told(c)
      BY <1>1, <1>4, <1>5 DEF Sound, Told
    <2>2. handed[c] = 1 => rest = <<>>
      <3>1. Len(<<"PUBLISH">>) = 1 /\ Len(<<>>) = 0
        OBVIOUS
      <3>2. Len(obuf[c]) \in {0, 1}
        BY <2>1, <3>1 DEF Publishing
      <3>3. ASSUME handed[c] = 1 PROVE Rest(c) = <<>>
        <4>1. Rest(c) = SubSeq(obuf[c], 2, Len(obuf[c]))
          BY <3>3 DEF Rest
        <4>2. \A n \in {0, 1} : n \in Int /\ n < 2
          OBVIOUS
        <4>3. Len(obuf[c]) \in Int /\ Len(obuf[c]) < 2
          BY <3>2, <4>2
        <4>4. 2 \in Int
          OBVIOUS
        <4>5. QED
          BY ONLY <4>1, <4>3, <4>4, SubSeqEmpty
      <3>4. QED
        BY <1>1, <3>3
    <2>3. handed[c] = 0 => rest = obuf[c]
      <3>1. handed[c] = 0 => Rest(c) = SubSeq(obuf[c], 1, Len(obuf[c]))
        BY DEF Rest
      <3>2. obuf[c] \in Seq(Command)
        BY <1>2
      <3>3. SubSeq(obuf[c], 1, Len(obuf[c])) = obuf[c]
        BY <3>2, SubSeqFull
      <3>4. QED
        BY <1>1, <3>1, <3>3
    <2>4. Publishing(c)'
      BY <1>1, <1>4, <2>1, <2>2, <2>3 DEF Publishing
    <2>5. QED
      BY <1>1, <1>4, <1>5, <2>4 DEF Sound
  <1>6. ASSUME kind[c] # "publish" PROVE Sound(c)'
    <2>1. rest \in Seq(Command \ {"PUBLISH"})
      <3>1. /\ obuf[c] \in Seq(Command \ {"PUBLISH"}) /\ handed[c] \in Nat
        BY <1>2, <1>4, <1>6 DEF Sound
      <3>2. /\ handed[c] + 1 \in Int /\ Len(obuf[c]) \in Int
            /\ \A i \in handed[c] + 1..Len(obuf[c]) : obuf[c][i] \in Command \ {"PUBLISH"}
        BY <3>1
      <3>3. Rest(c) \in Seq(Command \ {"PUBLISH"})
        BY <3>2, SubSeqProperties DEF Rest
      <3>4. <<>> \in Seq(Command \ {"PUBLISH"})
        OBVIOUS
      <3>5. QED
        BY <1>1, <3>3, <3>4
    <2>2. QED
      BY <1>1, <1>4, <1>6, <2>1 DEF Sound
  <1>7. QED
    BY <1>1, <1>3, <1>5, <1>6, OneMoves, TableStays, Stutters DEF CallInv

LEMMA WriteCall ==
  ASSUME CallInv, NEW c \in Conn, WriteHandler(c)
  PROVE  (\A d \in Conn : Sound(d)') /\ TableOfSubscribers' /\ CallStep
  <1>1. CASE WriteFails(c)
    BY <1>1, TearCall DEF WriteFails, Writable
  <1>2. CASE WriteUnflag(c)
    <2>1. handed[c] = 0
      BY <1>2 DEF CallInv, Sound, WriteUnflag
    <2>2. /\ UNCHANGED <<kind, life, replies, obuf, rbuf, handed, toServer, inbound, heard, executed,
                         answers, table>>
          /\ wpc' = [wpc EXCEPT ![c] = "unflagged"]
      BY <1>2 DEF WriteUnflag, contextVars, callerVars, serverVars, historyVars
    <2>3. QED
      BY <2>1, <2>2, QuietCall
  <1>3. CASE WriteSuspend(c)
    <2>1. handed[c] = 0
      BY <1>3 DEF CallInv, Sound, WriteSuspend
    <2>2. /\ UNCHANGED <<kind, life, replies, obuf, rbuf, handed, toServer, inbound, heard, executed,
                         answers, table>>
          /\ wpc' = [wpc EXCEPT ![c] = "idle"]
      BY <1>3 DEF WriteSuspend, contextVars, callerVars, serverVars, historyVars
    <2>3. QED
      BY <2>1, <2>2, QuietCall
  <1>4. QED
    BY <1>1, <1>2, <1>3, WriteOutCall, WriteTrimCall, ReleaseCall DEF WriteHandler

LEMMA ReadInCall ==
  ASSUME CallInv, NEW c \in Conn, ReadIn(c)
  PROVE  (\A d \in Conn : Sound(d)') /\ TableOfSubscribers' /\ CallStep
  <1>1. PICK k \in 1..Len(inbound[c]) :
          /\ rbuf' = [rbuf EXCEPT ![c] = rbuf[c] \o SubSeq(inbound[c], 1, k)]
          /\ inbound' = [inbound EXCEPT ![c] = SubSeq(inbound[c], k + 1, Len(inbound[c]))]
    BY DEF ReadIn
  <1>2. /\ life[c] = "live"
        /\ UNCHANGED <<kind, life, replies, obuf, wpc, handed, table, toServer, heard, executed, answers>>
    BY DEF ReadIn, Readable, callerVars
  <1>3. rbuf \in [Conn -> Seq(Reply)] /\ inbound \in [Conn -> Seq(Reply)]
    BY DEF CallInv, TypeOK
  <1>4. \A d \in Conn : d # c => Same(d)
    BY <1>1, <1>2, <1>3 DEF Same
  <1>5. Sound(c) /\ kind[c] # "none"
    BY <1>2 DEF CallInv, Sound
  <1>6. /\ rbuf'[c] = rbuf[c] \o SubSeq(inbound[c], 1, k)
        /\ inbound'[c] = SubSeq(inbound[c], k + 1, Len(inbound[c]))
    BY <1>1, <1>3
  <1>7. kind[c] = "publish" => rbuf'[c] \in Seq(Told(c)) /\ inbound'[c] \in Seq(Told(c))
    <2> SUFFICES ASSUME kind[c] = "publish"
                 PROVE  rbuf'[c] \in Seq(Told(c)) /\ inbound'[c] \in Seq(Told(c))
      OBVIOUS
    <2>1. inbound[c] \in Seq(Told(c)) /\ rbuf[c] \in Seq(Told(c))
      BY <1>5 DEF Sound, Publishing
    <2>2. /\ 1 \in Int /\ k \in Int /\ k + 1 \in Int /\ Len(inbound[c]) \in Int
          /\ \A i \in 1..k : inbound[c][i] \in Told(c)
          /\ \A i \in k + 1..Len(inbound[c]) : inbound[c][i] \in Told(c)
      BY <2>1
    <2>3. SubSeq(inbound[c], 1, k) \in Seq(Told(c)) /\ SubSeq(inbound[c], k + 1, Len(inbound[c])) \in Seq(Told(c))
      BY <2>2, SubSeqProperties
    <2>4. QED
      BY <1>6, <2>1, <2>3
  <1>8. Told(c)' = Told(c)
    BY <1>2 DEF Told
  <1>9. Sound(c)'
    BY <1>2, <1>5, <1>7, <1>8 DEF Sound, Publishing
  <1>10. QED
    BY <1>2, <1>4, <1>9, OneMoves, TableStays, Stutters DEF CallInv

\* The callback of the PUBLISH gets an answer the server has given.
LEMMA RegularCall ==
  ASSUME CallInv, NEW c \in Conn, ProcessRegular(c)
  PROVE  (\A d \in Conn : Sound(d)') /\ TableOfSubscribers' /\ CallStep
  <1> DEFINE h == Head(rbuf[c])
  <1>1. /\ rbuf[c] # <<>> /\ replies[c] > 0 /\ replies' = [replies EXCEPT ![c] = replies[c] - 1]
        /\ answers' = [answers EXCEPT ![c] = Append(answers[c], h)]
        /\ rbuf' = [rbuf EXCEPT ![c] = Tail(rbuf[c])]
        /\ UNCHANGED <<kind, life, obuf, wpc, handed, table, toServer, inbound, heard, executed>>
    BY DEF ProcessRegular, handlerVars, callerVars, serverVars
  <1>2. /\ rbuf \in [Conn -> Seq(Reply)] /\ replies \in [Conn -> Nat]
        /\ answers \in [Conn -> Seq(Reply \cup {"null"})]
    BY DEF CallInv, TypeOK
  <1>3. \A d \in Conn : d # c => Same(d)
    BY <1>1, <1>2 DEF Same
  <1>4. Sound(c) /\ kind[c] = "publish" /\ Publishing(c)
    BY <1>1 DEF CallInv, Sound
  <1>5. replies[c] = 1 /\ answers[c] = <<>>
    BY <1>1, <1>4 DEF Publishing
  <1>6. h \in Told(c) /\ Tail(rbuf[c]) \in Seq(Told(c))
    <2>1. rbuf[c] \in Seq(Told(c))
      BY <1>4 DEF Publishing
    <2>2. QED
      BY <1>1, <2>1
  <1>7. Append(<<>>, h) = <<h>>
    OBVIOUS
  <1>8. answers' = [answers EXCEPT ![c] = <<h>>] /\ replies'[c] = 0 /\ rbuf'[c] = Tail(rbuf[c])
    BY <1>1, <1>2, <1>5, <1>7
  <1>9. Sound(c)'
    <2>1. Told(c)' = Told(c)
      BY <1>1 DEF Told
    <2>2. Publishing(c)'
      BY <1>1, <1>4, <1>6, <1>8, <2>1 DEF Publishing
    <2>3. QED
      BY <1>1, <1>4, <2>2 DEF Sound
  <1>10. CallStep
    <2>1. PICK a \in {"published", "error"} : a = h /\ (a = "published" => c \in executed)
      BY <1>6 DEF Told
    <2>2. AsyncCalls!Respond(c, a)
      BY <1>1, <1>4, <1>5, <1>8, <2>1 DEF AsyncCalls!Respond
    <2>3. QED
      BY <2>2 DEF CallStep, AsyncCalls!CallNext
  <1>11. QED
    BY <1>1, <1>3, <1>9, <1>10, OneMoves, TableStays DEF CallInv

LEMMA ReadCall ==
  ASSUME CallInv, NEW c \in Conn, ReadHandler(c)
  PROVE  (\A d \in Conn : Sound(d)') /\ TableOfSubscribers' /\ CallStep
  <1>1. CASE ReadFails(c)
    BY <1>1, TearCall DEF ReadFails
  <1>2. CASE ProcessError(c) \/ Disconnect(c)
    BY <1>2, TearCall, FailsCall DEF ProcessError, Disconnect
  <1>3. CASE ProcessSubscriber(c)
    <2>1. CASE \E f : Fails(c, f)
      BY <2>1, FailsCall
    <2>2. CASE ~\E f : Fails(c, f)
      <3>1. /\ rbuf[c] # <<>> /\ replies[c] = 0 /\ Head(rbuf[c]) # "error"
            /\ rbuf' = [rbuf EXCEPT ![c] = Tail(rbuf[c])]
            /\ UNCHANGED <<kind, life, replies, obuf, wpc, handed, table, toServer, inbound, heard,
                           executed, answers>>
        BY <1>3, <2>2 DEF ProcessSubscriber, handlerVars, callerVars, serverVars
      <3>2. rbuf \in [Conn -> Seq(Reply)]
        BY DEF CallInv, TypeOK
      <3>3. \A d \in Conn : d # c => Same(d)
        BY <3>1, <3>2 DEF Same
      <3>4. Sound(c) /\ rbuf'[c] = Tail(rbuf[c]) /\ kind[c] # "none"
        BY <3>1, <3>2 DEF CallInv, Sound
      <3>5. kind[c] = "publish" => Tail(rbuf[c]) \in Seq(Told(c))
        <4>1. kind[c] = "publish" => rbuf[c] \in Seq(Told(c))
          BY <3>4 DEF Sound, Publishing
        <4>2. QED
          BY <3>1, <4>1
      <3>6. Told(c)' = Told(c)
        BY <3>1 DEF Told
      <3>7. Sound(c)'
        BY <3>1, <3>4, <3>5, <3>6 DEF Sound, Publishing
      <3>8. QED
        BY <3>1, <3>3, <3>7, OneMoves, TableStays, Stutters DEF CallInv
    <2>3. QED
      BY <2>1, <2>2
  <1>4. CASE ProcessEnds(c)
    <2>1. UNCHANGED <<kind, life, replies, obuf, rbuf, handed, toServer, inbound, heard, executed,
                      answers, wpc, table>>
      BY <1>4 DEF ProcessEnds, contextVars, callerVars, serverVars, historyVars
    <2>2. QED
      BY <2>1, QuietCall
  <1>5. QED
    BY <1>1, <1>2, <1>3, <1>4, ReadInCall, RegularCall, ReleaseCall DEF ReadHandler

\* What the server does to one connection shows at another only as messages,
\* and those go to subscribers.
ContextsKeep == UNCHANGED <<kind, life, replies, obuf, rbuf, wpc, handed, answers, table>>

LEMMA Elsewhere ==
  ASSUME CallInv, NEW d \in Conn, ContextsKeep, toServer'[d] = toServer[d],
         d \in heard' <=> d \in heard, d \in executed' <=> d \in executed,
         inbound'[d] = inbound[d] \/ kind[d] = "subscribe"
  PROVE  Sound(d)'
  <1>1. Sound(d) /\ Told(d)' = Told(d)
    BY DEF CallInv, Told
  <1>2. kind[d] = "publish" => Publishing(d)'
    BY <1>1 DEF ContextsKeep, Sound, Publishing
  <1>3. QED
    BY <1>1, <1>2 DEF ContextsKeep, Sound

LEMMA DeliverAt ==
  ASSUME CallInv, NEW news \in [Conn -> Seq(Reply)], Deliver(news), NEW d \in Conn
  PROVE  /\ inbound'[d] \in {inbound[d], inbound[d] \o news[d]}
         /\ inbound'[d] # inbound[d] => life[d] = "live" /\ news[d] # <<>>
  <1>1. inbound[d] \in Seq(Reply)
    BY DEF CallInv, TypeOK
  <1>2. inbound[d] \o <<>> = inbound[d]
    BY <1>1
  <1>3. inbound'[d] = IF life[d] = "live" THEN inbound[d] \o news[d] ELSE inbound[d]
    BY DEF Deliver
  <1>4. QED
    BY <1>2, <1>3

LEMMA OnlyType == ASSUME NEW c, NEW r \in Reply PROVE Only(c, r) \in [Conn -> Seq(Reply)]
  <1>1. <<r>> \in Seq(Reply) /\ <<>> \in Seq(Reply)
    OBVIOUS
  <1>2. QED
    BY <1>1 DEF Only

\* The server executes the one PUBLISH: the abstract command runs.
LEMMA ExecutePublishCall ==
  ASSUME CallInv, NEW c \in Conn, Execute(c), Head(toServer[c]) = "PUBLISH"
  PROVE  (\A d \in Conn : Sound(d)') /\ TableOfSubscribers' /\ CallStep
  <1> DEFINE news == [d \in Conn |-> IF d = c THEN <<"published">>
                                     ELSE IF d \in heard THEN <<"message">> ELSE <<>>]
  <1>1. /\ toServer[c] # <<>> /\ toServer' = [toServer EXCEPT ![c] = Tail(toServer[c])]
        /\ executed' = executed \cup {c} /\ Deliver(news) /\ heard' = heard /\ ContextsKeep
    BY DEF Execute, ServerKeeps, ContextsKeep, contextVars, handlerVars, callerVars
  <1>2. news \in [Conn -> Seq(Reply)]
    <2>1. <<"published">> \in Seq(Reply) /\ <<"message">> \in Seq(Reply) /\ <<>> \in Seq(Reply)
      BY DEF Reply
    <2>2. QED
      BY <2>1
  <1>3. toServer \in [Conn -> Seq(Command)] /\ inbound \in [Conn -> Seq(Reply)]
    BY DEF CallInv, TypeOK
  <1>4. Sound(c) /\ kind[c] = "publish"
    <2>1. kind[c] # "publish" => kind[c] # "none" /\ toServer[c] \in Seq(Command \ {"PUBLISH"})
      BY <1>1 DEF CallInv, Sound
    <2>2. kind[c] # "publish" => Head(toServer[c]) \in Command \ {"PUBLISH"}
      BY <1>1, <2>1
    <2>3. QED
      BY <2>2 DEF CallInv
  <1>5. Publishing(c) /\ toServer[c] = <<"PUBLISH">> /\ c \notin executed
    BY <1>1, <1>4 DEF Sound, Publishing
  <1>6. Sound(c)'
    <2>1. toServer'[c] = <<>>
      <3>1. Tail(<<"PUBLISH">>) = <<>>
        OBVIOUS
      <3>2. QED
        BY <1>1, <1>3, <1>5, <3>1
    <2>2. Told(c) = {"error"} /\ Told(c)' = {"published", "error"}
      BY <1>1, <1>5 DEF Told
    <2>3. \A q : q \in Seq({"error"}) => q \in Seq({"published", "error"})
      OBVIOUS
    <2>4. rbuf[c] \in Seq({"published", "error"}) /\ inbound[c] \in Seq({"published", "error"})
      BY <1>5, <2>2, <2>3 DEF Publishing
    <2>5. inbound'[c] \in {inbound[c], inbound[c] \o <<"published">>}
      <3>1. news[c] = <<"published">>
        OBVIOUS
      <3>2. inbound'[c] \in {inbound[c], inbound[c] \o news[c]}
        BY <1>1, <1>2, DeliverAt
      <3>3. QED
        BY <3>1, <3>2
    <2>6. inbound'[c] \in Seq({"published", "error"})
      <3>1. <<"published">> \in Seq({"published", "error"})
        OBVIOUS
      <3>2. inbound[c] \o <<"published">> \in Seq({"published", "error"})
        BY <2>4, <3>1
      <3>3. QED
        BY <2>4, <2>5, <3>2
    <2>7. obuf[c] = <<>> \/ handed[c] = 1
      BY <1>5 DEF Publishing
    <2>8. Publishing(c)'
      BY <1>1, <1>5, <2>1, <2>2, <2>4, <2>6, <2>7 DEF ContextsKeep, Publishing
    <2>9. QED
      BY <1>1, <1>4, <2>8 DEF ContextsKeep, Sound
  <1>7. ASSUME NEW d \in Conn, d # c PROVE Sound(d)'
    <2>1. inbound'[d] # inbound[d] => life[d] = "live" /\ news[d] # <<>>
      BY <1>1, <1>2, DeliverAt
    <2>2. inbound'[d] # inbound[d] => d \in heard
      BY <1>7, <2>1
    <2>3. d \in heard => kind[d] = "subscribe"
      BY DEF CallInv, TypeOK, Sound, Publishing
    <2>4. toServer'[d] = toServer[d]
      BY <1>1, <1>3, <1>7
    <2>5. QED
      BY <1>1, <1>7, <2>2, <2>3, <2>4, Elsewhere
  <1>8. AsyncCalls!Run(c)
    BY <1>1, <1>4, <1>5 DEF AsyncCalls!Run, ContextsKeep
  <1>9. QED
    BY <1>1, <1>6, <1>7, <1>8, TableStays
    DEF CallInv, ContextsKeep, CallStep, AsyncCalls!CallNext

\* A command that is answered and leaves no PUBLISH executed.
LEMMA AnswerCall ==
  ASSUME CallInv, NEW c \in Conn, NEW r \in Reply, ContextsKeep, executed' = executed,
         toServer[c] # <<>>, toServer' = [toServer EXCEPT ![c] = Tail(toServer[c])],
         Deliver(Only(c, r)), \A d \in Conn : d # c => (d \in heard' <=> d \in heard),
         kind[c] = "publish" => r = "error" /\ heard' = heard
  PROVE  (\A d \in Conn : Sound(d)') /\ TableOfSubscribers' /\ CallStep
  <1>1. Only(c, r) \in [Conn -> Seq(Reply)] /\ Only(c, r)[c] = <<r>>
    BY OnlyType DEF Only
  <1>2. toServer \in [Conn -> Seq(Command)] /\ inbound \in [Conn -> Seq(Reply)]
    BY DEF CallInv, TypeOK
  <1>3. Sound(c) /\ kind[c] # "none" /\ Told(c)' = Told(c)
    BY DEF CallInv, Sound, Told
  <1>4. ASSUME kind[c] = "publish" PROVE Sound(c)'
    <2>1. Publishing(c) /\ toServer[c] = <<"PUBLISH">>
      BY <1>3, <1>4 DEF Sound, Publishing
    <2>2. toServer'[c] = <<>>
      <3>1. Tail(<<"PUBLISH">>) = <<>>
        OBVIOUS
      <3>2. QED
        BY <1>2, <2>1, <3>1
    <2>3. inbound'[c] \in {inbound[c], inbound[c] \o <<"error">>}
      BY <1>1, <1>4, DeliverAt
    <2>4. inbound'[c] \in Seq(Told(c))
      <3>1. inbound[c] \in Seq(Told(c)) /\ <<"error">> \in Seq(Told(c))
        BY <2>1 DEF Publishing, Told
      <3>2. inbound[c] \o <<"error">> \in Seq(Told(c))
        BY <3>1
      <3>3. QED
        BY <2>3, <3>1, <3>2
    <2>5. Publishing(c)'
      BY <1>3, <1>4, <2>1, <2>2, <2>4 DEF ContextsKeep, Publishing
    <2>6. QED
      BY <1>3, <1>4, <2>5 DEF ContextsKeep, Sound
  <1>5. ASSUME kind[c] # "publish" PROVE Sound(c)'
    <2>1. toServer[c] \in Seq(Command \ {"PUBLISH"})
      BY <1>3, <1>5 DEF Sound
    <2>2. Tail(toServer[c]) \in Seq(Command \ {"PUBLISH"})
      BY <2>1
    <2>3. toServer'[c] \in Seq(Command \ {"PUBLISH"})
      BY <1>2, <2>2
    <2>4. QED
      BY <1>3, <1>5, <2>3 DEF ContextsKeep, Sound
  <1>6. ASSUME NEW d \in Conn, d # c PROVE Sound(d)'
    <2>1. Only(c, r)[d] = <<>>
      BY <1>6 DEF Only
    <2>2. inbound'[d] = inbound[d]
      BY <1>1, <2>1, DeliverAt
    <2>3. toServer'[d] = toServer[d]
      BY <1>2, <1>6
    <2>4. QED
      BY <1>6, <2>2, <2>3, Elsewhere
  <1>7. QED
    BY <1>4, <1>5, <1>6, TableStays, Stutters DEF CallInv, ContextsKeep

LEMMA ServerCall ==
  ASSUME CallInv, NEW c \in Conn, Answer(c) \/ Close(c)
  PROVE  (\A d \in Conn : Sound(d)') /\ TableOfSubscribers' /\ CallStep
  <1>1. ContextsKeep
    BY DEF Answer, Accept, Refuse, Execute, Reject, Close, ServerKeeps, ContextsKeep, contextVars,
           handlerVars, callerVars
  <1>2. CASE Accept(c) \/ Refuse(c)
    <2>1. UNCHANGED <<toServer, inbound, heard, executed>>
      BY <1>2 DEF Accept, Refuse
    <2>2. \A d \in Conn : Same(d)
      BY <1>1, <2>1 DEF Same, ContextsKeep
    <2>3. QED
      BY <1>1, <2>1, <2>2, SoundStays, TableStays, Stutters DEF CallInv, ContextsKeep
  <1>3. CASE Close(c)
    <2>1. /\ toServer' = [toServer EXCEPT ![c] = <<>>] /\ heard' = heard \ {c}
          /\ UNCHANGED <<inbound, executed>>
      BY <1>3 DEF Close
    <2>2. toServer \in [Conn -> Seq(Command)]
      BY DEF CallInv, TypeOK
    <2>3. \A d \in Conn : d # c => Same(d)
      BY <1>1, <2>1, <2>2 DEF Same, ContextsKeep
    <2>4. toServer'[c] = <<>> /\ c \notin heard' /\ Told(c)' = Told(c) /\ Sound(c)
      BY <2>1, <2>2 DEF Told, CallInv
    <2>5. kind[c] = "publish" => Publishing(c)'
      BY <1>1, <2>1, <2>4 DEF ContextsKeep, Sound, Publishing
    <2>6. <<>> \in Seq(Command \ {"PUBLISH"})
      OBVIOUS
    <2>7. Sound(c)'
      BY <1>1, <2>1, <2>4, <2>5, <2>6 DEF ContextsKeep, Sound
    <2>8. QED
      BY <1>1, <2>1, <2>3, <2>7, OneMoves, TableStays, Stutters DEF CallInv, ContextsKeep
  <1>4. CASE Execute(c)
    <2>1. CASE Head(toServer[c]) = "PUBLISH"
      BY <1>4, <2>1, ExecutePublishCall
    <2>2. CASE Head(toServer[c]) # "PUBLISH"
      <3>1. toServer[c] # <<>> /\ Head(toServer[c]) \in Command
        BY <1>4 DEF Execute, CallInv, TypeOK
      <3>2. kind[c] # "publish"
        <4>1. Head(<<"PUBLISH">>) = "PUBLISH"
          OBVIOUS
        <4>2. QED
          BY <2>2, <3>1, <4>1 DEF CallInv, Sound, Publishing
      <3>3. \E r \in Reply : Deliver(Only(c, r))
        BY <1>4, <2>2, <3>1 DEF Execute, Command, Reply
      <3>4. /\ executed' = executed /\ toServer' = [toServer EXCEPT ![c] = Tail(toServer[c])]
            /\ \A d \in Conn : d # c => (d \in heard' <=> d \in heard)
        BY <1>4, <2>2, <3>1 DEF Execute, Command
      <3>5. QED
        BY <1>1, <3>1, <3>2, <3>3, <3>4, AnswerCall
    <2>3. QED
      BY <2>1, <2>2
  <1>5. CASE Reject(c)
    BY <1>1, <1>5, AnswerCall DEF Reject, Reply
  <1>6. QED
    BY <1>2, <1>3, <1>4, <1>5 DEF Answer

LEMMA CallInit ==
  Init => (\A c \in Conn : Sound(c)) /\ TableOfSubscribers /\ AsyncCalls!CallInit
  <1>1. Init => \A c \in Conn : Sound(c)
    <2>1. <<>> \in Seq(Command \ {"PUBLISH"})
      OBVIOUS
    <2>2. QED
      BY <2>1 DEF Init, Sound
  <1>2. Init => TableOfSubscribers
    BY DEF Init, TableOfSubscribers
  <1>3. Init => AsyncCalls!CallInit
    BY DEF Init, AsyncCalls!CallInit
  <1>4. QED
    BY <1>1, <1>2, <1>3

LEMMA CallNext ==
  ASSUME CallInv, [Next]_vars
  PROVE  (\A d \in Conn : Sound(d)') /\ TableOfSubscribers' /\ CallStep
  <1>1. CASE UNCHANGED vars
    <2>1. UNCHANGED <<kind, life, replies, obuf, rbuf, wpc, handed, toServer, inbound, heard, executed,
                      answers, table>>
      BY <1>1 DEF vars, contextVars, handlerVars, callerVars, serverVars, historyVars
    <2>2. \A d \in Conn : Same(d)
      BY <2>1 DEF Same
    <2>3. QED
      BY <2>1, <2>2, SoundStays, TableStays, Stutters DEF CallInv
  <1>2. QED
    BY <1>1, CallerCall, PublishCall, SubscribeCall, WriteCall, ReadCall, ServerCall DEF Next

LEMMA CallInvariant == Spec => []CallInv
  <1>1. Init => CallInv
    BY TypeInit, CallInit DEF CallInv
  <1>2. TypeOK /\ Pointed /\ (TypeOK /\ Pointed)' /\ CallInv /\ [Next]_vars => CallInv'
    BY CallNext DEF CallInv
  <1>3. QED
    BY <1>1, <1>2, TypeCorrect, PTL DEF Spec

(***************************************************************************)
(* The callback of a PUBLISH runs at most once and reports success only    *)
(* for what the server has executed, in every interleaving of the handlers *)
(* and with every loss of the connection: the list of callbacks is emptied *)
(* before its entry runs (__redisShiftCallback), and a command leaves the  *)
(* output buffer of its connection once.                                   *)
(***************************************************************************)
THEOREM ConnectionImplementsAsyncCall == Spec => ImplementsAsyncCall
  <1>1. Init => AsyncCalls!CallInit
    BY CallInit
  <1>2. CallInv /\ [Next]_vars => CallStep
    BY CallNext
  <1>3. QED
    BY <1>1, <1>2, CallInvariant, PTL
    DEF Spec, ImplementsAsyncCall, AsyncCalls!CallSpec, AsyncCalls!callVars, CallStep

-----------------------------------------------------------------------------

(***************************************************************************)
(* Scheduled writes: the flag and the source of the write handler.         *)
(***************************************************************************)

\* unsubscribeAll has filled the buffer of c and is about to schedule it.
Scheduled(c) == upc.at = "schedule" /\ table[upc.i] = c

\* Beside the handler isWriting tells the state of the source; when the
\* handler takes the flag down the buffer is empty.
Writes(c) ==
  /\ life[c] = "none" => wpc[c] = "idle"
  /\ life[c] = "live" /\ fault[c] = "none" /\ "overlap" \notin strain[c] =>
       /\ writeSrc[c] \in {"active", "suspended"}
       /\ wpc[c] = "idle" => (isWriting[c] <=> writeSrc[c] = "active")
       /\ wpc[c] # "idle" => writeSrc[c] = "active"
       /\ wpc[c] \in {"writing", "done"} => isWriting[c]
       /\ wpc[c] = "unflagged" => ~isWriting[c]
       /\ wpc[c] \in {"done", "unflagged"} => obuf[c] = <<>>
       /\ obuf[c] # <<>> => writeSrc[c] = "active" \/ Scheduled(c)

\* What Writes(d) is about stays as it is, or d is strained or has a fault.
WritesSame(d) ==
  /\ life'[d] = life[d] /\ wpc'[d] = wpc[d]
  /\ strain[d] \subseteq strain'[d]
  /\ fault'[d] = "none" /\ "overlap" \notin strain'[d] =>
       /\ fault[d] = "none" /\ isWriting'[d] = isWriting[d]
       /\ writeSrc'[d] = writeSrc[d] /\ obuf'[d] = obuf[d]

LEMMA WritesStay ==
  ASSUME NEW d, Writes(d), WritesSame(d), Scheduled(d) => Scheduled(d)'
  PROVE  Writes(d)'
  BY DEF Writes, WritesSame, Scheduled

LEMMA StrainGrows ==
  ASSUME TypeOK, NEW c \in Conn, NEW s, NEW cond \in BOOLEAN,
         UNCHANGED strain \/ Strained(c, s) \/ StrainedIf(cond, c, s)
  PROVE  \A d \in Conn : strain[d] \subseteq strain'[d] /\ (d # c => strain'[d] = strain[d])
  <1>1. strain \in [Conn -> SUBSET Strain]
    BY DEF TypeOK
  <1>2. UNCHANGED strain \/ strain' = [strain EXCEPT ![c] = strain[c] \cup {s}]
    BY DEF Strained, StrainedIf
  <1>3. QED
    BY <1>1, <1>2

LEMMA StrainMarks ==
  ASSUME TypeOK, NEW c \in Conn, NEW s, Strained(c, s)
  PROVE  s \in strain'[c] /\ s \in Allowed
  <1>1. strain \in [Conn -> SUBSET Strain]
    BY DEF TypeOK
  <1>2. QED
    BY <1>1 DEF Strained

LEMMA WritesFails ==
  ASSUME TypeOK, NEW c \in Conn, NEW f \in Fault \ {"none"}, Fails(c, f), NEW s,
         UNCHANGED strain \/ Strained(c, s), Running
  PROVE  \A d \in Conn : WritesSame(d)
  <1>1. /\ UNCHANGED <<life, wpc, isWriting, writeSrc, obuf>> /\ fault' = [fault EXCEPT ![c] = f]
    BY DEF Fails, contextVars, sourceVars, handlerVars
  <1>2. fault \in [Conn -> Fault] /\ \A d \in Conn : fault[d] = "none"
    BY DEF TypeOK, Running
  <1>3. \A d \in Conn : strain[d] \subseteq strain'[d]
    BY StrainGrows
  <1>4. QED
    BY <1>1, <1>2, <1>3 DEF WritesSame, Fault

LEMMA WritesCaller ==
  ASSUME TypeOK, Pointed, Running, \A d \in Conn : Writes(d), Caller
  PROVE  \A d \in Conn : Writes(d)'
  <1> USE DEF contextVars, sourceVars, handlerVars, historyVars
  <1>1. /\ table \in Seq(Conn) /\ upc.i \in Nat /\ upc.i > 0 /\ Len(table) \in Nat
        /\ upc \in [at : {"idle", "append", "schedule", "clear"}, i : Nat]
        /\ upc.at = "schedule" => upc.i <= Len(table)
    BY DEF TypeOK, Pointed
  <1>2. CASE UnsubscribeAll \/ UnsubscribeEnds \/ UnsubscribeClear
    <2>1. upc.at # "schedule" /\ UNCHANGED <<life, wpc, isWriting, writeSrc, obuf, strain, fault>>
      BY <1>2 DEF UnsubscribeAll, UnsubscribeEnds, UnsubscribeClear
    <2>2. \A d \in Conn : WritesSame(d) /\ ~Scheduled(d)
      BY <2>1 DEF WritesSame, Scheduled
    <2>3. QED
      BY <2>2, WritesStay
  <1>3. CASE UnsubscribeAppend
    <2>0. PICK c \in Conn : c = table[upc.i]
      BY <1>1, <1>3 DEF UnsubscribeAppend
    <2>1. upc.at = "append" /\ \A d \in Conn : ~Scheduled(d)
      BY <1>3 DEF UnsubscribeAppend, Scheduled
    <2>2. CASE Fails(c, "staleEntry") /\ UNCHANGED strain
      <3>1. \A d \in Conn : WritesSame(d)
        BY <2>1, <2>2, WritesFails DEF Fault
      <3>2. QED
        BY <2>1, <3>1, WritesStay
    <2>3. CASE UNCHANGED <<life, wpc, isWriting, writeSrc, obuf, strain, fault>>
      <3>1. \A d \in Conn : WritesSame(d)
        BY <2>3 DEF WritesSame
      <3>2. QED
        BY <2>1, <3>1, WritesStay
    <2>4. CASE /\ life[c] = "live" /\ obuf' = [obuf EXCEPT ![c] = Append(@, "UNSUBSCRIBE")]
               /\ upc' = [upc EXCEPT !.at = "schedule"]
               /\ StrainedIf(rpc[c] # "idle" \/ wpc[c] # "idle", c, "overlap")
               /\ UNCHANGED <<life, wpc, isWriting, writeSrc, table, fault>>
      <3>1. \A d \in Conn : strain[d] \subseteq strain'[d]
        BY <2>1, <2>4, StrainGrows
      <3>2. ASSUME NEW d \in Conn, d # c PROVE Writes(d)'
        <4>1. WritesSame(d)
          BY <2>4, <3>1, <3>2 DEF WritesSame, TypeOK
        <4>2. QED
          BY <2>1, <4>1, WritesStay
      <3>3. Scheduled(c)'
        BY <1>1, <2>0, <2>4 DEF Scheduled
      <3>4. "overlap" \notin strain'[c] => wpc[c] = "idle"
        BY <2>4, StrainMarks DEF StrainedIf
      <3>5. Writes(c)'
        <4>1. Writes(c) /\ strain[c] \subseteq strain'[c]
          BY <3>1
        <4>2. QED
          BY <2>4, <3>3, <3>4, <4>1 DEF Writes
      <3>6. QED
        BY <3>2, <3>5
    <2>5. QED
      BY <1>3, <2>0, <2>2, <2>3, <2>4 DEF UnsubscribeAppend
  <1>4. CASE UnsubscribeSchedule
    <2>0. PICK c \in Conn : c = table[upc.i]
      BY <1>1, <1>4 DEF UnsubscribeSchedule
    <2>1. upc.at = "schedule"
      BY <1>4 DEF UnsubscribeSchedule
    <2>2. CASE \E f \in Fault \ {"none"} : Fails(c, f) /\ Strained(c, "overlap")
      <3>1. \A d \in Conn : WritesSame(d)
        BY <2>1, <2>2, WritesFails
      <3>2. UNCHANGED <<upc, table>>
        BY <2>2 DEF Fails, callerVars
      <3>3. QED
        BY <3>1, <3>2, WritesStay DEF Scheduled
    <2>3. CASE /\ life[c] = "live" /\ ~OverResumes(c) /\ AddWrite(c)
               /\ StrainedIf(rpc[c] # "idle" \/ wpc[c] # "idle", c, "overlap")
               /\ UNCHANGED <<life, wpc, obuf, fault>>
      <3>1. \A d \in Conn : strain[d] \subseteq strain'[d]
        BY <2>1, <2>3, StrainGrows
      <3>2. ASSUME NEW d \in Conn, d # c PROVE Writes(d)'
        <4>1. WritesSame(d)
          BY <2>3, <3>1, <3>2 DEF WritesSame, AddWrite, TypeOK
        <4>2. ~Scheduled(d)
          BY <2>0, <3>2 DEF Scheduled
        <4>3. QED
          BY <4>1, <4>2, WritesStay
      <3>3. "overlap" \notin strain'[c] => wpc[c] = "idle"
        BY <2>3, StrainMarks DEF StrainedIf
      <3>4. Writes(c)'
        <4>1. Writes(c) /\ strain[c] \subseteq strain'[c]
          BY <3>1
        <4>2. isWriting \in [Conn -> BOOLEAN] /\ writeSrc \in [Conn -> Source]
          BY DEF TypeOK
        <4>3. \/ isWriting'[c] = isWriting[c] /\ writeSrc'[c] = writeSrc[c]
                 /\ (isWriting[c] \/ writeSrc[c] \in {"none", "cancelled"})
              \/ isWriting'[c] /\ writeSrc'[c] = "active"
          BY <2>3, <4>2 DEF AddWrite, Droppable
        <4>4. QED
          BY <2>3, <3>3, <4>1, <4>3 DEF Writes
      <3>5. QED
        BY <3>2, <3>4
    <2>4. QED
      BY <1>4, <2>0, <2>2, <2>3 DEF UnsubscribeSchedule, Fault
  <1>5. QED
    BY <1>2, <1>3, <1>4 DEF Caller

LEMMA WritesOpen ==
  ASSUME TypeOK, Pointed, \A d \in Conn : Writes(d), NEW c \in Conn, Publish(c) \/ Subscribe(c)
  PROVE  \A d \in Conn : Writes(d)'
  <1>1. /\ life[c] = "none" /\ life' = [life EXCEPT ![c] = "live"]
        /\ \E q : obuf' = [obuf EXCEPT ![c] = q]
        /\ isWriting' = [isWriting EXCEPT ![c] = TRUE] /\ writeSrc' = [writeSrc EXCEPT ![c] = "active"]
        /\ UNCHANGED <<wpc, upc, fault>>
    BY DEF Publish, Subscribe, Open, handlerVars
  <1>2. \A d \in Conn : strain[d] \subseteq strain'[d]
    BY StrainGrows DEF Publish, Subscribe
  <1>3. ASSUME NEW d \in Conn, Scheduled(d) PROVE Scheduled(d)'
    <2>1. table' = table \/ table' = Append(table, c)
      BY DEF Publish, Subscribe
    <2>2. table \in Seq(Conn) /\ upc.i \in 1..Len(table)
      BY <1>3 DEF TypeOK, Pointed, Scheduled
    <2>3. QED
      BY <1>1, <1>3, <2>1, <2>2 DEF Scheduled
  <1>4. ASSUME NEW d \in Conn, d # c PROVE Writes(d)'
    <2>1. WritesSame(d)
      BY <1>1, <1>2, <1>4 DEF WritesSame, TypeOK
    <2>2. QED
      BY <1>3, <2>1, WritesStay
  <1>5. Writes(c)'
    BY <1>1 DEF Writes, TypeOK
  <1>6. QED
    BY <1>4, <1>5

\* Steps of a connection that leave the caller alone.
LEMMA WritesAt ==
  ASSUME NEW c \in Conn, \A d \in Conn : Writes(d), UNCHANGED callerVars,
         \A d \in Conn : d # c => WritesSame(d), WritesSame(c) \/ Writes(c)'
  PROVE  \A d \in Conn : Writes(d)'
  BY WritesStay DEF callerVars, Scheduled

LEMMA WritesUntouched ==
  ASSUME TypeOK, NEW c \in Conn, \A d \in Conn : Writes(d), UNCHANGED callerVars,
         UNCHANGED <<life, wpc, isWriting, writeSrc, obuf, fault>>,
         \A d \in Conn : strain[d] \subseteq strain'[d]
  PROVE  \A d \in Conn : Writes(d)'
  BY WritesAt DEF WritesSame

LEMMA WritesFault ==
  ASSUME TypeOK, Running, NEW c \in Conn, \A d \in Conn : Writes(d), NEW f \in Fault \ {"none"},
         Fails(c, f), \A d \in Conn : strain[d] \subseteq strain'[d]
  PROVE  \A d \in Conn : Writes(d)'
  <1>1. /\ UNCHANGED <<life, wpc, isWriting, writeSrc, obuf>> /\ fault' = [fault EXCEPT ![c] = f]
        /\ UNCHANGED callerVars
    BY DEF Fails, contextVars, sourceVars, handlerVars
  <1>2. fault \in [Conn -> Fault] /\ \A d \in Conn : fault[d] = "none"
    BY DEF TypeOK, Running
  <1>3. \A d \in Conn : WritesSame(d)
    BY <1>1, <1>2 DEF WritesSame
  <1>4. QED
    BY <1>1, <1>3, WritesAt

LEMMA WritesRelease ==
  ASSUME TypeOK, Running, NEW c \in Conn, \A d \in Conn : Writes(d),
         ReleaseByRead(c) \/ ReleaseByWrite(c)
  PROVE  \A d \in Conn : Writes(d)'
  <1>1. UNCHANGED strain
    BY DEF ReleaseByRead, ReleaseByWrite
  <1>2. CASE Fails(c, "useAfterFree") \/ Fails(c, "releasedSuspended")
    BY <1>1, <1>2, WritesFault DEF Fault
  <1>3. CASE /\ life' = [life EXCEPT ![c] = "freed"] /\ obuf' = [obuf EXCEPT ![c] = <<>>]
             /\ isWriting' = [isWriting EXCEPT ![c] = FALSE]
             /\ writeSrc' = [writeSrc EXCEPT ![c] = "cancelled"]
             /\ wpc' = [wpc EXCEPT ![c] = "idle"] /\ UNCHANGED <<callerVars, fault>>
    <2>1. \A d \in Conn : d # c => WritesSame(d)
      BY <1>1, <1>3 DEF WritesSame, TypeOK
    <2>2. Writes(c)'
      BY <1>3 DEF Writes, TypeOK
    <2>3. QED
      BY <1>3, <2>1, <2>2, WritesAt
  <1>4. QED
    BY <1>2, <1>3 DEF ReleaseByRead, ReleaseByWrite, Release

LEMMA WritesTearByRead ==
  ASSUME TypeOK, Running, NEW c \in Conn, \A d \in Conn : Writes(d), NEW f, TearByRead(c, f),
         \A d \in Conn : strain[d] \subseteq strain'[d]
  PROVE  \A d \in Conn : Writes(d)'
  <1>1. CASE Fails(c, "overResume")
    BY <1>1, WritesFault DEF Fault
  <1>2. CASE ~Fails(c, "overResume")
    <2>1. /\ ~OverResumes(c) /\ AddWrite(c)
          /\ UNCHANGED <<life, obuf, wpc, callerVars, fault>>
      BY <1>2 DEF TearByRead, Abandon
    <2>2. isWriting \in [Conn -> BOOLEAN] /\ writeSrc \in [Conn -> Source]
      BY DEF TypeOK
    <2>3. \A d \in Conn : d # c => WritesSame(d)
      BY <2>1, <2>2 DEF WritesSame, AddWrite
    <2>4. Writes(c)'
      <3>1. Writes(c) /\ strain[c] \subseteq strain'[c]
        OBVIOUS
      <3>2. \/ isWriting'[c] = isWriting[c] /\ writeSrc'[c] = writeSrc[c]
            \/ isWriting'[c] /\ writeSrc'[c] = "active"
        BY <2>1, <2>2 DEF AddWrite
      <3>3. isWriting[c] \/ writeSrc[c] # "active"
        BY <2>1 DEF OverResumes
      <3>4. QED
        BY <2>1, <3>1, <3>2, <3>3 DEF Writes, callerVars, Scheduled
    <2>5. QED
      BY <2>1, <2>3, <2>4, WritesAt
  <1>3. QED
    BY <1>1, <1>2

LEMMA WritesRead ==
  ASSUME TypeOK, Running, NEW c \in Conn, \A d \in Conn : Writes(d), ReadHandler(c)
  PROVE  \A d \in Conn : Writes(d)'
  <1> USE DEF contextVars, sourceVars, handlerVars, historyVars
  <1>1. CASE ReadFails(c)
    BY <1>1, StrainGrows, WritesTearByRead DEF ReadFails
  <1>2. CASE ReadIn(c)
    BY <1>2, StrainGrows, WritesUntouched DEF ReadIn
  <1>3. CASE ProcessRegular(c)
    BY <1>3, WritesUntouched DEF ProcessRegular
  <1>4. CASE ProcessError(c)
    BY <1>4, WritesTearByRead DEF ProcessError
  <1>5. CASE ProcessSubscriber(c)
    <2>1. UNCHANGED strain
      BY <1>5 DEF ProcessSubscriber
    <2>2. CASE Fails(c, "assertion") \/ Fails(c, "useAfterFree")
      BY <2>1, <2>2, WritesFault DEF Fault
    <2>3. CASE UNCHANGED <<life, obuf, sourceVars, handlerVars, callerVars, fault>>
      BY <2>1, <2>3, WritesUntouched
    <2>4. QED
      BY <1>5, <2>2, <2>3 DEF ProcessSubscriber
  <1>6. CASE ProcessEnds(c)
    BY <1>6, WritesUntouched DEF ProcessEnds
  <1>7. CASE Disconnect(c)
    <2>1. UNCHANGED strain
      BY <1>7 DEF Disconnect
    <2>2. CASE Fails(c, "assertion")
      BY <2>1, <2>2, WritesFault DEF Fault
    <2>3. CASE TearByRead(c, {})
      BY <2>1, <2>3, WritesTearByRead
    <2>4. QED
      BY <1>7, <2>2, <2>3 DEF Disconnect
  <1>8. CASE ReleaseByRead(c)
    BY <1>8, WritesRelease
  <1>9. QED
    BY <1>1, <1>2, <1>3, <1>4, <1>5, <1>6, <1>7, <1>8 DEF ReadHandler

LEMMA WritesWrite ==
  ASSUME TypeOK, Running, NEW c \in Conn, \A d \in Conn : Writes(d), WriteHandler(c)
  PROVE  \A d \in Conn : Writes(d)'
  <1> USE DEF contextVars, sourceVars, handlerVars, historyVars
  <1>1. /\ wpc \in [Conn -> {"idle", "writing", "done", "unflagged", "tearing"}]
        /\ isWriting \in [Conn -> BOOLEAN] /\ writeSrc \in [Conn -> Source]
        /\ obuf \in [Conn -> Seq(Command)] /\ Writes(c)
    BY DEF TypeOK
  <1>2. CASE WriteFails(c)
    <2>1. /\ Writable(c) /\ wpc' = [wpc EXCEPT ![c] = "tearing"]
          /\ UNCHANGED <<life, obuf, isWriting, writeSrc, callerVars, fault>>
      BY <1>2 DEF WriteFails, TearByWrite, Abandon
    <2>2. \A d \in Conn : strain[d] \subseteq strain'[d]
      BY <1>2, StrainGrows DEF WriteFails
    <2>3. \A d \in Conn : d # c => WritesSame(d)
      BY <1>1, <2>1, <2>2 DEF WritesSame
    <2>4. Writes(c)'
      BY <1>1, <2>1, <2>2 DEF Writes, Writable
    <2>5. QED
      BY <2>1, <2>3, <2>4, WritesAt
  <1>3. CASE WriteOut(c)
    <2>1. /\ Writable(c) /\ wpc' = [wpc EXCEPT ![c] = "writing"]
          /\ UNCHANGED <<life, obuf, isWriting, writeSrc, callerVars, fault>>
      BY <1>3 DEF WriteOut
    <2>2. \A d \in Conn : strain[d] \subseteq strain'[d]
      BY <1>3, StrainGrows DEF WriteOut
    <2>3. \A d \in Conn : d # c => WritesSame(d)
      BY <1>1, <2>1, <2>2 DEF WritesSame
    <2>4. Writes(c)'
      BY <1>1, <2>1, <2>2 DEF Writes, Writable
    <2>5. QED
      BY <2>1, <2>3, <2>4, WritesAt
  <1>4. CASE WriteTrim(c)
    <2>1. PICK rest :
            /\ obuf' = [obuf EXCEPT ![c] = rest] /\ wpc[c] = "writing"
            /\ \/ rest = <<>> /\ wpc' = [wpc EXCEPT ![c] = "done"] /\ UNCHANGED <<isWriting, writeSrc>>
               \/ wpc' = [wpc EXCEPT ![c] = "idle"] /\ AddWrite(c)
            /\ UNCHANGED <<life, strain, callerVars, fault>>
      BY <1>4 DEF WriteTrim
    <2>2. \A d \in Conn : d # c => WritesSame(d)
      BY <1>1, <2>1 DEF WritesSame, AddWrite
    <2>3. Writes(c)'
      <3>1. isWriting[c] => isWriting'[c] = isWriting[c] /\ writeSrc'[c] = writeSrc[c]
        BY <2>1 DEF AddWrite
      <3>2. QED
        BY <1>1, <2>1, <3>1 DEF Writes
    <2>4. QED
      BY <2>1, <2>2, <2>3, WritesAt
  <1>5. CASE WriteUnflag(c)
    <2>1. /\ wpc[c] = "done" /\ isWriting' = [isWriting EXCEPT ![c] = FALSE]
          /\ wpc' = [wpc EXCEPT ![c] = "unflagged"]
          /\ UNCHANGED <<life, obuf, writeSrc, callerVars, fault, strain>>
      BY <1>5 DEF WriteUnflag
    <2>2. \A d \in Conn : d # c => WritesSame(d)
      BY <1>1, <2>1 DEF WritesSame
    <2>3. Writes(c)'
      BY <1>1, <2>1 DEF Writes
    <2>4. QED
      BY <2>1, <2>2, <2>3, WritesAt
  <1>6. CASE WriteSuspend(c)
    <2>1. /\ wpc[c] = "unflagged" /\ wpc' = [wpc EXCEPT ![c] = "idle"]
          /\ writeSrc' = [writeSrc EXCEPT ![c] = IF @ = "active" THEN "suspended" ELSE @]
          /\ UNCHANGED <<life, obuf, isWriting, callerVars, fault, strain>>
      BY <1>6 DEF WriteSuspend
    <2>2. \A d \in Conn : d # c => WritesSame(d)
      BY <1>1, <2>1 DEF WritesSame
    <2>3. Writes(c)'
      BY <1>1, <2>1 DEF Writes
    <2>4. QED
      BY <2>1, <2>2, <2>3, WritesAt
  <1>7. CASE ReleaseByWrite(c)
    BY <1>7, WritesRelease
  <1>8. QED
    BY <1>2, <1>3, <1>4, <1>5, <1>6, <1>7 DEF WriteHandler

LEMMA WritesServer ==
  ASSUME TypeOK, NEW c \in Conn, \A d \in Conn : Writes(d), Answer(c) \/ Close(c)
  PROVE  \A d \in Conn : Writes(d)'
  <1>1. UNCHANGED <<life, wpc, isWriting, writeSrc, obuf, fault, callerVars>>
    BY DEF Answer, Accept, Refuse, Execute, Reject, Close, ServerKeeps, contextVars, sourceVars,
           handlerVars
  <1>2. \A d \in Conn : strain[d] \subseteq strain'[d]
    BY StrainGrows DEF Answer, Accept, Refuse, Execute, Reject, Close
  <1>3. QED
    BY <1>1, <1>2, WritesUntouched

LEMMA WritesStep ==
  ASSUME TypeOK, Pointed, \A d \in Conn : Writes(d), [Next]_vars
  PROVE  \A d \in Conn : Writes(d)'
  <1>1. CASE UNCHANGED vars
    <2>1. UNCHANGED <<life, wpc, isWriting, writeSrc, obuf, fault, strain, callerVars>>
      BY <1>1 DEF vars, contextVars, sourceVars, handlerVars, historyVars
    <2>2. QED
      BY <2>1 DEF Writes, callerVars, Scheduled
  <1>2. QED
    BY <1>1, WritesCaller, WritesOpen, WritesRead, WritesWrite, WritesServer DEF Next

(***************************************************************************)
(* "Always schedule a write when the write buffer is non-empty"            *)
(* (async.c:615), for every connection whose buffer no second thread has   *)
(* filled while a handler was at it, whatever else happens to it.          *)
(***************************************************************************)
THEOREM WritesAreScheduled == Spec => []WriteScheduled
  <1>1. Init => \A d \in Conn : Writes(d)
    BY DEF Init, Writes
  <1>2. TypeOK /\ Pointed /\ (\A d \in Conn : Writes(d)) /\ [Next]_vars => (\A d \in Conn : Writes(d))'
    BY WritesStep
  <1>3. (\A d \in Conn : Writes(d)) => WriteScheduled
    BY DEF Writes, WriteScheduled, Scheduled
  <1>4. QED
    BY <1>1, <1>2, <1>3, TypeCorrect, PTL DEF Spec

-----------------------------------------------------------------------------

(***************************************************************************)
(* Handlers run on a context in use.                                       *)
(***************************************************************************)

Alive(c) == rpc[c] # "idle" \/ wpc[c] # "idle" => life[c] = "live"

\* Only the handlers of c move, and c is in use when they have.
LEMMA AliveAt ==
  ASSUME TypeOK, NEW c \in Conn, \A d \in Conn : Alive(d), life' = life, life[c] = "live",
         \E p : rpc' = [rpc EXCEPT ![c] = p], \E p : wpc' = [wpc EXCEPT ![c] = p]
  PROVE  \A d \in Conn : Alive(d)'
  <1>1. \A d \in Conn : d # c => rpc'[d] = rpc[d] /\ wpc'[d] = wpc[d]
    BY DEF TypeOK
  <1>2. QED
    BY <1>1 DEF Alive

LEMMA AliveStays ==
  ASSUME \A d \in Conn : Alive(d), UNCHANGED <<life, handlerVars>>
  PROVE  \A d \in Conn : Alive(d)'
  BY DEF Alive, handlerVars

LEMMA AliveRelease ==
  ASSUME TypeOK, NEW c \in Conn, \A d \in Conn : Alive(d), ReleaseByRead(c) \/ ReleaseByWrite(c)
  PROVE  \A d \in Conn : Alive(d)'
  <1>1. CASE \E f : Fails(c, f)
    BY <1>1, AliveStays DEF Fails, contextVars
  <1>2. CASE ~\E f : Fails(c, f)
    <2>1. /\ life' = [life EXCEPT ![c] = "freed"] /\ rpc' = [rpc EXCEPT ![c] = "idle"]
          /\ wpc' = [wpc EXCEPT ![c] = "idle"]
      BY <1>2 DEF ReleaseByRead, ReleaseByWrite, Release
    <2>2. \A d \in Conn : IF d = c THEN rpc'[d] = "idle" /\ wpc'[d] = "idle"
                          ELSE life'[d] = life[d] /\ rpc'[d] = rpc[d] /\ wpc'[d] = wpc[d]
      BY <2>1 DEF TypeOK
    <2>3. QED
      BY <2>2 DEF Alive
  <1>3. QED
    BY <1>1, <1>2

LEMMA AliveHandlers ==
  ASSUME TypeOK, NEW c \in Conn, \A d \in Conn : Alive(d), WriteHandler(c) \/ ReadHandler(c)
  PROVE  \A d \in Conn : Alive(d)'
  <1> USE DEF contextVars, historyVars
  <1>0. /\ rpc = [rpc EXCEPT ![c] = rpc[c]] /\ wpc = [wpc EXCEPT ![c] = wpc[c]]
    BY DEF TypeOK
  <1>1. CASE \E f : Fails(c, f)
    BY <1>1, AliveStays DEF Fails
  <1>2. ASSUME ~\E f : Fails(c, f), NEW f, TearByRead(c, f) \/ TearByWrite(c, f), life[c] = "live"
        PROVE  \A d \in Conn : Alive(d)'
    <2>1. /\ life' = life
          /\ \/ rpc' = [rpc EXCEPT ![c] = "tearing"] /\ wpc' = wpc
             \/ wpc' = [wpc EXCEPT ![c] = "tearing"] /\ rpc' = rpc
      BY <1>2 DEF TearByRead, TearByWrite, Abandon
    <2>2. \E p : rpc' = [rpc EXCEPT ![c] = p]
      BY <1>0, <2>1
    <2>3. \E p : wpc' = [wpc EXCEPT ![c] = p]
      BY <1>0, <2>1
    <2>4. QED
      BY <1>2, <2>1, <2>2, <2>3, AliveAt
  <1>3. CASE WriteFails(c) \/ ReadFails(c)
    BY <1>1, <1>2, <1>3 DEF WriteFails, ReadFails, Writable, Readable
  <1>4. CASE WriteOut(c) \/ WriteTrim(c) \/ WriteUnflag(c) \/ WriteSuspend(c)
    <2>1. life[c] = "live" /\ UNCHANGED <<life, rpc>>
      BY <1>4 DEF WriteOut, Writable, WriteTrim, WriteUnflag, WriteSuspend, Alive
    <2>2. \E p : wpc' = [wpc EXCEPT ![c] = p]
      BY <1>4 DEF WriteOut, WriteTrim, WriteUnflag, WriteSuspend
    <2>3. \E p : rpc' = [rpc EXCEPT ![c] = p]
      BY <1>0, <2>1
    <2>4. QED
      BY <2>1, <2>2, <2>3, AliveAt
  <1>5. CASE ReadIn(c) \/ ProcessEnds(c)
    <2>1. life[c] = "live" /\ UNCHANGED <<life, wpc>>
      BY <1>5 DEF ReadIn, Readable, ProcessEnds, Alive
    <2>2. \E p : rpc' = [rpc EXCEPT ![c] = p]
      BY <1>5 DEF ReadIn, ProcessEnds
    <2>3. \E p : wpc' = [wpc EXCEPT ![c] = p]
      BY <1>0, <2>1
    <2>4. QED
      BY <2>1, <2>2, <2>3, AliveAt
  <1>6. CASE ProcessRegular(c) \/ ProcessSubscriber(c)
    BY <1>1, <1>6, AliveStays DEF ProcessRegular, ProcessSubscriber
  <1>7. CASE ProcessError(c) \/ Disconnect(c)
    <2>1. rpc[c] = "processing" /\ ((\E f : Fails(c, f)) \/ (\E f : TearByRead(c, f)))
      BY <1>7 DEF ProcessError, Disconnect
    <2>2. QED
      BY <1>1, <1>2, <2>1 DEF Alive
  <1>8. QED
    BY <1>3, <1>4, <1>5, <1>6, <1>7, AliveRelease DEF WriteHandler, ReadHandler

LEMMA AliveStep ==
  ASSUME TypeOK, \A d \in Conn : Alive(d), [Next]_vars
  PROVE  \A d \in Conn : Alive(d)'
  <1>1. CASE UNCHANGED vars
    BY <1>1, AliveStays DEF vars, contextVars
  <1>2. CASE Caller
    BY <1>2, AliveStays
    DEF Caller, UnsubscribeAll, UnsubscribeAppend, UnsubscribeSchedule, UnsubscribeEnds,
        UnsubscribeClear, Fails, contextVars
  <1>3. ASSUME NEW c \in Conn, Publish(c) \/ Subscribe(c) PROVE \A d \in Conn : Alive(d)'
    <2>1. life' = [life EXCEPT ![c] = "live"] /\ UNCHANGED handlerVars
      BY <1>3 DEF Publish, Subscribe, Open
    <2>2. \A d \in Conn : life[d] = "live" => life'[d] = "live"
      BY <2>1 DEF TypeOK
    <2>3. QED
      BY <2>1, <2>2 DEF Alive, handlerVars
  <1>4. ASSUME NEW c \in Conn, Answer(c) \/ Close(c) PROVE \A d \in Conn : Alive(d)'
    BY <1>4, AliveStays
    DEF Answer, Accept, Refuse, Execute, Reject, Close, ServerKeeps, contextVars
  <1>5. QED
    BY <1>1, <1>2, <1>3, <1>4, AliveHandlers DEF Next

-----------------------------------------------------------------------------

(***************************************************************************)
(* Listeners: a SUBSCRIBE from the output buffer to the server, and the    *)
(* UNSUBSCRIBE that follows it.                                            *)
(***************************************************************************)

First(q, x) == q # <<>> /\ q[1] = x

OnlyFirst(q, x) == \A i \in 2..Len(q) : q[i] # x

\* The server sends messages to c, or will when it gets to the SUBSCRIBE.
ToHear(c) ==
  \/ c \in heard
  \/ First(toServer[c], "SUBSCRIBE")
  \/ handed[c] = 0 /\ First(obuf[c], "SUBSCRIBE")

Listening(c) == life[c] = "live" /\ sock[c] \in {"connecting", "open"} /\ ToHear(c)

\* Nothing that ends the subscription has come or is coming.
Tuned(c) ==
  /\ "subscribed" \in flags[c] /\ "disconnecting" \notin flags[c] /\ "error" \notin flags[c]
  /\ rbuf[c] \in Seq({"subscribed", "message"}) /\ inbound[c] \in Seq({"subscribed", "message"})

\* unsubscribeAll has still to come to c, if it runs or is called again.
Ahead(c) ==
  \E i \in 1..Len(table) :
    /\ table[i] = c
    /\ \/ upc.at = "idle"
       \/ upc.at = "append" /\ i >= upc.i
       \/ upc.at = "schedule" /\ i > upc.i

\* An UNSUBSCRIBE that the server has not got to.
Coming(c) ==
  \/ \E i \in 1..Len(toServer[c]) : toServer[c][i] = "UNSUBSCRIBE"
  \/ \E i \in 1..Len(obuf[c]) : i > handed[c] /\ obuf[c][i] = "UNSUBSCRIBE"

\* The commands are sent once and in their order.
Ordered(c) ==
  /\ OnlyFirst(obuf[c], "SUBSCRIBE") /\ OnlyFirst(toServer[c], "SUBSCRIBE")
  /\ handed[c] = 0 /\ First(obuf[c], "SUBSCRIBE") => toServer[c] = <<>> /\ c \notin heard
  /\ First(toServer[c], "SUBSCRIBE") => c \notin heard
  /\ c \in heard => life[c] = "live" /\ sock[c] = "open"
  /\ toServer[c] # <<>> => sock[c] = "open" \/ life[c] = "freed"
  /\ handed[c] # 0 /\ "overlap" \notin strain[c] => handed[c] = Len(obuf[c])

Parting(c) == Ahead(c) \/ Coming(c) \/ "late" \in strain[c] \/ "overlap" \in strain[c]

Hears(c) ==
  /\ life[c] = "none" => flags[c] = {}
  /\ kind[c] = "subscribe" => Ordered(c) /\ (Listening(c) => Tuned(c) /\ Parting(c))

\* The queues of d stay as they are.
Queues(d) ==
  /\ kind'[d] = kind[d] /\ life'[d] = life[d] /\ sock'[d] = sock[d]
  /\ obuf'[d] = obuf[d] /\ toServer'[d] = toServer[d] /\ handed'[d] = handed[d]
  /\ (d \in heard' <=> d \in heard)
  /\ strain[d] \subseteq strain'[d]

LEMMA HearsStay ==
  ASSUME NEW d, Hears(d), Queues(d),
         life[d] = "none" => flags'[d] = flags[d],
         kind[d] = "subscribe" /\ Listening(d) => Tuned(d)' /\ (Ahead(d) => Parting(d)')
  PROVE  Hears(d)'
  <1>1. Ordered(d) => Ordered(d)'
    BY DEF Queues, Ordered, First, OnlyFirst
  <1>2. Listening(d)' => Listening(d)
    BY DEF Queues, Listening, ToHear, First
  <1>3. ASSUME Parting(d), Ahead(d) => Parting(d)' PROVE Parting(d)'
    BY <1>3 DEF Queues, Parting, Coming
  <1>4. QED
    BY <1>1, <1>2, <1>3 DEF Hears, Queues

\* A step that does not concern d at all, or sends it a message.
HearsSame(d) ==
  /\ Queues(d) /\ flags'[d] = flags[d] /\ rbuf'[d] = rbuf[d]
  /\ inbound'[d] \in {inbound[d], inbound[d] \o <<"message">>}

LEMMA HearsOther ==
  ASSUME NEW d, Hears(d), HearsSame(d), Ahead(d) => Ahead(d)'
  PROVE  Hears(d)'
  <1>1. Tuned(d) => Tuned(d)'
    <2>1. ASSUME NEW q \in Seq({"subscribed", "message"})
          PROVE  q \o <<"message">> \in Seq({"subscribed", "message"})
      BY <2>1
    <2>2. QED
      BY <2>1 DEF Tuned, HearsSame
  <1>2. QED
    BY <1>1, HearsStay DEF HearsSame, Hears, Parting

LEMMA HearsFails ==
  ASSUME NEW c, NEW f, Fails(c, f), \A d \in Conn : Hears(d),
         \A d \in Conn : strain[d] \subseteq strain'[d]
  PROVE  \A d \in Conn : Hears(d)'
  <1>1. /\ UNCHANGED <<kind, life, flags, sock, obuf, rbuf, inbound, toServer, handed, heard, table, upc>>
    BY DEF Fails, contextVars, handlerVars, serverVars, callerVars
  <1>2. ASSUME NEW d \in Conn PROVE HearsSame(d) /\ (Ahead(d) => Ahead(d)')
    BY <1>1 DEF HearsSame, Queues, Ahead
  <1>3. QED
    BY <1>2, HearsOther

\* Only the caller's place changes.
LEMMA HearsCallerMoves ==
  ASSUME \A d \in Conn : Hears(d), UNCHANGED <<contextVars, handlerVars, serverVars>>,
         \A d \in Conn : strain[d] \subseteq strain'[d],
         \A d \in Conn : kind[d] = "subscribe" /\ Listening(d) /\ Ahead(d) => Ahead(d)'
  PROVE  \A d \in Conn : Hears(d)'
  <1>1. UNCHANGED <<kind, life, flags, sock, obuf, rbuf, inbound, toServer, handed, heard>>
    BY DEF contextVars, handlerVars, serverVars
  <1>2. ASSUME NEW d \in Conn PROVE Queues(d) /\ (Tuned(d) => Tuned(d)')
    BY <1>1 DEF Queues, Tuned
  <1>3. QED
    BY <1>1, <1>2, HearsStay DEF Hears, Parting

LEMMA HearsCaller ==
  ASSUME CallInv, \A d \in Conn : Hears(d), Caller
  PROVE  \A d \in Conn : Hears(d)'
  <1> USE DEF historyVars
  <1>1. /\ table \in Seq(Conn) /\ upc.i \in Nat /\ upc.i > 0 /\ Len(table) \in Nat
        /\ upc \in [at : {"idle", "append", "schedule", "clear"}, i : Nat]
        /\ upc.at = "schedule" => upc.i <= Len(table)
    BY DEF CallInv, TypeOK, Pointed
  <1>2. CASE UnsubscribeAll \/ UnsubscribeEnds \/ UnsubscribeClear
    <2>1. UNCHANGED <<contextVars, handlerVars, serverVars, strain>>
      BY <1>2 DEF UnsubscribeAll, UnsubscribeEnds, UnsubscribeClear
    <2>2. ASSUME NEW d, Ahead(d) PROVE Ahead(d)'
      <3>1. CASE UnsubscribeAll
        BY <1>1, <2>2, <3>1 DEF UnsubscribeAll, Ahead
      <3>2. CASE UnsubscribeEnds \/ UnsubscribeClear
        BY <1>1, <2>2, <3>2 DEF UnsubscribeEnds, UnsubscribeClear, Ahead
      <3>3. QED
        BY <1>2, <3>1, <3>2
    <2>3. QED
      BY <2>1, <2>2, HearsCallerMoves
  <1>3. CASE UnsubscribeAppend
    <2>1. PICK c \in Conn : c = table[upc.i]
      BY <1>1, <1>3 DEF UnsubscribeAppend
    <2>2. /\ upc.at = "append" /\ kind[c] = "subscribe"
      BY <1>1, <1>3, <2>1 DEF UnsubscribeAppend, CallInv, TableOfSubscribers
    <2>3. CASE Fails(c, "staleEntry") /\ UNCHANGED strain
      BY <2>3, HearsFails
    <2>4. CASE /\ life[c] = "live" /\ ~Accepts(c) /\ upc' = [upc EXCEPT !.i = @ + 1]
               /\ UNCHANGED <<contextVars, handlerVars, table, serverVars, strain>>
      <3>1. ~Listening(c)
        BY <2>2, <2>4 DEF Hears, Tuned, Accepts
      <3>2. ASSUME NEW d, d # c, Ahead(d) PROVE Ahead(d)'
        BY <1>1, <2>1, <2>2, <2>4, <3>2 DEF Ahead
      <3>3. QED
        BY <2>4, <3>1, <3>2, HearsCallerMoves
    <2>5. CASE /\ life[c] = "live" /\ obuf' = [obuf EXCEPT ![c] = Append(obuf[c], "UNSUBSCRIBE")]
               /\ upc' = [upc EXCEPT !.at = "schedule"]
               /\ StrainedIf(rpc[c] # "idle" \/ wpc[c] # "idle", c, "overlap")
               /\ UNCHANGED <<kind, life, flags, rbuf, handlerVars, table, serverVars>>
      <3>1. obuf \in [Conn -> Seq(Command)] /\ handed[c] \in Nat
        BY DEF CallInv, TypeOK
      <3>2. /\ UNCHANGED <<kind, life, flags, sock, rbuf, inbound, toServer, handed, heard, table>>
            /\ \A d \in Conn : strain[d] \subseteq strain'[d]
        BY <2>5, StrainGrows DEF handlerVars, serverVars, CallInv
      <3>3. ASSUME NEW d \in Conn, d # c PROVE Hears(d)'
        <4>1. HearsSame(d)
          BY <2>5, <3>1, <3>2, <3>3 DEF HearsSame, Queues
        <4>2. Ahead(d) => Ahead(d)'
          BY <1>1, <2>1, <2>2, <2>5, <3>3 DEF Ahead
        <4>3. QED
          BY <4>1, <4>2, HearsOther
      <3>4. /\ obuf'[c] = Append(obuf[c], "UNSUBSCRIBE") /\ obuf[c] \in Seq(Command)
            /\ Len(obuf'[c]) = Len(obuf[c]) + 1 /\ obuf'[c][Len(obuf[c]) + 1] = "UNSUBSCRIBE"
            /\ \A j \in 1..Len(obuf[c]) : obuf'[c][j] = obuf[c][j]
        BY <2>5, <3>1
      <3>5. handed[c] # 0 => "overlap" \in strain'[c]
        BY <2>5, StrainMarks DEF CallInv, Sound, StrainedIf
      <3>6. /\ OnlyFirst(obuf[c], "SUBSCRIBE") => OnlyFirst(obuf[c], "SUBSCRIBE")'
            /\ First(obuf[c], "SUBSCRIBE")' => First(obuf[c], "SUBSCRIBE")
        BY <3>4 DEF OnlyFirst, First
      <3>7. Ordered(c) => Ordered(c)'
        <4>1. strain[c] \subseteq strain'[c]
          BY <3>2
        <4>2. UNCHANGED <<First(toServer[c], "SUBSCRIBE"), OnlyFirst(toServer[c], "SUBSCRIBE")>>
          BY <3>2 DEF First, OnlyFirst
        <4>3. QED
          BY <3>2, <3>5, <3>6, <4>1, <4>2 DEF Ordered
      <3>8. Listening(c)' => Listening(c)
        BY <3>2, <3>6 DEF Listening, ToHear, First
      <3>9. Tuned(c) => Tuned(c)'
        BY <3>2 DEF Tuned
      <3>10. Parting(c)'
        <4>1. CASE handed[c] = 0
          <5>1. Len(obuf[c]) + 1 \in 1..Len(obuf'[c]) /\ Len(obuf[c]) + 1 > handed'[c]
            BY <3>2, <3>4, <4>1
          <5>2. QED
            BY <3>4, <5>1 DEF Parting, Coming
        <4>2. QED
          BY <3>5, <4>1 DEF Parting
      <3>11. Hears(c)'
        BY <2>5, <3>2, <3>7, <3>8, <3>9, <3>10 DEF Hears
      <3>12. QED
        BY <3>3, <3>11
    <2>6. QED
      BY <1>3, <2>1, <2>3, <2>4, <2>5 DEF UnsubscribeAppend, contextVars
  <1>4. CASE UnsubscribeSchedule
    <2>1. PICK c \in Conn : c = table[upc.i]
      BY <1>1, <1>4 DEF UnsubscribeSchedule
    <2>2. \A d \in Conn : strain[d] \subseteq strain'[d]
      <3>1. TypeOK
        BY DEF CallInv
      <3>2. \/ Strained(c, "overlap")
            \/ StrainedIf(rpc[c] # "idle" \/ wpc[c] # "idle", c, "overlap")
        BY <1>4, <2>1 DEF UnsubscribeSchedule
      <3>3. QED
        BY <3>1, <3>2, StrainGrows
    <2>3. CASE \E f : Fails(c, f)
      BY <2>2, <2>3, HearsFails
    <2>4. CASE ~\E f : Fails(c, f)
      <3>1. /\ upc.at = "schedule" /\ upc' = [at |-> "append", i |-> upc.i + 1]
            /\ UNCHANGED <<contextVars, handlerVars, table, serverVars>>
        BY <1>4, <2>1, <2>4 DEF UnsubscribeSchedule
      <3>2. ASSUME NEW d, Ahead(d) PROVE Ahead(d)'
        BY <1>1, <3>1, <3>2 DEF Ahead
      <3>3. QED
        BY <2>2, <3>1, <3>2, HearsCallerMoves
    <2>5. QED
      BY <2>3, <2>4
  <1>5. QED
    BY <1>2, <1>3, <1>4 DEF Caller

LEMMA HearsOpen ==
  ASSUME CallInv, \A d \in Conn : Hears(d), NEW c \in Conn, Publish(c) \/ Subscribe(c)
  PROVE  \A d \in Conn : Hears(d)'
  <1>1. /\ life[c] = "none" /\ life' = [life EXCEPT ![c] = "live"]
        /\ UNCHANGED <<rbuf, handed, upc, toServer, inbound, heard>>
        /\ \E k : kind' = [kind EXCEPT ![c] = k]
        /\ \E q : obuf' = [obuf EXCEPT ![c] = q]
        /\ sock' = [sock EXCEPT ![c] = "connecting"]
    BY DEF Publish, Subscribe, Open, handlerVars
  <1>2. /\ life \in [Conn -> {"none", "live", "freed"}] /\ obuf \in [Conn -> Seq(Command)]
        /\ kind \in [Conn -> {"none", "publish", "subscribe"}] /\ flags \in [Conn -> SUBSET Flag]
        /\ sock \in [Conn -> {"none", "connecting", "open", "refused", "closed"}]
        /\ table \in Seq(Conn)
    BY DEF CallInv, TypeOK
  <1>3. \A d \in Conn : strain[d] \subseteq strain'[d]
    BY StrainGrows DEF Publish, Subscribe, CallInv
  <1>4. flags' = flags \/ flags' = [flags EXCEPT ![c] = flags[c] \cup {"subscribed"}]
    BY DEF Publish, Subscribe, Raise
  <1>5. table' = table \/ table' = Append(table, c)
    BY DEF Publish, Subscribe
  <1>6. ASSUME NEW d \in Conn, d # c PROVE Hears(d)'
    <2>1. HearsSame(d)
      <3>1. /\ kind'[d] = kind[d] /\ life'[d] = life[d] /\ sock'[d] = sock[d] /\ obuf'[d] = obuf[d]
            /\ flags'[d] = flags[d]
        BY <1>1, <1>2, <1>4, <1>6
      <3>2. strain[d] \subseteq strain'[d] /\ UNCHANGED <<rbuf, handed, toServer, inbound, heard>>
        BY <1>1, <1>3
      <3>3. Queues(d)
        <4>1. toServer'[d] = toServer[d] /\ handed'[d] = handed[d] /\ (d \in heard' <=> d \in heard)
          BY <1>1
        <4>2. QED
          BY <3>1, <3>2, <4>1 DEF Queues
      <3>4. rbuf'[d] = rbuf[d] /\ inbound'[d] = inbound[d]
        BY <1>1
      <3>5. QED
        BY <3>1, <3>3, <3>4 DEF HearsSame
    <2>2. Ahead(d) => Ahead(d)'
      <3>1. \A i \in 1..Len(table) : i \in 1..Len(table') /\ table'[i] = table[i]
        <4>1. CASE table' = table
          BY <4>1
        <4>2. CASE table' = Append(table, c)
          BY <1>2, <4>2
        <4>3. QED
          BY <1>5, <4>1, <4>2
      <3>2. QED
        BY <1>1, <3>1 DEF Ahead
    <2>3. QED
      BY <2>1, <2>2, HearsOther
  <1>7. CASE Publish(c)
    <2>1. kind'[c] = "publish" /\ life'[c] = "live"
      BY <1>1, <1>2, <1>7 DEF Publish, Open
    <2>2. Hears(c)'
      BY <2>1 DEF Hears
    <2>3. QED
      BY <1>6, <2>2
  <1>8. CASE Subscribe(c)
    <2>1. /\ kind'[c] = "subscribe" /\ life'[c] = "live" /\ sock'[c] = "connecting"
          /\ obuf'[c] = <<"SUBSCRIBE">> /\ table' = Append(table, c) /\ flags'[c] = {"subscribed"}
      <3>1. flags[c] = {}
        BY <1>1 DEF Hears
      <3>2. QED
        BY <1>1, <1>2, <1>8, <3>1 DEF Subscribe, Open, Raise
    <2>2. /\ toServer'[c] = <<>> /\ inbound'[c] = <<>> /\ rbuf'[c] = <<>> /\ handed'[c] = 0
          /\ c \notin heard'
      BY <1>1 DEF CallInv, Sound
    <2>3. Ordered(c)'
      BY <2>1, <2>2 DEF Ordered, First, OnlyFirst
    <2>4. Tuned(c)'
      <3>1. <<>> \in Seq({"subscribed", "message"})
        OBVIOUS
      <3>2. QED
        BY <2>1, <2>2, <3>1 DEF Tuned
    <2>5. Parting(c)'
      <3>1. CASE upc.at = "idle"
        <4>1. Len(table) + 1 \in 1..Len(table') /\ table'[Len(table) + 1] = c
          BY <1>2, <2>1
        <4>2. QED
          BY <1>1, <3>1, <4>1 DEF Parting, Ahead
      <3>2. CASE upc.at # "idle"
        BY <1>8, <3>2, StrainMarks DEF Subscribe, StrainedIf, Parting, CallInv
      <3>3. QED
        BY <3>1, <3>2
    <2>6. Hears(c)'
      BY <2>1, <2>3, <2>4, <2>5 DEF Hears
    <2>7. QED
      BY <1>6, <2>6
  <1>9. QED
    BY <1>7, <1>8

\* A step of c that leaves the queues alone.
LEMMA HearsQueues ==
  ASSUME \A d \in Conn : Hears(d), NEW c \in Conn, UNCHANGED callerVars,
         UNCHANGED <<kind, life, sock, obuf, toServer, handed, heard>>,
         \A d \in Conn : strain[d] \subseteq strain'[d],
         \A d \in Conn : d # c => /\ flags'[d] = flags[d] /\ rbuf'[d] = rbuf[d]
                                  /\ inbound'[d] = inbound[d],
         life[c] # "none",
         kind[c] = "subscribe" /\ Listening(c) /\ Tuned(c) => Tuned(c)'
  PROVE  \A d \in Conn : Hears(d)'
  <1>1. \A d \in Conn : Queues(d) /\ (Ahead(d) => Ahead(d)')
    BY DEF Queues, callerVars, Ahead
  <1>2. ASSUME NEW d \in Conn, d # c PROVE Hears(d)'
    BY <1>1, <1>2, HearsOther DEF HearsSame
  <1>3. Hears(c)'
    BY <1>1, HearsStay DEF Hears, Parting
  <1>4. QED
    BY <1>2, <1>3

LEMMA HearsRelease ==
  ASSUME CallInv, \A d \in Conn : Hears(d), NEW c \in Conn, ReleaseByRead(c) \/ ReleaseByWrite(c)
  PROVE  \A d \in Conn : Hears(d)'
  <1>1. UNCHANGED strain
    BY DEF ReleaseByRead, ReleaseByWrite
  <1>2. CASE \E f : Fails(c, f)
    BY <1>1, <1>2, HearsFails
  <1>3. CASE ~\E f : Fails(c, f)
    <2>1. /\ life' = [life EXCEPT ![c] = "freed"] /\ flags' = [flags EXCEPT ![c] = {}]
          /\ obuf' = [obuf EXCEPT ![c] = <<>>] /\ rbuf' = [rbuf EXCEPT ![c] = <<>>]
          /\ sock' = [sock EXCEPT ![c] = "closed"] /\ inbound' = [inbound EXCEPT ![c] = <<>>]
          /\ heard' = heard \ {c} /\ wpc[c] # "writing"
          /\ UNCHANGED <<kind, handed, callerVars, toServer>>
      BY <1>3 DEF ReleaseByRead, ReleaseByWrite, Release
    <2>2. /\ life \in [Conn -> {"none", "live", "freed"}] /\ flags \in [Conn -> SUBSET Flag]
          /\ obuf \in [Conn -> Seq(Command)] /\ rbuf \in [Conn -> Seq(Reply)]
          /\ sock \in [Conn -> {"none", "connecting", "open", "refused", "closed"}]
          /\ inbound \in [Conn -> Seq(Reply)]
      BY DEF CallInv, TypeOK
    <2>3. ASSUME NEW d \in Conn, d # c PROVE Hears(d)'
      <3>1. /\ life'[d] = life[d] /\ flags'[d] = flags[d] /\ obuf'[d] = obuf[d] /\ rbuf'[d] = rbuf[d]
            /\ sock'[d] = sock[d] /\ inbound'[d] = inbound[d]
        BY <2>1, <2>2, <2>3
      <3>2. HearsSame(d)
        BY <1>1, <2>1, <2>3, <3>1 DEF HearsSame, Queues
      <3>3. Ahead(d) => Ahead(d)'
        BY <2>1 DEF Ahead, callerVars
      <3>4. QED
        BY <3>2, <3>3, HearsOther
    <2>4. Hears(c)'
      <3>1. handed[c] = 0
        BY <2>1 DEF CallInv, Sound
      <3>2. /\ life'[c] = "freed" /\ flags'[c] = {} /\ obuf'[c] = <<>> /\ c \notin heard'
        BY <2>1, <2>2
      <3>3. Ordered(c) => Ordered(c)'
        BY <2>1, <3>1, <3>2 DEF Ordered, First, OnlyFirst
      <3>4. QED
        BY <2>1, <3>2, <3>3 DEF Hears, Listening
    <2>5. QED
      BY <2>3, <2>4
  <1>4. QED
    BY <1>2, <1>3

\* Closing a connection that is not listening, or fails to.
LEMMA HearsTear ==
  ASSUME CallInv, \A d \in Conn : Hears(d), NEW c \in Conn, NEW f, life[c] # "none",
         TearByRead(c, f) \/ TearByWrite(c, f), \A d \in Conn : strain[d] \subseteq strain'[d],
         kind[c] = "subscribe" => ~(Listening(c) /\ Tuned(c))
  PROVE  \A d \in Conn : Hears(d)'
  <1>1. CASE \E g : Fails(c, g)
    BY <1>1, HearsFails
  <1>2. CASE ~\E g : Fails(c, g)
    <2>1. /\ flags' = [flags EXCEPT ![c] = flags[c] \cup f]
          /\ UNCHANGED <<kind, life, sock, obuf, toServer, handed, heard, rbuf, inbound, callerVars>>
      BY <1>2 DEF TearByRead, TearByWrite, Abandon, Raise, serverVars
    <2>2. \A d \in Conn : d # c => flags'[d] = flags[d]
      BY <2>1 DEF CallInv, TypeOK
    <2>3. QED
      BY <2>1, <2>2, HearsQueues
  <1>3. QED
    BY <1>1, <1>2

LEMMA HearsRead ==
  ASSUME CallInv, \A d \in Conn : Hears(d), NEW c \in Conn, ReadHandler(c), Alive(c)
  PROVE  \A d \in Conn : Hears(d)'
  <1> USE DEF historyVars
  <1>0. TypeOK /\ Sound(c) /\ Hears(c) /\ flags \in [Conn -> SUBSET Flag] /\ rbuf \in [Conn -> Seq(Reply)]
        /\ inbound \in [Conn -> Seq(Reply)]
    BY DEF CallInv, TypeOK
  <1>1. CASE ReadFails(c)
    <2>1. \A d \in Conn : strain[d] \subseteq strain'[d]
      BY <1>0, <1>1, StrainGrows DEF ReadFails
    <2>2. Listening(c) => ~Tuned(c)
      BY <1>1 DEF ReadFails, Readable, Listening, Tuned
    <2>3. QED
      BY <1>1, <2>1, <2>2, HearsTear DEF ReadFails, Readable
  <1>2. CASE ReadIn(c)
    <2>1. PICK k \in 1..Len(inbound[c]) :
            /\ rbuf' = [rbuf EXCEPT ![c] = rbuf[c] \o SubSeq(inbound[c], 1, k)]
            /\ inbound' = [inbound EXCEPT ![c] = SubSeq(inbound[c], k + 1, Len(inbound[c]))]
      BY <1>2 DEF ReadIn
    <2>2. /\ flags' = [flags EXCEPT ![c] = flags[c] \cup {"connected"}] /\ life[c] = "live"
          /\ UNCHANGED <<kind, life, sock, obuf, toServer, handed, heard, callerVars>>
      BY <1>2 DEF ReadIn, Readable, Raise
    <2>3. \A d \in Conn : strain[d] \subseteq strain'[d]
      BY <1>0, <1>2, StrainGrows DEF ReadIn
    <2>4. \A d \in Conn : d # c => flags'[d] = flags[d] /\ rbuf'[d] = rbuf[d] /\ inbound'[d] = inbound[d]
      BY <1>0, <2>1, <2>2
    <2>5. Tuned(c) => Tuned(c)'
      <3>1. ASSUME NEW q \in Seq({"subscribed", "message"}), NEW r \in Seq({"subscribed", "message"}),
                   NEW n \in 1..Len(q)
            PROVE  /\ r \o SubSeq(q, 1, n) \in Seq({"subscribed", "message"})
                   /\ SubSeq(q, n + 1, Len(q)) \in Seq({"subscribed", "message"})
        BY <3>1
      <3>2. /\ rbuf'[c] = rbuf[c] \o SubSeq(inbound[c], 1, k) /\ flags'[c] = flags[c] \cup {"connected"}
            /\ inbound'[c] = SubSeq(inbound[c], k + 1, Len(inbound[c]))
        BY <1>0, <2>1, <2>2
      <3>3. QED
        BY <2>1, <3>1, <3>2 DEF Tuned
    <2>6. QED
      BY <2>2, <2>3, <2>4, <2>5, HearsQueues
  <1>3. CASE ProcessRegular(c) \/ ProcessSubscriber(c)
    <2>1. UNCHANGED strain /\ rbuf[c] # <<>>
      BY <1>3 DEF ProcessRegular, ProcessSubscriber
    <2>2. CASE \E f : Fails(c, f)
      BY <2>1, <2>2, HearsFails
    <2>3. CASE ~\E f : Fails(c, f)
      <3>1. /\ UNCHANGED <<kind, life, sock, obuf, toServer, handed, heard, inbound, callerVars>>
            /\ rbuf' = [rbuf EXCEPT ![c] = Tail(rbuf[c])]
            /\ \E F : flags' = [flags EXCEPT ![c] = F]
        <4>1. UNCHANGED <<kind, life, sock, obuf, toServer, handed, heard, inbound, callerVars>>
          BY <1>3, <2>3 DEF ProcessRegular, ProcessSubscriber, handlerVars, serverVars
        <4>2. rbuf' = [rbuf EXCEPT ![c] = Tail(rbuf[c])]
          BY <1>3, <2>3 DEF ProcessRegular, ProcessSubscriber
        <4>3. flags' = flags => flags' = [flags EXCEPT ![c] = flags[c]]
          BY <1>0
        <4>4. \/ flags' = [flags EXCEPT ![c] = flags[c] \cup {"disconnecting"}]
              \/ flags' = [flags EXCEPT ![c] = flags[c] \ {"subscribed"}]
              \/ flags' = flags
          BY <1>3, <2>3 DEF ProcessRegular, ProcessSubscriber, Raise
        <4>5. \E F : flags' = [flags EXCEPT ![c] = F]
          BY <4>3, <4>4
        <4>6. QED
          BY <4>1, <4>2, <4>5
      <3>2. \A d \in Conn : d # c => flags'[d] = flags[d] /\ rbuf'[d] = rbuf[d]
        BY <1>0, <3>1
      <3>3. kind[c] = "subscribe" /\ Tuned(c) => Tuned(c)'
        <4>1. ASSUME Tuned(c) PROVE Tail(rbuf[c]) \in Seq({"subscribed", "message"})
                                    /\ Head(rbuf[c]) \in {"subscribed", "message"}
          BY <2>1, <4>1 DEF Tuned
        <4>2. kind[c] = "subscribe" => ~ProcessRegular(c)
          BY <1>0 DEF ProcessRegular, Sound
        <4>3. ProcessSubscriber(c) /\ Head(rbuf[c]) # "unsubscribed" => flags' = flags
          BY <2>3 DEF ProcessSubscriber
        <4>4. rbuf'[c] = Tail(rbuf[c])
          BY <1>0, <3>1
        <4>5. QED
          BY <1>3, <3>1, <4>1, <4>2, <4>3, <4>4 DEF Tuned
      <3>4. QED
        BY <1>3, <2>1, <3>1, <3>2, <3>3, HearsQueues DEF Alive, ProcessRegular, ProcessSubscriber
    <2>4. QED
      BY <2>2, <2>3
  <1>4. CASE ProcessError(c)
    <2>1. ~Tuned(c)
      BY <1>4 DEF ProcessError, Tuned
    <2>2. QED
      BY <1>4, <2>1, HearsTear DEF ProcessError, Alive
  <1>5. CASE ProcessEnds(c)
    BY <1>5, HearsQueues DEF ProcessEnds, contextVars, serverVars, Tuned, Alive
  <1>6. CASE Disconnect(c)
    <2>1. UNCHANGED strain /\ ~Tuned(c)
      BY <1>6 DEF Disconnect, Tuned
    <2>2. CASE \E f : Fails(c, f)
      BY <2>1, <2>2, HearsFails
    <2>3. CASE TearByRead(c, {})
      BY <1>6, <2>1, <2>3, HearsTear DEF Disconnect, Alive
    <2>4. QED
      BY <1>6, <2>2, <2>3 DEF Disconnect
  <1>7. CASE ReleaseByRead(c)
    BY <1>7, HearsRelease
  <1>8. QED
    BY <1>1, <1>2, <1>3, <1>4, <1>5, <1>6, <1>7 DEF ReadHandler

LEMMA HearsWriteOut ==
  ASSUME CallInv, \A d \in Conn : Hears(d), NEW c \in Conn, WriteOut(c)
  PROVE  \A d \in Conn : Hears(d)'
  <1>0. /\ TypeOK /\ Sound(c) /\ Hears(c) /\ flags \in [Conn -> SUBSET Flag]
        /\ toServer \in [Conn -> Seq(Command)] /\ obuf \in [Conn -> Seq(Command)]
        /\ handed \in [Conn -> Nat]
    BY DEF CallInv, TypeOK
  <1>1. /\ life[c] = "live" /\ sock[c] \in {"open", "closed"} /\ wpc[c] = "idle"
        /\ "error" \notin flags[c] /\ flags' = [flags EXCEPT ![c] = flags[c] \cup {"connected"}]
        /\ UNCHANGED <<kind, life, obuf, rbuf, callerVars, sock, inbound, heard>>
    BY DEF WriteOut, Writable, Raise
  <1>2. \A d \in Conn : strain[d] \subseteq strain'[d]
    BY <1>0, StrainGrows DEF WriteOut
  <1>3. handed[c] = 0
    BY <1>0, <1>1 DEF Sound
  <1>4. \A d \in Conn : d # c => flags'[d] = flags[d]
    BY <1>0, <1>1
  <1>5. Tuned(c) => Tuned(c)'
    <2>1. flags'[c] = flags[c] \cup {"connected"}
      BY <1>0, <1>1
    <2>2. QED
      BY <1>1, <2>1 DEF Tuned
  <1>6. CASE UNCHANGED <<toServer, handed>>
    BY <1>1, <1>2, <1>4, <1>5, <1>6, HearsQueues
  <1>7. CASE /\ handed' = [handed EXCEPT ![c] = Len(obuf[c])]
             /\ toServer' = IF sock[c] = "open" THEN [toServer EXCEPT ![c] = toServer[c] \o obuf[c]]
                            ELSE toServer
    <2>1. ASSUME NEW d \in Conn, d # c PROVE Hears(d)'
      <3>1. toServer'[d] = toServer[d] /\ handed'[d] = handed[d]
        BY <1>0, <1>7, <2>1
      <3>2. HearsSame(d)
        BY <1>1, <1>2, <1>4, <2>1, <3>1 DEF HearsSame, Queues
      <3>3. Ahead(d) => Ahead(d)'
        BY <1>1 DEF Ahead, callerVars
      <3>4. QED
        BY <3>2, <3>3, HearsOther
    <2>2. /\ handed'[c] = Len(obuf[c]) /\ Len(obuf[c]) \in Nat /\ Len(toServer[c]) \in Nat
          /\ obuf[c] \in Seq(Command) /\ toServer[c] \in Seq(Command)
          /\ (obuf[c] = <<>> <=> Len(obuf[c]) = 0)
      BY <1>0, <1>7
    <2>3. ASSUME sock[c] = "open" PROVE toServer'[c] = toServer[c] \o obuf[c]
      BY <1>0, <1>7, <2>3
    <2>4. ASSUME sock[c] = "closed" PROVE toServer'[c] = toServer[c]
      BY <1>7, <2>4
    <2>5. ASSUME kind[c] = "subscribe", Ordered(c), sock[c] = "open"
          PROVE  Ordered(c)' /\ (ToHear(c)' => ToHear(c)) /\ (Coming(c) => Coming(c)')
      <3> DEFINE m == Len(toServer[c])
                 n == Len(obuf[c])
                 t == toServer'[c]
      <3>1. /\ Len(t) = m + n /\ m \in Nat /\ n \in Nat /\ (t = <<>> <=> Len(t) = 0)
            /\ \A i \in 1..m : t[i] = toServer[c][i]
            /\ \A i \in 1..n : t[m + i] = obuf[c][i]
        <4>1. ASSUME NEW q \in Seq(Command), NEW r \in Seq(Command)
              PROVE  /\ q \o r \in Seq(Command) /\ Len(q \o r) = Len(q) + Len(r)
                     /\ \A i \in 1..Len(q) : (q \o r)[i] = q[i]
                     /\ \A i \in 1..Len(r) : (q \o r)[Len(q) + i] = r[i]
          BY <4>1
        <4>2. t = toServer[c] \o obuf[c]
          BY <2>3, <2>5
        <4>3. t \in Seq(Command)
          BY <2>2, <4>1, <4>2
        <4>4. t = <<>> <=> Len(t) = 0
          BY <4>3
        <4>5. /\ Len(toServer[c] \o obuf[c]) = m + n
              /\ \A i \in 1..m : (toServer[c] \o obuf[c])[i] = toServer[c][i]
              /\ \A i \in 1..n : (toServer[c] \o obuf[c])[m + i] = obuf[c][i]
          BY <2>2, <4>1, Zenon
        <4>6. m \in Nat /\ n \in Nat
          BY <2>2
        <4> HIDE DEF m, n, t
        <4>7. QED
          BY <4>2, <4>4, <4>5, <4>6
      <3>2. n > 0 /\ obuf[c][1] = "SUBSCRIBE" => m = 0 /\ c \notin heard
        BY <1>3, <2>2, <2>5 DEF Ordered, First
      <3> HIDE DEF m, n, t
      <3>3. /\ \A i \in 2..n : obuf[c][i] # "SUBSCRIBE"
            /\ \A i \in 2..m : toServer[c][i] # "SUBSCRIBE"
        BY <2>5 DEF Ordered, OnlyFirst, m, n
      <3>4. \A i \in 2..(m + n) : t[i] # "SUBSCRIBE"
        <4>1. SUFFICES ASSUME NEW i \in 2..(m + n) PROVE t[i] # "SUBSCRIBE"
          OBVIOUS
        <4>2. CASE i <= m
          <5>1. i \in 1..m /\ i \in 2..m
            BY <3>1, <4>2
          <5>2. QED
            BY <3>1, <3>3, <5>1
        <4>3. CASE i > m
          <5>1. i - m \in 1..n /\ m + (i - m) = i
            BY <3>1, <4>3
          <5>2. t[i] = obuf[c][i - m]
            BY <3>1, <5>1
          <5>3. CASE i - m = 1
            <6>1. m > 0 /\ n > 0
              BY <3>1, <5>1, <5>3
            <6>2. QED
              BY <3>1, <3>2, <5>2, <5>3, <6>1
          <5>4. CASE i - m # 1
            <6>1. i - m \in 2..n
              BY <3>1, <5>1, <5>4
            <6>2. QED
              BY <3>3, <5>2, <6>1
          <5>5. QED
            BY <5>3, <5>4
        <4>4. QED
          BY <3>1, <4>2, <4>3
      <3>5. OnlyFirst(toServer[c], "SUBSCRIBE")'
        BY <3>1, <3>4 DEF OnlyFirst, t
      <3>6. First(toServer[c], "SUBSCRIBE")' =>
              First(toServer[c], "SUBSCRIBE") \/ First(obuf[c], "SUBSCRIBE")
        <4>1. CASE m > 0
          <5>1. 1 \in 1..m
            BY <3>1, <4>1
          <5>2. t[1] = toServer[c][1] /\ toServer[c] # <<>>
            BY <2>2, <3>1, <4>1, <5>1 DEF m
          <5>3. QED
            BY <5>2 DEF First, t
        <4>2. CASE m = 0
          <5>1. t # <<>> => n > 0 /\ t[1] = obuf[c][1]
            BY <3>1, <4>2
          <5>2. QED
            BY <2>2, <5>1 DEF First, t, n
        <4>3. QED
          BY <3>1, <4>1, <4>2
      <3>7. First(toServer[c], "SUBSCRIBE")' => c \notin heard
        BY <1>3, <2>5, <3>6 DEF Ordered
      <3>8. handed'[c] = 0 => ~First(obuf[c], "SUBSCRIBE")'
        BY <1>1, <2>2 DEF First
      <3>9. Ordered(c)'
        <4>1. OnlyFirst(obuf[c], "SUBSCRIBE")'
          BY <1>1, <2>5 DEF Ordered, OnlyFirst
        <4>2. handed'[c] = Len(obuf'[c])
          BY <1>1, <2>2
        <4>3. c \in heard' => life'[c] = "live" /\ sock'[c] = "open"
          BY <1>1, <2>5
        <4>4. First(toServer[c], "SUBSCRIBE")' => c \notin heard'
          BY <1>1, <3>7
        <4>5. sock'[c] = "open"
          BY <1>1, <2>5
        <4>6. QED
          BY <3>5, <3>8, <4>1, <4>2, <4>3, <4>4, <4>5 DEF Ordered
      <3>10. ToHear(c)' => ToHear(c)
        BY <1>1, <1>3, <3>6, <3>8 DEF ToHear
      <3>11. Coming(c) => Coming(c)'
        <4>1. ASSUME NEW i \in 1..m, toServer[c][i] = "UNSUBSCRIBE" PROVE Coming(c)'
          <5>1. i \in 1..Len(t) /\ t[i] = "UNSUBSCRIBE"
            BY <3>1, <4>1
          <5>2. QED
            BY <5>1 DEF Coming, t
        <4>2. ASSUME NEW i \in 1..n, obuf[c][i] = "UNSUBSCRIBE" PROVE Coming(c)'
          <5>1. m + i \in 1..Len(t) /\ t[m + i] = "UNSUBSCRIBE"
            BY <3>1, <4>2
          <5>2. QED
            BY <5>1 DEF Coming, t
        <4>3. QED
          BY <4>1, <4>2 DEF Coming, m, n
      <3>12. QED
        BY <3>9, <3>10, <3>11
    <2>6. ASSUME kind[c] = "subscribe", Ordered(c), sock[c] = "closed" PROVE Ordered(c)'
      <3>1. toServer'[c] = toServer[c] /\ toServer[c] = <<>> /\ c \notin heard
        BY <1>1, <2>4, <2>6 DEF Ordered
      <3>2. OnlyFirst(obuf[c], "SUBSCRIBE")' /\ OnlyFirst(toServer[c], "SUBSCRIBE")'
        BY <1>1, <2>6, <3>1 DEF Ordered, OnlyFirst
      <3>3. handed'[c] = Len(obuf'[c]) /\ toServer'[c] = <<>> /\ c \notin heard'
        BY <1>1, <2>2, <3>1
      <3>4. QED
        BY <3>2, <3>3 DEF Ordered, First
    <2>7. Hears(c)'
      <3>1. kind'[c] = kind[c] /\ life'[c] = life[c] /\ sock'[c] = sock[c] /\ (Ahead(c) => Ahead(c)')
        BY <1>1 DEF Ahead, callerVars
      <3>2. CASE kind[c] = "subscribe" /\ sock[c] = "open"
        <4>1. Listening(c)' => Listening(c)
          BY <1>0, <2>5, <3>1, <3>2 DEF Hears, Listening
        <4>2. Parting(c) => Parting(c)'
          BY <1>0, <1>2, <2>5, <3>1, <3>2 DEF Hears, Parting
        <4>3. QED
          BY <1>0, <1>1, <1>5, <2>5, <3>1, <3>2, <4>1, <4>2 DEF Hears
      <3>3. CASE kind[c] = "subscribe" /\ sock[c] = "closed"
        BY <1>0, <1>1, <2>6, <3>1, <3>3 DEF Hears, Listening
      <3>4. QED
        BY <1>1, <3>1, <3>2, <3>3 DEF Hears
    <2>8. QED
      BY <2>1, <2>7
  <1>8. QED
    BY <1>6, <1>7 DEF WriteOut

LEMMA HearsWriteTrim ==
  ASSUME CallInv, \A d \in Conn : Hears(d), NEW c \in Conn, WriteTrim(c), Alive(c)
  PROVE  \A d \in Conn : Hears(d)'
  <1> USE DEF historyVars
  <1>0. /\ TypeOK /\ Sound(c) /\ Hears(c) /\ obuf \in [Conn -> Seq(Command)] /\ handed \in [Conn -> Nat]
    BY DEF CallInv, TypeOK
  <1>1. /\ wpc[c] = "writing" /\ handed' = [handed EXCEPT ![c] = 0] /\ life[c] = "live"
        /\ UNCHANGED <<kind, life, flags, rbuf, callerVars, sock, inbound, toServer, heard, strain>>
    BY DEF WriteTrim, serverVars, Alive
  <1>2. PICK rest \in {Rest(c)} \cup (IF handed[c] > 0 THEN {<<>>} ELSE {}) :
          obuf' = [obuf EXCEPT ![c] = rest]
    BY DEF WriteTrim
  <1>8a. rest = Rest(c) \/ (handed[c] > 0 /\ rest = <<>>)
    <2>1. CASE handed[c] > 0
      <3>1. rest \in {Rest(c)} \cup {<<>>}
        BY <2>1
      <3>2. QED
        BY <2>1, <3>1
    <2>2. CASE ~(handed[c] > 0)
      <3>1. rest \in {Rest(c)} \cup {}
        BY <2>2
      <3>2. QED
        BY <3>1
    <2>3. QED
      BY <2>1, <2>2
  <1>3. ASSUME NEW d \in Conn, d # c PROVE Hears(d)'
    <2>1. obuf'[d] = obuf[d] /\ handed'[d] = handed[d]
      BY <1>0, <1>1, <1>2, <1>3
    <2>2. HearsSame(d)
      BY <1>1, <1>3, <2>1 DEF HearsSame, Queues
    <2>3. Ahead(d) => Ahead(d)'
      BY <1>1 DEF Ahead, callerVars
    <2>4. QED
      BY <2>2, <2>3, HearsOther
  <1>4. obuf'[c] = rest /\ handed'[c] = 0 /\ obuf[c] \in Seq(Command) /\ handed[c] \in Nat /\ Len(obuf[c]) \in Nat
    BY <1>0, <1>1, <1>2
  <1>5. CASE handed[c] = 0
    <2>1. Rest(c) = obuf[c]
      BY <1>4, <1>5 DEF Rest
    <2>2. obuf'[c] = obuf[c] /\ handed'[c] = handed[c]
      BY <1>8a, <1>4, <1>5, <2>1
    <2>3. HearsSame(c)
      BY <1>1, <2>2 DEF HearsSame, Queues
    <2>4. Ahead(c) => Ahead(c)'
      BY <1>1 DEF Ahead, callerVars
    <2>5. QED
      BY <1>0, <1>3, <2>3, <2>4, HearsOther
  <1>6. CASE handed[c] > 0
    <2>1. /\ rest \in Seq(Command)
          /\ \A i \in 1..Len(rest) : i + handed[c] \in 2..Len(obuf[c]) /\ rest[i] = obuf[c][i + handed[c]]
      <3>1. CASE rest = <<>>
        <4>1. Len(<<>>) = 0 /\ <<>> \in Seq(Command)
          OBVIOUS
        <4>2. rest \in Seq(Command) /\ \A i : i \notin 1..Len(rest)
          BY <3>1, <4>1
        <4>3. QED
          BY <4>2
      <3>2. CASE rest = SubSeq(obuf[c], handed[c] + 1, Len(obuf[c]))
        <4>1. ASSUME NEW q \in Seq(Command), NEW k \in Nat, k > 0
              PROVE  /\ SubSeq(q, k + 1, Len(q)) \in Seq(Command)
                     /\ \A i \in 1..Len(SubSeq(q, k + 1, Len(q))) :
                          i + k \in 2..Len(q) /\ SubSeq(q, k + 1, Len(q))[i] = q[i + k]
          BY <4>1
        <4>2. /\ SubSeq(obuf[c], handed[c] + 1, Len(obuf[c])) \in Seq(Command)
              /\ \A i \in 1..Len(SubSeq(obuf[c], handed[c] + 1, Len(obuf[c]))) :
                   /\ i + handed[c] \in 2..Len(obuf[c])
                   /\ SubSeq(obuf[c], handed[c] + 1, Len(obuf[c]))[i] = obuf[c][i + handed[c]]
          BY <1>4, <1>6, <4>1, Zenon
        <4>3. QED
          BY <3>2, <4>2, Zenon
      <3>3. QED
        BY <1>8a, <3>1, <3>2 DEF Rest
    <2>2. handed[c] = Len(obuf[c]) => rest = <<>>
      <3>1. ASSUME handed[c] = Len(obuf[c]) PROVE Len(rest) = 0
        <4>1. Len(rest) > 0 => 1 \in 1..Len(rest) /\ 1 + handed[c] \in 2..Len(obuf[c])
          BY <2>1
        <4>2. QED
          BY <1>4, <2>1, <3>1, <4>1
      <3>2. QED
        BY <2>1, <3>1
    <2>3. ASSUME kind[c] = "subscribe" PROVE Ordered(c)' /\ (Listening(c)' => Listening(c)) /\ (Parting(c) => Parting(c)')
      <3>1. Ordered(c)
        BY <1>0, <2>3 DEF Hears
      <3>2. \A i \in 1..Len(rest) : rest[i] # "SUBSCRIBE"
        BY <2>1, <3>1 DEF Ordered, OnlyFirst
      <3>3. OnlyFirst(obuf[c], "SUBSCRIBE")' /\ ~First(obuf[c], "SUBSCRIBE")'
        <4>1. rest # <<>> => 1 \in 1..Len(rest)
          BY <2>1
        <4>2. \A i \in 2..Len(rest) : i \in 1..Len(rest)
          BY <2>1
        <4>3. QED
          BY <1>4, <3>2, <4>1, <4>2 DEF OnlyFirst, First
      <3>4. OnlyFirst(toServer[c], "SUBSCRIBE")' /\ (First(toServer[c], "SUBSCRIBE")' <=> First(toServer[c], "SUBSCRIBE"))
        BY <1>1, <3>1 DEF Ordered, OnlyFirst, First
      <3>5. Ordered(c)'
        BY <1>1, <1>4, <3>1, <3>3, <3>4 DEF Ordered
      <3>6. Listening(c)' => Listening(c)
        BY <1>1, <3>3, <3>4 DEF Listening, ToHear
      <3>7. Parting(c) => Parting(c)'
        <4>1. Ahead(c) => Ahead(c)'
          BY <1>1 DEF Ahead, callerVars
        <4>2. Coming(c) => Coming(c)' \/ "overlap" \in strain[c]
          BY <1>1, <1>4, <1>6, <3>1 DEF Coming, Ordered
        <4>3. QED
          BY <1>1, <4>1, <4>2 DEF Parting
      <3>8. QED
        BY <3>5, <3>6, <3>7
    <2>4. Tuned(c) => Tuned(c)'
      BY <1>1 DEF Tuned
    <2>5. Hears(c)'
      BY <1>0, <1>1, <2>3, <2>4 DEF Hears
    <2>6. QED
      BY <1>3, <2>5
  <1>7. QED
    BY <1>4, <1>5, <1>6

LEMMA HearsWrite ==
  ASSUME CallInv, \A d \in Conn : Hears(d), NEW c \in Conn, WriteHandler(c), Alive(c)
  PROVE  \A d \in Conn : Hears(d)'
  <1> USE DEF historyVars
  <1>1. CASE WriteFails(c)
    <2>1. \A d \in Conn : strain[d] \subseteq strain'[d]
      BY <1>1, StrainGrows DEF WriteFails, CallInv
    <2>2. Listening(c) => ~Tuned(c)
      BY <1>1 DEF WriteFails, Listening, Tuned
    <2>3. QED
      BY <1>1, <2>1, <2>2, HearsTear DEF WriteFails, Writable
  <1>2. CASE WriteUnflag(c) \/ WriteSuspend(c)
    <2>1. /\ UNCHANGED <<kind, life, flags, rbuf, inbound, sock, obuf, toServer, handed, heard, callerVars, strain>>
          /\ wpc[c] # "idle"
      BY <1>2 DEF WriteUnflag, WriteSuspend, contextVars, serverVars
    <2>2. QED
      BY <2>1, HearsQueues DEF Alive, Tuned
  <1>3. QED
    BY <1>1, <1>2, HearsWriteOut, HearsWriteTrim, HearsRelease DEF WriteHandler

\* The server takes a command of a subscriber.
LEMMA HearsTaken ==
  ASSUME CallInv, \A d \in Conn : Hears(d), NEW c \in Conn, kind[c] = "subscribe", ServerKeeps,
         toServer[c] # <<>>, toServer' = [toServer EXCEPT ![c] = Tail(toServer[c])], sock' = sock,
         \A d \in Conn : strain[d] \subseteq strain'[d],
         \A d \in Conn : d # c => (d \in heard' <=> d \in heard) /\ inbound'[d] = inbound[d],
         c \in heard' => /\ life[c] = "live" /\ Head(toServer[c]) = "SUBSCRIBE"
                         /\ inbound'[c] = inbound[c] \o <<"subscribed">>
  PROVE  \A d \in Conn : Hears(d)'
  <1>0. /\ UNCHANGED <<kind, life, flags, obuf, rbuf, handed, upc, table>>
        /\ toServer \in [Conn -> Seq(Command)] /\ Hears(c) /\ Ordered(c)
    BY DEF ServerKeeps, contextVars, handlerVars, callerVars, CallInv, TypeOK, Hears
  <1>1. ASSUME NEW d \in Conn, d # c PROVE Hears(d)'
    <2>1. toServer'[d] = toServer[d]
      BY <1>0, <1>1
    <2>2. HearsSame(d)
      BY <1>0, <1>1, <2>1 DEF HearsSame, Queues
    <2>3. Ahead(d) => Ahead(d)'
      BY <1>0 DEF Ahead
    <2>4. QED
      BY <2>2, <2>3, HearsOther
  <1>2. /\ toServer'[c] = Tail(toServer[c]) /\ toServer[c] \in Seq(Command) /\ Len(toServer[c]) > 0
        /\ Head(toServer[c]) = toServer[c][1]
    BY <1>0
  <1>3. /\ Len(toServer'[c]) = Len(toServer[c]) - 1 /\ Len(toServer[c]) \in Nat
        /\ \A i \in 1..Len(toServer[c]) - 1 : toServer'[c][i] = toServer[c][i + 1]
        /\ (toServer'[c] # <<>> => Len(toServer'[c]) > 0)
    <2>1. ASSUME NEW q \in Seq(Command), Len(q) > 0
          PROVE  /\ Len(Tail(q)) = Len(q) - 1 /\ Len(q) \in Nat
                 /\ \A i \in 1..Len(q) - 1 : Tail(q)[i] = q[i + 1]
                 /\ Tail(q) # <<>> => Len(Tail(q)) > 0
      BY <2>1
    <2>2. QED
      BY <1>2, <2>1
  <1>4. \A i \in 1..Len(toServer'[c]) : toServer'[c][i] # "SUBSCRIBE"
    <2>1. \A i \in 2..Len(toServer[c]) : toServer[c][i] # "SUBSCRIBE"
      BY <1>0 DEF Ordered, OnlyFirst
    <2>2. \A i \in 1..Len(toServer[c]) - 1 : i + 1 \in 2..Len(toServer[c])
      BY <1>3
    <2>3. QED
      BY <1>3, <2>1, <2>2
  <1>5. OnlyFirst(toServer[c], "SUBSCRIBE")' /\ ~First(toServer[c], "SUBSCRIBE")'
    <2>1. \A i \in 2..Len(toServer'[c]) : i \in 1..Len(toServer'[c])
      BY <1>3
    <2>2. toServer'[c] # <<>> => 1 \in 1..Len(toServer'[c])
      BY <1>3
    <2>3. QED
      BY <1>4, <2>1, <2>2 DEF OnlyFirst, First
  <1>6. ~(handed[c] = 0 /\ First(obuf[c], "SUBSCRIBE"))
    BY <1>0 DEF Ordered
  <1>7. OnlyFirst(obuf[c], "SUBSCRIBE")' /\ (First(obuf[c], "SUBSCRIBE")' <=> First(obuf[c], "SUBSCRIBE"))
    BY <1>0 DEF Ordered, OnlyFirst, First
  <1>8. Ordered(c)'
    BY <1>0, <1>5, <1>6, <1>7 DEF Ordered
  <1>9. ASSUME Listening(c)' PROVE Tuned(c)' /\ Parting(c)'
    <2>1. c \in heard'
      BY <1>0, <1>5, <1>6, <1>7, <1>9 DEF Listening, ToHear
    <2>2. First(toServer[c], "SUBSCRIBE")
      BY <1>2, <2>1 DEF First
    <2>3. Listening(c)
      BY <1>0, <1>9, <2>2 DEF Listening, ToHear
    <2>4. Tuned(c) /\ Parting(c)
      BY <1>0, <2>3 DEF Hears
    <2>5. Tuned(c)'
      <3>1. ASSUME NEW q \in Seq({"subscribed", "message"})
            PROVE  q \o <<"subscribed">> \in Seq({"subscribed", "message"})
        BY <3>1
      <3>2. QED
        BY <1>0, <2>1, <2>4, <3>1 DEF Tuned
    <2>6. Coming(c) => Coming(c)'
      <3>1. ASSUME NEW i \in 1..Len(toServer[c]), toServer[c][i] = "UNSUBSCRIBE" PROVE Coming(c)'
        <4>1. i # 1
          BY <2>2, <3>1 DEF First
        <4>2. i - 1 \in 1..Len(toServer[c]) - 1 /\ (i - 1) + 1 = i
          BY <1>3, <4>1
        <4>3. i - 1 \in 1..Len(toServer'[c]) /\ toServer'[c][i - 1] = "UNSUBSCRIBE"
          BY <1>3, <3>1, <4>2
        <4>4. QED
          BY <4>3 DEF Coming
      <3>2. QED
        BY <1>0, <3>1 DEF Coming
    <2>7. Ahead(c) => Ahead(c)'
      BY <1>0 DEF Ahead
    <2>8. QED
      BY <2>4, <2>5, <2>6, <2>7 DEF Parting
  <1>10. Hears(c)'
    BY <1>0, <1>8, <1>9 DEF Hears, CallInv, Sound
  <1>11. QED
    BY <1>1, <1>10

LEMMA HearsExecute ==
  ASSUME CallInv, \A d \in Conn : Hears(d), NEW c \in Conn, Execute(c) \/ Reject(c)
  PROVE  \A d \in Conn : Hears(d)'
  <1>0. /\ ServerKeeps /\ sock' = sock /\ toServer[c] # <<>>
        /\ toServer' = [toServer EXCEPT ![c] = Tail(toServer[c])]
        /\ UNCHANGED <<kind, life, flags, obuf, rbuf, handed, upc, table>>
    BY DEF Execute, Reject, ServerKeeps, contextVars, handlerVars, callerVars
  <1>1. \A d \in Conn : strain[d] \subseteq strain'[d]
    BY StrainGrows DEF Execute, Reject, CallInv
  <1>2. /\ Sound(c) /\ Head(toServer[c]) \in Command /\ toServer \in [Conn -> Seq(Command)]
        /\ kind[c] \in {"publish", "subscribe"}
    BY <1>0 DEF CallInv, TypeOK, Sound
  <1>3. CASE kind[c] = "publish"
    <2>1. ASSUME NEW d \in Conn PROVE inbound'[d] \in {inbound[d], inbound[d] \o <<"message">>} \/ d = c
      <3>1. CASE Execute(c) /\ Head(toServer[c]) = "PUBLISH"
        <4> DEFINE news == [e \in Conn |-> IF e = c THEN <<"published">>
                                           ELSE IF e \in heard THEN <<"message">> ELSE <<>>]
        <4>1. Deliver(news)
          BY <3>1 DEF Execute
        <4>2. news \in [Conn -> Seq(Reply)]
          <5>1. <<"published">> \in Seq(Reply) /\ <<"message">> \in Seq(Reply) /\ <<>> \in Seq(Reply)
            BY DEF Reply
          <5>2. QED
            BY <5>1
        <4>3. /\ inbound'[d] \in {inbound[d], inbound[d] \o news[d]}
              /\ inbound'[d] # inbound[d] => news[d] # <<>>
          BY <4>1, <4>2, DeliverAt
        <4>4. d # c => news[d] \in {<<>>, <<"message">>}
          OBVIOUS
        <4> HIDE DEF news
        <4>5. QED
          BY <4>3, <4>4
      <3>2. CASE Reject(c)
        <4>1. Only(c, "error") \in [Conn -> Seq(Reply)]
          BY OnlyType DEF Reply
        <4>2. inbound'[d] \in {inbound[d], inbound[d] \o Only(c, "error")[d]}
               /\ (inbound'[d] # inbound[d] => Only(c, "error")[d] # <<>>)
          BY <3>2, <4>1, DeliverAt DEF Reject
        <4>3. QED
          BY <4>2 DEF Only
      <3>3. Head(toServer[c]) = "PUBLISH"
        BY <1>0, <1>2, <1>3 DEF Sound, Publishing
      <3>4. QED
        BY <3>1, <3>2, <3>3
    <2>2. heard' = heard
      <3>1. Head(toServer[c]) = "PUBLISH"
        BY <1>0, <1>2, <1>3 DEF Sound, Publishing
      <3>2. QED
        BY <3>1 DEF Execute, Reject
    <2>3. ASSUME NEW d \in Conn, d # c PROVE Hears(d)'
      <3>1. toServer'[d] = toServer[d]
        BY <1>0, <1>2, <2>3
      <3>2. HearsSame(d)
        BY <1>0, <1>1, <2>1, <2>2, <2>3, <3>1 DEF HearsSame, Queues
      <3>3. Ahead(d) => Ahead(d)'
        BY <1>0 DEF Ahead
      <3>4. QED
        BY <3>2, <3>3, HearsOther
    <2>4. Hears(c)'
      BY <1>0, <1>2, <1>3 DEF Hears, Sound
    <2>5. QED
      BY <2>3, <2>4
  <1>4. CASE kind[c] = "subscribe"
    <2>1. Head(toServer[c]) \in {"SUBSCRIBE", "UNSUBSCRIBE"}
      <3>1. toServer[c] \in Seq(Command \ {"PUBLISH"})
        BY <1>2, <1>4 DEF Sound
      <3>2. Head(toServer[c]) \in Command \ {"PUBLISH"}
        BY <1>0, <3>1
      <3>3. QED
        BY <3>2 DEF Command
    <2>2. PICK r \in Reply : /\ Deliver(Only(c, r))
                             /\ Execute(c) /\ Head(toServer[c]) = "SUBSCRIBE" => r = "subscribed"
      BY <2>1 DEF Execute, Reject, Reply
    <2>3. Only(c, r) \in [Conn -> Seq(Reply)] /\ Only(c, r)[c] = <<r>>
      BY OnlyType DEF Only
    <2>4. ASSUME NEW d \in Conn, d # c PROVE (d \in heard' <=> d \in heard) /\ inbound'[d] = inbound[d]
      <3>1. Only(c, r)[d] = <<>>
        BY <2>4 DEF Only
      <3>2. inbound'[d] = inbound[d]
        BY <2>2, <2>3, <3>1, DeliverAt
      <3>3. d \in heard' <=> d \in heard
        BY <2>1, <2>4 DEF Execute, Reject
      <3>4. QED
        BY <3>2, <3>3
    <2>5. ASSUME c \in heard'
          PROVE  /\ life[c] = "live" /\ Head(toServer[c]) = "SUBSCRIBE"
                 /\ inbound'[c] = inbound[c] \o <<"subscribed">>
      <3>1. Ordered(c) /\ (Head(toServer[c]) = "SUBSCRIBE" => First(toServer[c], "SUBSCRIBE"))
        BY <1>0, <1>2, <1>4 DEF Hears, First
      <3>2. Head(toServer[c]) = "SUBSCRIBE" => c \notin heard
        BY <3>1 DEF Ordered
      <3>3. Execute(c) /\ Head(toServer[c]) = "SUBSCRIBE"
        BY <2>1, <2>5, <3>2 DEF Execute, Reject
      <3>4. life[c] = "live"
        BY <2>5, <3>2, <3>3 DEF Execute
      <3>5. inbound'[c] = inbound[c] \o Only(c, r)[c]
        BY <2>2, <3>4 DEF Deliver
      <3>6. QED
        BY <2>2, <2>3, <3>3, <3>4, <3>5
    <2>6. QED
      BY <1>0, <1>1, <1>4, <2>4, <2>5, HearsTaken
  <1>5. QED
    BY <1>2, <1>3, <1>4

LEMMA HearsSocket ==
  ASSUME CallInv, \A d \in Conn : Hears(d), NEW c \in Conn, Accept(c) \/ Refuse(c) \/ Close(c)
  PROVE  \A d \in Conn : Hears(d)'
  <1>0. /\ UNCHANGED <<kind, life, flags, obuf, rbuf, handed, upc, table, inbound>>
        /\ Hears(c) /\ toServer \in [Conn -> Seq(Command)]
        /\ sock \in [Conn -> {"none", "connecting", "open", "refused", "closed"}]
        /\ \E k : sock' = [sock EXCEPT ![c] = k]
    BY DEF Accept, Refuse, Close, ServerKeeps, contextVars, handlerVars, callerVars, CallInv, TypeOK
  <1>1. \A d \in Conn : strain[d] \subseteq strain'[d]
    BY StrainGrows DEF Accept, Refuse, Close, CallInv
  <1>2. \/ UNCHANGED <<toServer, heard>>
        \/ toServer' = [toServer EXCEPT ![c] = <<>>] /\ heard' = heard \ {c}
    BY DEF Accept, Refuse, Close
  <1>3. ASSUME NEW d \in Conn, d # c PROVE Hears(d)'
    <2>1. /\ toServer'[d] = toServer[d] /\ (d \in heard' <=> d \in heard) /\ sock'[d] = sock[d]
      BY <1>0, <1>2, <1>3
    <2>2. Queues(d)
      BY <1>0, <1>1, <2>1 DEF Queues
    <2>3. HearsSame(d) /\ (Ahead(d) => Ahead(d)')
      BY <1>0, <2>2 DEF HearsSame, Ahead
    <2>4. QED
      BY <2>3, HearsOther
  <1>4. Hears(c)'
    <2>1. CASE Accept(c)
      <3>1. sock[c] = "connecting" /\ sock'[c] = "open" /\ UNCHANGED <<toServer, heard, strain>>
        BY <1>0, <2>1 DEF Accept
      <3>2. Ordered(c) => Ordered(c)'
        BY <1>0, <3>1 DEF Ordered, OnlyFirst, First
      <3>3. Listening(c)' => Listening(c)
        BY <1>0, <3>1 DEF Listening, ToHear, First
      <3>4. (Tuned(c) => Tuned(c)') /\ (Parting(c) => Parting(c)')
        BY <1>0, <3>1 DEF Tuned, Parting, Ahead, Coming
      <3>5. QED
        BY <1>0, <3>2, <3>3, <3>4 DEF Hears
    <2>2. CASE Refuse(c)
      <3>1. sock[c] = "connecting" /\ sock'[c] = "refused" /\ UNCHANGED <<toServer, heard>>
        BY <1>0, <2>2 DEF Refuse
      <3>2. Ordered(c) => Ordered(c)'
        BY <1>0, <1>1, <3>1 DEF Ordered, OnlyFirst, First
      <3>3. QED
        BY <1>0, <3>1, <3>2 DEF Hears, Listening
    <2>3. CASE Close(c)
      <3>1. sock'[c] = "closed" /\ toServer'[c] = <<>> /\ c \notin heard'
        BY <1>0, <2>3 DEF Close
      <3>2. Ordered(c) => Ordered(c)'
        BY <1>0, <1>1, <3>1 DEF Ordered, OnlyFirst, First
      <3>3. QED
        BY <1>0, <3>1, <3>2 DEF Hears, Listening
    <2>4. QED
      BY <2>1, <2>2, <2>3
  <1>5. QED
    BY <1>3, <1>4

LEMMA HearsStep ==
  ASSUME CallInv, \A d \in Conn : Alive(d), \A d \in Conn : Hears(d), [Next]_vars
  PROVE  \A d \in Conn : Hears(d)'
  <1>1. CASE UNCHANGED vars
    <2>1. UNCHANGED <<contextVars, handlerVars, serverVars, strain, callerVars>>
      BY <1>1 DEF vars, historyVars
    <2>2. QED
      BY <2>1, HearsCallerMoves DEF callerVars, Ahead
  <1>2. QED
    BY <1>1, HearsCaller, HearsOpen, HearsRead, HearsWrite, HearsExecute, HearsSocket DEF Next, Answer

(***************************************************************************)
(* unsubscribeAll forgets no listener (TSRedisController.m:544): whoever   *)
(* is sent messages is in the table or has its UNSUBSCRIBE under way,      *)
(* unless its HELLO came while the table was emptied or a handler was at   *)
(* its buffer.  The SUBSCRIBE comes first and the UNSUBSCRIBE after it in  *)
(* everything that is queued, so that the loop refuses no entry whose      *)
(* subscription still holds.                                               *)
(***************************************************************************)
THEOREM NoListenerIsForgotten == Spec => []NoForgottenListener
  <1>1. Init => (\A d \in Conn : Alive(d)) /\ (\A d \in Conn : Hears(d))
    BY DEF Init, Alive, Hears
  <1>2. CallInv /\ (\A d \in Conn : Alive(d)) /\ [Next]_vars => (\A d \in Conn : Alive(d))'
    BY AliveStep DEF CallInv
  <1>3. CallInv /\ (\A d \in Conn : Alive(d)) /\ (\A d \in Conn : Hears(d)) /\ [Next]_vars
          => (\A d \in Conn : Hears(d))'
    BY HearsStep
  <1>4. CallInv /\ (\A d \in Conn : Hears(d)) => NoForgottenListener
    <2>1. SUFFICES ASSUME CallInv, \A d \in Conn : Hears(d), NEW c \in heard
                   PROVE  \/ \E i \in 1..Len(table) : table[i] = c
                          \/ UnderWay(c, "UNSUBSCRIBE")
                          \/ strain[c] \cap {"late", "overlap"} # {}
      BY DEF NoForgottenListener
    <2>2. c \in Conn /\ kind[c] = "subscribe" /\ Hears(c)
      BY <2>1 DEF CallInv, TypeOK, Sound, Publishing
    <2>3. Parting(c)
      BY <2>2 DEF Hears, Ordered, Listening, ToHear
    <2>4. Ahead(c) => \E i \in 1..Len(table) : table[i] = c
      BY DEF Ahead
    <2>5. Coming(c) => UnderWay(c, "UNSUBSCRIBE")
      BY DEF Coming, UnderWay
    <2>6. QED
      BY <2>3, <2>4, <2>5 DEF Parting
  <1>5. QED
    BY <1>1, <1>2, <1>3, <1>4, CallInvariant, PTL DEF Spec

-----------------------------------------------------------------------------

(***************************************************************************)
(* Queues in which something comes last if it comes at all.                *)
(***************************************************************************)

Has(q, x) == \E i \in 1..Len(q) : q[i] = x

OnlyLast(q, x) == \A i \in 1..Len(q) : q[i] = x => i = Len(q)

LEMMA EmptyQueue == ASSUME NEW x PROVE ~Has(<<>>, x) /\ OnlyLast(<<>>, x)
  BY DEF Has, OnlyLast

LEMMA QueueJoined ==
  ASSUME NEW S, NEW q \in Seq(S), NEW r \in Seq(S), NEW x, ~Has(q, x), OnlyLast(r, x)
  PROVE  OnlyLast(q \o r, x) /\ (Has(q \o r, x) => Has(r, x))
  <1>1. /\ Len(q \o r) = Len(q) + Len(r) /\ Len(q) \in Nat /\ Len(r) \in Nat
        /\ \A i \in 1..Len(q) : (q \o r)[i] = q[i]
        /\ \A i \in Len(q) + 1..Len(q) + Len(r) : (q \o r)[i] = r[i - Len(q)]
    OBVIOUS
  <1>2. ASSUME NEW i \in 1..Len(q \o r), (q \o r)[i] = x
        PROVE  i - Len(q) \in 1..Len(r) /\ r[i - Len(q)] = x
    <2>1. i \notin 1..Len(q)
      BY <1>1, <1>2 DEF Has
    <2>2. QED
      BY <1>1, <1>2, <2>1
  <1> DEFINE s == q \o r
  <1>3. Len(s) = Len(q) + Len(r) /\ \A i \in 1..Len(s) : s[i] = x => i - Len(q) \in 1..Len(r) /\ r[i - Len(q)] = x
    BY <1>1, <1>2
  <1>4. Len(q) \in Nat /\ Len(r) \in Nat
    OBVIOUS
  <1> HIDE DEF s
  <1>5. Has(s, x) => Has(r, x)
    BY <1>3 DEF Has
  <1>6. OnlyLast(s, x)
    <2>1. ASSUME NEW i \in 1..Len(s), s[i] = x PROVE i = Len(s)
      <3>1. i - Len(q) = Len(r)
        BY <1>3, <2>1 DEF OnlyLast
      <3>2. QED
        BY <1>3, <1>4, <3>1
    <2>2. QED
      BY <2>1 DEF OnlyLast
  <1>7. QED
    BY <1>5, <1>6 DEF s

\* One more at the end, whatever it is.
LEMMA QueuePut ==
  ASSUME NEW S, NEW q \in Seq(S), NEW e \in S, NEW x, ~Has(q, x)
  PROVE  /\ OnlyLast(q \o <<e>>, x) /\ (Has(q \o <<e>>, x) => e = x)
         /\ OnlyLast(Append(q, e), x) /\ (Has(Append(q, e), x) => e = x)
  <1>1. <<e>> \in Seq(S) /\ Len(<<e>>) = 1 /\ <<e>>[1] = e /\ Append(q, e) = q \o <<e>>
    OBVIOUS
  <1>2. OnlyLast(<<e>>, x) /\ (Has(<<e>>, x) => e = x)
    BY <1>1 DEF OnlyLast, Has
  <1>3. OnlyLast(q \o <<e>>, x) /\ (Has(q \o <<e>>, x) => Has(<<e>>, x))
    BY <1>1, <1>2, QueueJoined
  <1>4. QED
    BY <1>1, <1>2, <1>3

LEMMA QueueTaken ==
  ASSUME NEW S, NEW q \in Seq(S), q # <<>>, NEW x, OnlyLast(q, x)
  PROVE  /\ OnlyLast(Tail(q), x) /\ (Has(Tail(q), x) => Has(q, x))
         /\ Head(q) = x => Tail(q) = <<>>
  <1>1. /\ Len(q) \in Nat /\ Len(q) > 0 /\ Len(Tail(q)) = Len(q) - 1 /\ Head(q) = q[1]
        /\ \A i \in 1..Len(q) - 1 : Tail(q)[i] = q[i + 1]
        /\ Tail(q) \in Seq(S)
    OBVIOUS
  <1> DEFINE t == Tail(q)
  <1>2. Head(q) = x => Len(q) = 1
    <2>1. 1 \in 1..Len(q)
      BY <1>1
    <2>2. QED
      BY <1>1, <2>1 DEF OnlyLast
  <1>3. Len(t) = 0 => t = <<>>
    <2>1. \A r \in Seq(S) : Len(r) = 0 => r = <<>>
      OBVIOUS
    <2>2. QED
      BY <1>1, <2>1
  <1> HIDE DEF t
  <1>4. \A i \in 1..Len(t) : i + 1 \in 1..Len(q) /\ t[i] = q[i + 1]
    BY <1>1 DEF t
  <1>5. OnlyLast(t, x) /\ (Has(t, x) => Has(q, x))
    <2>1. Len(t) = Len(q) - 1 /\ Len(q) \in Nat
      BY <1>1 DEF t
    <2>2. ASSUME NEW i \in 1..Len(t), t[i] = x PROVE i = Len(t) /\ Has(q, x)
      <3>1. i + 1 \in 1..Len(q) /\ q[i + 1] = x
        BY <1>4, <2>2
      <3>2. i + 1 = Len(q)
        BY <3>1 DEF OnlyLast
      <3>3. QED
        BY <2>1, <3>1, <3>2 DEF Has
    <2>3. QED
      BY <2>2 DEF OnlyLast, Has
  <1>6. QED
    BY <1>1, <1>2, <1>3, <1>5 DEF t

LEMMA QueueCut ==
  ASSUME NEW S, NEW q \in Seq(S), NEW k \in 1..Len(q), NEW x, OnlyLast(q, x)
  PROVE  /\ OnlyLast(SubSeq(q, 1, k), x) /\ OnlyLast(SubSeq(q, k + 1, Len(q)), x)
         /\ Has(SubSeq(q, 1, k), x) => SubSeq(q, k + 1, Len(q)) = <<>>
         /\ SubSeq(q, 1, k) \in Seq(S) /\ SubSeq(q, k + 1, Len(q)) \in Seq(S)
  <1> DEFINE a == SubSeq(q, 1, k)
             b == SubSeq(q, k + 1, Len(q))
  <1>1. /\ Len(q) \in Nat /\ Len(a) = k /\ Len(b) = Len(q) - k /\ a \in Seq(S) /\ b \in Seq(S)
        /\ \A i \in 1..k : a[i] = q[i]
        /\ \A i \in 1..Len(q) - k : b[i] = q[i + k]
    OBVIOUS
  <1>2. Len(b) = 0 => b = <<>>
    BY <1>1
  <1>3. Has(a, x) => k = Len(q)
    BY <1>1 DEF Has, OnlyLast
  <1> HIDE DEF a, b
  <1>3a. Len(q) \in Nat /\ Len(a) = k /\ Len(b) = Len(q) - k
    BY <1>1
  <1>4. OnlyLast(a, x) /\ OnlyLast(b, x)
    <2>1. ASSUME NEW i \in 1..Len(a), a[i] = x PROVE i = Len(a)
      <3>1. i \in 1..k /\ i \in 1..Len(q) /\ q[i] = x
        BY <1>1, <2>1
      <3>2. i = Len(q)
        BY <3>1 DEF OnlyLast
      <3>3. i \in 1..k
        BY <3>1
      <3>4. QED
        BY <1>3a, <3>2, <3>3
    <2>2. ASSUME NEW i \in 1..Len(b), b[i] = x PROVE i = Len(b)
      <3>1. i \in 1..Len(q) - k /\ i + k \in 1..Len(q) /\ q[i + k] = x
        BY <1>1, <2>2
      <3>2. i + k = Len(q)
        BY <3>1 DEF OnlyLast
      <3>3. QED
        BY <1>3a, <3>2
    <2>3. QED
      BY <2>1, <2>2 DEF OnlyLast
  <1>5. Has(a, x) \/ Has(b, x) => Has(q, x)
    BY <1>1, SMTT(60) DEF Has
  <1>6. QED
    BY <1>1, <1>2, <1>3, <1>4, <1>5 DEF a, b

LEMMA HasParts ==
  ASSUME NEW S, NEW q \in Seq(S), NEW r \in Seq(S), NEW x
  PROVE  Has(q \o r, x) => Has(q, x) \/ Has(r, x)
  <1>1. /\ Len(q \o r) = Len(q) + Len(r) /\ Len(q) \in Nat /\ Len(r) \in Nat
        /\ \A i \in 1..Len(q) : (q \o r)[i] = q[i]
        /\ \A i \in Len(q) + 1..Len(q) + Len(r) : (q \o r)[i] = r[i - Len(q)]
    OBVIOUS
  <1>2. ASSUME NEW i \in 1..Len(q \o r), (q \o r)[i] = x, i \notin 1..Len(q)
        PROVE  Has(r, x)
    <2>1. i - Len(q) \in 1..Len(r) /\ r[i - Len(q)] = x
      BY <1>1, <1>2
    <2>2. QED
      BY <2>1 DEF Has
  <1>3. QED
    BY <1>1, <1>2 DEF Has

LEMMA HasCut ==
  ASSUME NEW S, NEW q \in Seq(S), NEW k \in 1..Len(q), NEW x
  PROVE  Has(SubSeq(q, 1, k), x) \/ Has(SubSeq(q, k + 1, Len(q)), x) => Has(q, x)
  <1> DEFINE a == SubSeq(q, 1, k)
             b == SubSeq(q, k + 1, Len(q))
  <1>1. /\ Len(q) \in Nat /\ Len(a) = k /\ Len(b) = Len(q) - k
        /\ \A i \in 1..k : a[i] = q[i]
        /\ \A i \in 1..Len(q) - k : b[i] = q[i + k]
    OBVIOUS
  <1> HIDE DEF a, b
  <1>2. Has(a, x) \/ Has(b, x) => Has(q, x)
    BY <1>1 DEF Has
  <1>3. QED
    BY <1>2 DEF a, b

-----------------------------------------------------------------------------

(***************************************************************************)
(* What a connection is like as long as nothing has gone wrong.            *)
(***************************************************************************)

\* A handler is closing the connection.
Torn(c) == rpc[c] = "tearing" \/ wpc[c] = "tearing"

\* The context is created clean; an error and the end of the socket are known about.
Marked(c) ==
  /\ life[c] = "none" => flags[c] = {} /\ ~isReading[c]
  /\ life[c] = "live" /\ "error" \in flags[c] => Torn(c)
  /\ sock[c] = "refused" => "refused" \in strain[c]
  /\ sock[c] = "closed" /\ life[c] = "live" => "closed" \in strain[c]

Hurt(c) == strain[c] \cap {"refused", "closed", "error"} # {}

\* A subscriber is closed only after an error, and loses its callback only with
\* its subscription or by being closed.
Kept(c) ==
  kind[c] = "subscribe" =>
    /\ Torn(c) \/ life[c] = "freed" \/ "disconnecting" \in flags[c] \/ "error" \in flags[c] => Hurt(c)
    /\ Has(inbound[c], "error") \/ Has(rbuf[c], "error") => "error" \in strain[c]
    /\ "subscribed" \in flags[c] /\ ~channel[c] => "disconnecting" \in flags[c]

\* How far the UNSUBSCRIBE has come: its reply is processed, read, under way;
\* the command is sent, in the output buffer.
Over(c) == "subscribed" \notin flags[c]
EndRead(c) == Over(c) \/ Has(rbuf[c], "unsubscribed")
EndAnswered(c) == EndRead(c) \/ Has(inbound[c], "unsubscribed")
EndSent(c) == EndAnswered(c) \/ Has(toServer[c], "UNSUBSCRIBE")
EndQueued(c) == EndSent(c) \/ Has(Rest(c), "UNSUBSCRIBE")

\* There is one UNSUBSCRIBE, nothing follows it through the queues, and its
\* reply is the last one.
Final(c) ==
  kind[c] = "subscribe" /\ life[c] = "live" =>
    /\ handed[c] <= Len(obuf[c])
    /\ OnlyLast(rbuf[c], "unsubscribed") /\ OnlyLast(inbound[c], "unsubscribed")
    /\ OnlyLast(toServer[c], "UNSUBSCRIBE") /\ OnlyLast(Rest(c), "UNSUBSCRIBE")
    /\ Over(c) => rbuf[c] = <<>>
    /\ EndRead(c) => inbound[c] = <<>>
    /\ EndAnswered(c) => toServer[c] = <<>> /\ c \notin heard
    /\ EndSent(c) => Rest(c) = <<>>
    /\ EndQueued(c) => ~Ahead(c)

\* Nobody is in the table twice.
Distinct == \A i, j \in 1..Len(table) : table[i] = table[j] => i = j

Quiet(c) == toServer[c] = <<>> /\ inbound[c] = <<>> /\ rbuf[c] = <<>>
Unsent(c) == obuf[c] # <<>> /\ handed[c] = 0

\* The PUBLISH or its reply is in one place, and has its callback there unless
\* the connection is being closed.
Single(c) ==
  kind[c] = "publish" /\ life[c] = "live" =>
    /\ "subscribed" \notin flags[c]
    /\ "disconnecting" \in flags[c] => replies[c] = 0
    /\ Unsent(c) \/ sock[c] \in {"connecting", "refused"} => Quiet(c)
    /\ toServer[c] # <<>> => inbound[c] = <<>> /\ rbuf[c] = <<>>
    /\ Len(inbound[c]) <= 1 /\ Len(rbuf[c]) <= 1
    /\ inbound[c] # <<>> => rbuf[c] = <<>>
    /\ Unsent(c) \/ ~Quiet(c) => replies[c] = 1 \/ Torn(c)
    /\ wpc[c] = "tearing" /\ rpc[c] # "tearing" => Quiet(c)

\* The handlers of a PUBLISH take turns: it is written, the write is
\* unscheduled, the reply is read; one of the two closes the connection.
Sending(c) ==
  /\ readSrc[c] = "suspended" /\ ~isReading[c] /\ rpc[c] = "idle" /\ writeSrc[c] = "active"
  /\ \/ /\ wpc[c] \in {"idle", "writing", "done"} /\ isWriting[c]
        /\ wpc[c] = "writing" => handed[c] = Len(obuf[c])
     \/ wpc[c] = "unflagged" /\ ~isWriting[c]

Receiving(c) ==
  /\ readSrc[c] = "active" /\ isReading[c] /\ rpc[c] \in {"idle", "processing"}
  /\ writeSrc[c] = "suspended" /\ ~isWriting[c] /\ wpc[c] = "idle"

Closing(c) ==
  \/ rpc[c] = "tearing" /\ wpc[c] = "idle" /\ writeSrc[c] = "active"
  \/ wpc[c] = "tearing" /\ rpc[c] = "idle" /\ readSrc[c] = "active"

Turns(c) ==
  kind[c] = "publish" /\ life[c] = "live" /\ strain[c] \cap {"partial", "refired"} = {} =>
    Sending(c) \/ Receiving(c) \/ Closing(c)

Fine(c) == Marked(c) /\ Kept(c) /\ Final(c) /\ Single(c) /\ Turns(c)

FaultInv == CallInv /\ Distinct /\ \A c \in Conn : Fine(c) /\ Alive(c)

\* The excuse for a fault.
Cause(c, f) ==
  /\ f # "assertion"
  /\ f = "staleEntry" => Hurt(c)
  /\ IF kind[c] = "publish" THEN strain[c] \cap {"partial", "refired"} # {}
     ELSE strain[c] \ {"late"} # {}

LEMMA CausesFound ==
  ASSUME TypeOK, Running, NEW c \in Conn, NEW f \in Fault, Fails(c, f), Cause(c, f)'
  PROVE  FaultsHaveACause'
  <1>1. fault' = [fault EXCEPT ![c] = f] /\ fault \in [Conn -> Fault] /\ \A d \in Conn : fault[d] = "none"
    BY DEF Fails, TypeOK, Running
  <1>2. \A d \in Conn : IF d = c THEN fault'[d] = f ELSE fault'[d] = "none"
    BY <1>1
  <1>3. QED
    BY <1>2 DEF FaultsHaveACause, Cause, Hurt

LEMMA NoNewFault ==
  ASSUME Running, fault' = fault
  PROVE  FaultsHaveACause'
  BY DEF Running, FaultsHaveACause

(***************************************************************************)
(* What a step leaves alone.                                               *)
(***************************************************************************)

Still(d) ==
  /\ kind'[d] = kind[d] /\ life'[d] = life[d] /\ flags'[d] = flags[d] /\ replies'[d] = replies[d]
  /\ channel'[d] = channel[d] /\ obuf'[d] = obuf[d] /\ rbuf'[d] = rbuf[d]
  /\ isReading'[d] = isReading[d] /\ isWriting'[d] = isWriting[d]
  /\ readSrc'[d] = readSrc[d] /\ writeSrc'[d] = writeSrc[d]
  /\ rpc'[d] = rpc[d] /\ wpc'[d] = wpc[d] /\ handed'[d] = handed[d] /\ sock'[d] = sock[d]
  /\ toServer'[d] = toServer[d] /\ (d \in heard' <=> d \in heard)
  /\ strain[d] \subseteq strain'[d]
  /\ inbound'[d] = inbound[d] \/ (d \in heard /\ inbound'[d] = inbound[d] \o <<"message">>)
  /\ Ahead(d)' => Ahead(d)

LEMMA FineStays ==
  ASSUME CallInv, NEW d \in Conn, Fine(d), Still(d)
  PROVE  Fine(d)'
  <1>1. /\ inbound[d] \in Seq(Reply) /\ "message" \in Reply /\ Sound(d)
        /\ (kind[d] = "publish" => d \notin heard)
    BY DEF CallInv, TypeOK, Reply, Sound, Publishing
  <1>2. Rest(d)' = Rest(d) /\ Torn(d)' = Torn(d) /\ (Hurt(d) => Hurt(d)') /\ Over(d)' = Over(d)
    BY DEF Still, Rest, Torn, Hurt, Over
  <1>3. Marked(d)'
    BY <1>2 DEF Fine, Marked, Still
  <1>4. ASSUME NEW x \in {"error", "unsubscribed"}, ~Has(inbound[d], x)
        PROVE  ~Has(inbound[d], x)' /\ OnlyLast(inbound[d], x)'
    <2>1. OnlyLast(inbound[d], x)
      BY <1>4 DEF Has, OnlyLast
    <2>2. /\ OnlyLast(inbound[d] \o <<"message">>, x)
          /\ Has(inbound[d] \o <<"message">>, x) => "message" = x
      BY <1>1, <1>4, QueuePut
    <2>3. CASE inbound'[d] = inbound[d]
      BY <1>4, <2>1, <2>3 DEF Has, OnlyLast
    <2>4. CASE inbound'[d] = inbound[d] \o <<"message">>
      BY <1>4, <2>2, <2>4 DEF Has, OnlyLast
    <2>5. QED
      BY <2>3, <2>4 DEF Still
  <1>5. Has(rbuf[d], "error")' = Has(rbuf[d], "error") /\ Has(rbuf[d], "unsubscribed")' = Has(rbuf[d], "unsubscribed")
        /\ OnlyLast(rbuf[d], "unsubscribed")' = OnlyLast(rbuf[d], "unsubscribed")
        /\ Has(toServer[d], "UNSUBSCRIBE")' = Has(toServer[d], "UNSUBSCRIBE")
        /\ OnlyLast(toServer[d], "UNSUBSCRIBE")' = OnlyLast(toServer[d], "UNSUBSCRIBE")
        /\ Has(Rest(d), "UNSUBSCRIBE")' = Has(Rest(d), "UNSUBSCRIBE")
        /\ OnlyLast(Rest(d), "UNSUBSCRIBE")' = OnlyLast(Rest(d), "UNSUBSCRIBE")
    BY <1>2 DEF Still, Has, OnlyLast
  <1>6. Kept(d)'
    <2>1. Has(inbound[d], "error")' => Has(inbound[d], "error")
      BY <1>4
    <2>2. QED
      BY <1>2, <1>5, <2>1 DEF Fine, Kept, Still
  <1>7. Final(d)'
    <2>1. SUFFICES ASSUME kind[d] = "subscribe", life[d] = "live" PROVE Final(d)'
      BY DEF Final, Still
    <2>2. CASE inbound'[d] = inbound[d]
      <3>1. /\ Has(inbound[d], "unsubscribed")' = Has(inbound[d], "unsubscribed")
            /\ OnlyLast(inbound[d], "unsubscribed")' = OnlyLast(inbound[d], "unsubscribed")
        BY <2>2 DEF Has, OnlyLast
      <3>2. QED
        BY <1>2, <1>5, <2>1, <2>2, <3>1
        DEF Fine, Final, Still, EndRead, EndAnswered, EndSent, EndQueued
    <2>3. CASE d \in heard
      <3>1. ~EndAnswered(d)
        BY <2>1, <2>3 DEF Fine, Final
      <3>2. ~Has(inbound[d], "unsubscribed")' /\ OnlyLast(inbound[d], "unsubscribed")'
        BY <1>4, <3>1 DEF EndAnswered
      <3>3. ~EndAnswered(d)'
        BY <1>2, <1>5, <3>1, <3>2 DEF EndAnswered, EndRead
      <3>4. QED
        BY <1>2, <1>5, <2>1, <3>1, <3>2, <3>3
        DEF Fine, Final, Still, EndRead, EndAnswered, EndSent, EndQueued
    <2>4. QED
      BY <2>2, <2>3 DEF Still
  <1>8. Single(d)'
    BY <1>1, <1>2 DEF Fine, Single, Still, Quiet, Unsent
  <1>9. Turns(d)'
    BY DEF Fine, Turns, Still, Sending, Receiving, Closing
  <1>10. QED
    BY <1>3, <1>6, <1>7, <1>8, <1>9 DEF Fine

LEMMA FineAt ==
  ASSUME FaultInv, NEW c \in Conn, \A d \in Conn : d # c => Still(d), Fine(c)'
  PROVE  \A d \in Conn : Fine(d)'
  BY FineStays DEF FaultInv

LEMMA FineFails ==
  ASSUME FaultInv, Running, NEW c \in Conn, NEW f \in Fault, Fails(c, f),
         \A d \in Conn : strain[d] \subseteq strain'[d], Cause(c, f)'
  PROVE  (\A d \in Conn : Fine(d)') /\ FaultsHaveACause'
  <1>1. UNCHANGED <<contextVars, sourceVars, handlerVars, callerVars, serverVars>>
    BY DEF Fails
  <1>2. ASSUME NEW d \in Conn PROVE Still(d)
    BY <1>1 DEF Still, Ahead, contextVars, sourceVars, handlerVars, callerVars, serverVars
  <1>3. QED
    BY <1>2, FineStays, CausesFound DEF FaultInv, CallInv

\* What the handlers of c and the server's side of c do not change of d.
LEMMA StillBeside ==
  ASSUME FaultInv, NEW c \in Conn, NEW d \in Conn, d # c,
         ReadHandler(c) \/ WriteHandler(c)
  PROVE  Still(d)
  <1> USE DEF contextVars, sourceVars, handlerVars, callerVars, serverVars, historyVars
  <1>0. /\ kind \in [Conn -> {"none", "publish", "subscribe"}] /\ life \in [Conn -> {"none", "live", "freed"}]
        /\ flags \in [Conn -> SUBSET Flag] /\ replies \in [Conn -> Nat] /\ channel \in [Conn -> BOOLEAN]
        /\ obuf \in [Conn -> Seq(Command)] /\ rbuf \in [Conn -> Seq(Reply)]
        /\ isReading \in [Conn -> BOOLEAN] /\ isWriting \in [Conn -> BOOLEAN]
        /\ readSrc \in [Conn -> Source] /\ writeSrc \in [Conn -> Source]
        /\ rpc \in [Conn -> {"idle", "processing", "tearing"}]
        /\ wpc \in [Conn -> {"idle", "writing", "done", "unflagged", "tearing"}]
        /\ handed \in [Conn -> Nat]
        /\ sock \in [Conn -> {"none", "connecting", "open", "refused", "closed"}]
        /\ toServer \in [Conn -> Seq(Command)] /\ inbound \in [Conn -> Seq(Reply)]
        /\ strain \in [Conn -> SUBSET Strain] /\ TypeOK
    BY DEF FaultInv, CallInv, TypeOK
  <1>1. AddRead(c) => isReading'[d] = isReading[d] /\ readSrc'[d] = readSrc[d]
    BY <1>0 DEF AddRead
  <1>2. AddWrite(c) => isWriting'[d] = isWriting[d] /\ writeSrc'[d] = writeSrc[d]
    BY <1>0 DEF AddWrite
  <1>3. ASSUME NEW f, Abandon(c, f)
        PROVE  /\ flags'[d] = flags[d] /\ replies'[d] = replies[d] /\ channel'[d] = channel[d]
               /\ UNCHANGED <<kind, life, obuf>>
    BY <1>0, <1>3 DEF Abandon, Raise
  <1>4. strain'[d] = strain[d]
    <2>1. CASE WriteFails(c) \/ WriteOut(c) \/ ReadFails(c) \/ ReadIn(c)
      <3>1. UNCHANGED strain \/ Strained(c, "refired") \/ Strained(c, "partial")
        BY <2>1 DEF WriteFails, WriteOut, ReadFails, ReadIn, StrainedIf
      <3>2. QED
        BY <1>0, <3>1, StrainGrows
    <2>2. CASE ~(WriteFails(c) \/ WriteOut(c) \/ ReadFails(c) \/ ReadIn(c))
      BY <2>2 DEF ReadHandler, WriteHandler, WriteTrim, WriteUnflag, WriteSuspend, ReleaseByWrite,
                  ReleaseByRead, ProcessRegular, ProcessError, ProcessSubscriber, ProcessEnds, Disconnect
    <2>3. QED
      BY <2>1, <2>2
  <1>5. ASSUME NEW f, Fails(c, f) PROVE Still(d)
    BY <1>4, <1>5 DEF Fails, Still, Ahead
  <1>6. ASSUME NEW f, TearByRead(c, f) PROVE Still(d)
    <2>1. CASE Fails(c, "overResume")
      BY <1>5, <2>1
    <2>2. CASE ~Fails(c, "overResume")
      <3>1. /\ Abandon(c, f) /\ AddWrite(c)
            /\ rpc' = [rpc EXCEPT ![c] = "tearing"] /\ readSrc' = [readSrc EXCEPT ![c] = "cancelled"]
            /\ UNCHANGED <<rbuf, isReading, wpc, handed, callerVars, serverVars>>
        BY <1>6, <2>2 DEF TearByRead
      <3>2. rpc'[d] = rpc[d] /\ readSrc'[d] = readSrc[d]
        BY <1>0, <3>1
      <3>3. QED
        BY <1>2, <1>3, <1>4, <3>1, <3>2 DEF Still, Ahead
    <2>3. QED
      BY <2>1, <2>2
  <1>7. ASSUME NEW f, TearByWrite(c, f) PROVE Still(d)
    <2>1. /\ Abandon(c, f) /\ AddRead(c) /\ wpc' = [wpc EXCEPT ![c] = "tearing"]
          /\ UNCHANGED <<rbuf, isWriting, writeSrc, rpc, handed, callerVars, serverVars>>
      BY <1>7 DEF TearByWrite
    <2>2. wpc'[d] = wpc[d]
      BY <1>0, <2>1
    <2>3. QED
      BY <1>1, <1>3, <1>4, <2>1, <2>2 DEF Still, Ahead
  <1>8. ASSUME NEW other, NEW src, Release(c, other, src) PROVE Still(d)
    <2>1. CASE Fails(c, "useAfterFree") \/ Fails(c, "releasedSuspended")
      BY <1>5, <2>1
    <2>2. CASE ~(Fails(c, "useAfterFree") \/ Fails(c, "releasedSuspended"))
      <3>1. /\ life' = [life EXCEPT ![c] = "freed"] /\ flags' = [flags EXCEPT ![c] = {}]
            /\ obuf' = [obuf EXCEPT ![c] = <<>>] /\ rbuf' = [rbuf EXCEPT ![c] = <<>>]
            /\ isReading' = [isReading EXCEPT ![c] = FALSE]
            /\ isWriting' = [isWriting EXCEPT ![c] = FALSE]
            /\ readSrc' = [readSrc EXCEPT ![c] = "cancelled"]
            /\ writeSrc' = [writeSrc EXCEPT ![c] = "cancelled"]
            /\ rpc' = [rpc EXCEPT ![c] = "idle"] /\ wpc' = [wpc EXCEPT ![c] = "idle"]
            /\ sock' = [sock EXCEPT ![c] = "closed"] /\ inbound' = [inbound EXCEPT ![c] = <<>>]
            /\ heard' = heard \ {c}
            /\ UNCHANGED <<kind, replies, channel, handed, callerVars, toServer>>
        BY <1>8, <2>2 DEF Release
      <3>2. /\ life'[d] = life[d] /\ flags'[d] = flags[d] /\ obuf'[d] = obuf[d] /\ rbuf'[d] = rbuf[d]
            /\ isReading'[d] = isReading[d] /\ isWriting'[d] = isWriting[d]
            /\ readSrc'[d] = readSrc[d] /\ writeSrc'[d] = writeSrc[d]
            /\ rpc'[d] = rpc[d] /\ wpc'[d] = wpc[d] /\ sock'[d] = sock[d] /\ inbound'[d] = inbound[d]
        BY <1>0, <3>1
      <3>3. QED
        BY <1>4, <3>1, <3>2 DEF Still, Ahead
    <2>3. QED
      BY <2>1, <2>2
  <1>9. CASE WriteOut(c)
    <2>1. flags'[d] = flags[d] /\ wpc'[d] = wpc[d] /\ handed'[d] = handed[d] /\ toServer'[d] = toServer[d]
      BY <1>0, <1>9 DEF WriteOut, Raise
    <2>2. QED
      BY <1>4, <1>9, <2>1 DEF WriteOut, Still, Ahead
  <1>10. CASE WriteTrim(c)
    <2>1. obuf'[d] = obuf[d] /\ wpc'[d] = wpc[d] /\ handed'[d] = handed[d]
      BY <1>0, <1>10 DEF WriteTrim
    <2>2. isWriting'[d] = isWriting[d] /\ writeSrc'[d] = writeSrc[d] /\ isReading'[d] = isReading[d]
          /\ readSrc'[d] = readSrc[d]
      BY <1>1, <1>2, <1>10 DEF WriteTrim
    <2>3. QED
      BY <1>4, <1>10, <2>1, <2>2 DEF WriteTrim, Still, Ahead
  <1>11. CASE WriteUnflag(c)
    <2>1. isWriting'[d] = isWriting[d] /\ wpc'[d] = wpc[d]
      BY <1>0, <1>11 DEF WriteUnflag
    <2>2. QED
      BY <1>4, <1>11, <2>1 DEF WriteUnflag, Still, Ahead
  <1>12. CASE WriteSuspend(c)
    <2>1. writeSrc'[d] = writeSrc[d] /\ wpc'[d] = wpc[d]
      BY <1>0, <1>12 DEF WriteSuspend
    <2>2. QED
      BY <1>1, <1>4, <1>12, <2>1 DEF WriteSuspend, Still, Ahead
  <1>13. CASE ReadIn(c)
    <2>1. flags'[d] = flags[d] /\ rpc'[d] = rpc[d] /\ rbuf'[d] = rbuf[d] /\ inbound'[d] = inbound[d]
      BY <1>0, <1>13 DEF ReadIn, Raise
    <2>2. QED
      BY <1>1, <1>4, <1>13, <2>1 DEF ReadIn, Still, Ahead
  <1>14. CASE ProcessRegular(c)
    <2>1. flags'[d] = flags[d] /\ replies'[d] = replies[d] /\ rbuf'[d] = rbuf[d]
      BY <1>0, <1>14 DEF ProcessRegular, Raise
    <2>2. QED
      BY <1>4, <1>14, <2>1 DEF ProcessRegular, Still, Ahead
  <1>15. CASE ProcessSubscriber(c)
    <2>1. CASE \E f : Fails(c, f)
      BY <1>5, <2>1
    <2>2. CASE ~\E f : Fails(c, f)
      <3>1. flags'[d] = flags[d] /\ channel'[d] = channel[d] /\ rbuf'[d] = rbuf[d]
        BY <1>0, <1>15, <2>2 DEF ProcessSubscriber
      <3>2. UNCHANGED <<kind, life, replies, obuf, sourceVars, handlerVars, callerVars, serverVars>>
        BY <1>15, <2>2 DEF ProcessSubscriber
      <3>3. QED
        BY <1>4, <3>1, <3>2 DEF Still, Ahead
    <2>3. QED
      BY <2>1, <2>2
  <1>16. CASE ProcessEnds(c)
    <2>1. rpc'[d] = rpc[d]
      BY <1>0, <1>16 DEF ProcessEnds
    <2>2. QED
      BY <1>4, <1>16, <2>1 DEF ProcessEnds, Still, Ahead
  <1>17. CASE WriteFails(c) \/ ReadFails(c) \/ ProcessError(c) \/ Disconnect(c)
    BY <1>5, <1>6, <1>7, <1>17 DEF WriteFails, ReadFails, ProcessError, Disconnect
  <1>18. CASE ReleaseByRead(c) \/ ReleaseByWrite(c)
    BY <1>8, <1>18 DEF ReleaseByRead, ReleaseByWrite
  <1>19. QED
    BY <1>9, <1>10, <1>11, <1>12, <1>13, <1>14, <1>15, <1>16, <1>17, <1>18 DEF ReadHandler, WriteHandler

LEMMA TypesAt ==
  ASSUME FaultInv, NEW c \in Conn
  PROVE  /\ TypeOK /\ Sound(c) /\ Fine(c) /\ Alive(c) /\ Marked(c) /\ Kept(c) /\ Final(c) /\ Single(c) /\ Turns(c)
         /\ flags[c] \subseteq Flag /\ replies[c] \in Nat /\ channel[c] \in BOOLEAN
         /\ obuf[c] \in Seq(Command) /\ rbuf[c] \in Seq(Reply)
         /\ isReading[c] \in BOOLEAN /\ isWriting[c] \in BOOLEAN
         /\ toServer[c] \in Seq(Command) /\ inbound[c] \in Seq(Reply)
         /\ handed[c] \in Nat /\ Len(obuf[c]) \in Nat /\ strain[c] \subseteq Strain
  <1>1. TypeOK /\ Sound(c) /\ Fine(c) /\ Alive(c)
    BY DEF FaultInv, CallInv
  <1>2. Marked(c) /\ Kept(c) /\ Final(c) /\ Single(c) /\ Turns(c)
    BY <1>1 DEF Fine
  <1>3. /\ flags[c] \subseteq Flag /\ replies[c] \in Nat /\ channel[c] \in BOOLEAN
        /\ obuf[c] \in Seq(Command) /\ rbuf[c] \in Seq(Reply)
        /\ isReading[c] \in BOOLEAN /\ isWriting[c] \in BOOLEAN
        /\ toServer[c] \in Seq(Command) /\ inbound[c] \in Seq(Reply)
        /\ handed[c] \in Nat /\ strain[c] \subseteq Strain
    BY <1>1 DEF TypeOK
  <1>4. QED
    BY <1>1, <1>2, <1>3

\* The queues of c stay as they are, or the context is freed.
LEMMA FinalStays ==
  ASSUME NEW c, Final(c), kind'[c] = kind[c],
         life'[c] = "live" => /\ life[c] = "live"
                              /\ obuf'[c] = obuf[c] /\ handed'[c] = handed[c] /\ rbuf'[c] = rbuf[c]
                              /\ inbound'[c] = inbound[c] /\ toServer'[c] = toServer[c]
                              /\ ("subscribed" \in flags'[c] <=> "subscribed" \in flags[c]),
         c \in heard' => c \in heard, Ahead(c)' => Ahead(c)
  PROVE  Final(c)'
  <1>1. SUFFICES ASSUME kind[c] = "subscribe", life'[c] = "live" PROVE Final(c)'
    BY DEF Final
  <1>2. Rest(c)' = Rest(c) /\ Over(c)' = Over(c)
    BY <1>1 DEF Rest, Over
  <1>3. /\ Has(rbuf[c], "unsubscribed")' = Has(rbuf[c], "unsubscribed")
        /\ OnlyLast(rbuf[c], "unsubscribed")' = OnlyLast(rbuf[c], "unsubscribed")
        /\ Has(inbound[c], "unsubscribed")' = Has(inbound[c], "unsubscribed")
        /\ OnlyLast(inbound[c], "unsubscribed")' = OnlyLast(inbound[c], "unsubscribed")
        /\ Has(toServer[c], "UNSUBSCRIBE")' = Has(toServer[c], "UNSUBSCRIBE")
        /\ OnlyLast(toServer[c], "UNSUBSCRIBE")' = OnlyLast(toServer[c], "UNSUBSCRIBE")
        /\ Has(Rest(c), "UNSUBSCRIBE")' = Has(Rest(c), "UNSUBSCRIBE")
        /\ OnlyLast(Rest(c), "UNSUBSCRIBE")' = OnlyLast(Rest(c), "UNSUBSCRIBE")
    BY <1>1, <1>2 DEF Has, OnlyLast
  <1>4. QED
    BY <1>1, <1>2, <1>3 DEF Final, EndRead, EndAnswered, EndSent, EndQueued

LEMMA FineWriteFails ==
  ASSUME FaultInv, NEW c \in Conn, WriteFails(c)
  PROVE  Fine(c)' /\ fault' = fault
  <1>0. /\ TypeOK /\ Sound(c) /\ Fine(c) /\ Marked(c) /\ Kept(c) /\ Final(c) /\ Single(c) /\ Turns(c)
        /\ isReading[c] \in BOOLEAN
    BY TypesAt
  <1>1. /\ life[c] = "live" /\ wpc[c] = "idle" /\ writeSrc[c] = "active"
        /\ \/ sock[c] = "refused"
           \/ sock[c] = "closed" /\ obuf[c] # <<>>
           \/ "error" \in flags[c]
        /\ Abandon(c, {"error", "disconnecting"}) /\ AddRead(c)
        /\ StrainedIf(rpc[c] = "tearing", c, "refired")
    BY DEF WriteFails, Writable, TearByWrite
  <1>2. /\ flags'[c] = flags[c] \cup {"error", "disconnecting"} /\ replies'[c] = 0 /\ wpc'[c] = "tearing"
        /\ UNCHANGED <<kind, life, obuf, rbuf, isWriting, writeSrc, rpc, handed, table, upc, sock, toServer,
                       inbound, heard, fault>>
    BY <1>0, <1>1 DEF WriteFails, TearByWrite, Abandon, Raise, TypeOK, callerVars, serverVars
  <1>3. strain[c] \subseteq strain'[c] /\ (rpc[c] = "tearing" => "refired" \in strain'[c])
    BY <1>0, <1>1, StrainGrows, StrainMarks DEF StrainedIf
  <1>4. ~isReading[c] /\ readSrc[c] = "suspended" => readSrc'[c] = "active"
    BY <1>0, <1>1 DEF AddRead, Droppable, TypeOK
  <1>5. Marked(c)'
    BY <1>0, <1>1, <1>2, <1>3 DEF Marked, Torn
  <1>6. Kept(c)'
    <2>1. kind[c] = "subscribe" => Hurt(c)
      BY <1>0, <1>1 DEF Kept, Marked, Hurt
    <2>2. QED
      BY <1>0, <1>2, <1>3, <2>1 DEF Kept, Hurt, Has
  <1>7. Final(c)'
    BY <1>0, <1>1, <1>2, FinalStays DEF Ahead
  <1>8. Single(c)'
    <2>1. kind[c] = "publish" /\ rpc[c] # "tearing" => Quiet(c)
      BY <1>0, <1>1 DEF Single, Marked, Torn, Unsent, Sound
    <2>2. QED
      BY <1>0, <1>1, <1>2, <2>1 DEF Single, Quiet, Unsent, Torn
  <1>9. Turns(c)'
    BY <1>0, <1>1, <1>2, <1>3, <1>4 DEF Turns, Sending, Receiving, Closing
  <1>10. QED
    BY <1>2, <1>5, <1>6, <1>7, <1>8, <1>9 DEF Fine

LEMMA FineWriteUnflag ==
  ASSUME FaultInv, NEW c \in Conn, WriteUnflag(c) \/ WriteSuspend(c)
  PROVE  Fine(c)' /\ fault' = fault
  <1>0. /\ TypeOK /\ Sound(c) /\ Fine(c) /\ Marked(c) /\ Kept(c) /\ Final(c) /\ Single(c) /\ Turns(c) /\ Alive(c)
        /\ isReading[c] \in BOOLEAN
    BY TypesAt
  <1>1. /\ wpc[c] \in {"done", "unflagged"} /\ life[c] = "live"
        /\ wpc'[c] = (IF wpc[c] = "done" THEN "unflagged" ELSE "idle")
        /\ wpc[c] = "done" => ~isWriting'[c] /\ UNCHANGED <<isReading, readSrc, writeSrc>>
        /\ wpc[c] = "unflagged" => /\ AddRead(c) /\ isWriting' = isWriting
                                   /\ writeSrc[c] = "active" => writeSrc'[c] = "suspended"
        /\ UNCHANGED <<kind, life, flags, replies, channel, obuf, rbuf, rpc, handed, table, upc, sock,
                       toServer, inbound, heard, strain, fault>>
    BY <1>0 DEF WriteUnflag, WriteSuspend, TypeOK, Alive, contextVars, sourceVars, callerVars, serverVars,
                historyVars
  <1>2. AddRead(c) /\ ~isReading[c] /\ readSrc[c] = "suspended" => readSrc'[c] = "active" /\ isReading'[c]
    BY <1>0 DEF AddRead, Droppable, TypeOK
  <1>3. Marked(c)'
    BY <1>0, <1>1 DEF Marked, Torn
  <1>4. Kept(c)'
    BY <1>0, <1>1 DEF Kept, Hurt, Has, Torn
  <1>5. Final(c)'
    BY <1>0, <1>1, FinalStays DEF Ahead
  <1>6. Single(c)'
    BY <1>0, <1>1 DEF Single, Quiet, Unsent, Torn
  <1>7. Turns(c)'
    BY <1>0, <1>1, <1>2 DEF Turns, Sending, Receiving, Closing
  <1>8. QED
    BY <1>1, <1>3, <1>4, <1>5, <1>6, <1>7 DEF Fine

LEMMA WholeQueue ==
  ASSUME NEW S, NEW q \in Seq(S)
  PROVE  SubSeq(q, 0 + 1, Len(q)) = q /\ SubSeq(q, Len(q) + 1, Len(q)) = <<>>
  OBVIOUS

LEMMA FineWriteOut ==
  ASSUME FaultInv, NEW c \in Conn, WriteOut(c)
  PROVE  Fine(c)' /\ fault' = fault
  <1>0. /\ TypeOK /\ Sound(c) /\ Fine(c) /\ Marked(c) /\ Kept(c) /\ Final(c) /\ Single(c) /\ Turns(c)
        /\ obuf[c] \in Seq(Command) /\ toServer[c] \in Seq(Command) /\ Len(obuf[c]) \in Nat
    BY TypesAt
  <1>1. /\ life[c] = "live" /\ wpc[c] = "idle" /\ writeSrc[c] = "active" /\ sock[c] \in {"open", "closed"}
        /\ flags'[c] = flags[c] \cup {"connected"} /\ wpc'[c] = "writing"
        /\ UNCHANGED <<kind, life, replies, channel, obuf, rbuf, isReading, isWriting, readSrc, writeSrc, rpc,
                       table, upc, sock, inbound, heard, fault>>
    BY <1>0 DEF WriteOut, Writable, Raise, TypeOK, sourceVars, callerVars
  <1>2. /\ handed[c] = 0 /\ Rest(c) = obuf[c]
    BY <1>0, <1>1, WholeQueue DEF Sound, Rest
  <1>3. \/ UNCHANGED <<handed, toServer>> /\ "partial" \in strain'[c]
        \/ /\ handed'[c] = Len(obuf[c]) /\ toServer'[c] \in {toServer[c], toServer[c] \o obuf[c]}
           /\ rpc[c] = "tearing" => "refired" \in strain'[c]
    <2>1. CASE UNCHANGED <<handed, toServer>> /\ Strained(c, "partial")
      BY <1>0, <2>1, StrainMarks
    <2>2. CASE /\ handed' = [handed EXCEPT ![c] = Len(obuf[c])]
               /\ toServer' = IF sock[c] = "open" THEN [toServer EXCEPT ![c] = toServer[c] \o obuf[c]]
                              ELSE toServer
               /\ StrainedIf(rpc[c] = "tearing", c, "refired")
      <3>1. rpc[c] = "tearing" => "refired" \in strain'[c]
        BY <1>0, <2>2, StrainMarks DEF StrainedIf
      <3>2. handed'[c] = Len(obuf[c])
        BY <1>0, <2>2 DEF TypeOK
      <3>3. toServer'[c] \in {toServer[c], toServer[c] \o obuf[c]}
        BY <1>0, <2>2 DEF TypeOK
      <3>4. QED
        BY <3>1, <3>2, <3>3
    <2>3. QED
      BY <2>1, <2>2 DEF WriteOut
  <1>4. strain[c] \subseteq strain'[c]
    <2>1. UNCHANGED strain \/ Strained(c, "refired") \/ Strained(c, "partial")
      BY DEF WriteOut, StrainedIf
    <2>2. QED
      BY <1>0, <2>1, StrainGrows
  <1>5. Marked(c)'
    BY <1>0, <1>1, <1>4 DEF Marked, Torn
  <1>6. Kept(c)'
    BY <1>0, <1>1, <1>4 DEF Kept, Hurt, Has, Torn
  <1>7. ASSUME handed'[c] = Len(obuf[c]), toServer'[c] = toServer[c] \o obuf[c]
        PROVE  Final(c)'
    <2>1. Rest(c)' = <<>>
      BY <1>0, <1>1, <1>7, WholeQueue DEF Rest
    <2>2. ASSUME kind[c] = "subscribe" PROVE Final(c)'
      <3>1. CASE EndSent(c)
        <4>1. obuf[c] = <<>> /\ toServer[c] \o <<>> = toServer[c]
          BY <1>0, <1>1, <1>2, <2>2, <3>1 DEF Final
        <4>2. handed'[c] = handed[c] /\ toServer'[c] = toServer[c]
          BY <1>2, <1>7, <4>1
        <4>3. QED
          BY <1>0, <1>1, <4>2, FinalStays DEF Ahead
      <3>2. CASE ~EndSent(c)
        <4>1. /\ OnlyLast(toServer[c] \o obuf[c], "UNSUBSCRIBE")
              /\ Has(toServer[c] \o obuf[c], "UNSUBSCRIBE") => Has(obuf[c], "UNSUBSCRIBE")
          BY <1>0, <1>1, <1>2, <2>2, <3>2, QueueJoined DEF Final, EndSent
        <4>2. ~EndAnswered(c)' /\ (EndSent(c)' => EndQueued(c))
          BY <1>1, <1>2, <1>7, <3>2, <4>1 DEF EndSent, EndAnswered, EndRead, EndQueued, Over, Has
        <4>3. OnlyLast(toServer[c], "UNSUBSCRIBE")'
          BY <1>7, <4>1 DEF OnlyLast
        <4>4. OnlyLast(Rest(c), "UNSUBSCRIBE")' /\ ~Has(Rest(c), "UNSUBSCRIBE")'
          BY <2>1, EmptyQueue DEF Has, OnlyLast
        <4>5. EndQueued(c)' => ~Ahead(c)'
          BY <1>0, <1>1, <2>2, <4>2, <4>4 DEF EndQueued, Final, Ahead
        <4>6. /\ OnlyLast(rbuf[c], "unsubscribed")' /\ OnlyLast(inbound[c], "unsubscribed")'
          BY <1>0, <1>1, <2>2 DEF Final, OnlyLast
        <4>7. ~EndRead(c)' /\ ~Over(c)'
          BY <4>2 DEF EndAnswered, EndRead
        <4>8. handed'[c] <= Len(obuf'[c])
          BY <1>0, <1>1, <1>7
        <4>9. QED
          BY <2>1, <4>2, <4>3, <4>4, <4>5, <4>6, <4>7, <4>8 DEF Final
      <3>3. QED
        BY <3>1, <3>2
    <2>3. QED
      BY <1>1, <2>2 DEF Final
  <1>8. ASSUME handed'[c] = Len(obuf[c]), toServer'[c] = toServer[c]
        PROVE  Final(c)'
    <2>1. Rest(c)' = <<>>
      BY <1>0, <1>1, <1>8, WholeQueue DEF Rest
    <2>2. /\ OnlyLast(Rest(c), "UNSUBSCRIBE")' /\ ~Has(Rest(c), "UNSUBSCRIBE")'
      BY <2>1, EmptyQueue DEF Has, OnlyLast
    <2>3. /\ Over(c)' = Over(c) /\ EndRead(c)' = EndRead(c) /\ EndAnswered(c)' = EndAnswered(c)
          /\ EndSent(c)' = EndSent(c)
      BY <1>1, <1>8 DEF EndSent, EndAnswered, EndRead, Over, Has
    <2>4. EndQueued(c)' => EndQueued(c)
      BY <2>2, <2>3 DEF EndQueued
    <2>5. QED
      BY <1>0, <1>1, <1>8, <2>1, <2>2, <2>3, <2>4 DEF Final, OnlyLast, Ahead
  <1>9. ASSUME UNCHANGED <<handed, toServer>> PROVE Final(c)'
    BY <1>0, <1>1, <1>9, FinalStays DEF Ahead
  <1>10. Final(c)'
    BY <1>3, <1>7, <1>8, <1>9
  <1>11. Single(c)'
    <2>1. SUFFICES ASSUME kind[c] = "publish" PROVE Single(c)'
      BY <1>1 DEF Single
    <2>2. obuf[c] \in {<<>>, <<"PUBLISH">>} /\ Len(<<"PUBLISH">>) = 1 /\ toServer[c] \o <<>> = toServer[c]
          /\ Len(<<>>) = 0
      BY <1>0, <2>1 DEF Sound, Publishing
    <2>3. CASE UNCHANGED <<handed, toServer>>
      BY <1>0, <1>1, <2>1, <2>3 DEF Single, Quiet, Unsent, Torn
    <2>4. CASE obuf[c] = <<>> /\ handed'[c] = Len(obuf[c]) /\ toServer'[c] \in {toServer[c], toServer[c] \o obuf[c]}
      <3>1. toServer'[c] = toServer[c] /\ handed'[c] = handed[c]
        BY <1>2, <2>2, <2>4
      <3>2. QED
        BY <1>0, <1>1, <2>1, <3>1 DEF Single, Quiet, Unsent, Torn
    <2>5. CASE obuf[c] = <<"PUBLISH">> /\ handed'[c] = Len(obuf[c])
      <3>1. Unsent(c) /\ ~Unsent(c)' /\ Quiet(c)
        BY <1>0, <1>1, <1>2, <2>1, <2>2, <2>5 DEF Unsent, Single
      <3>2. QED
        BY <1>0, <1>1, <2>1, <3>1 DEF Single, Quiet, Torn
    <2>6. QED
      BY <1>3, <2>2, <2>3, <2>4, <2>5
  <1>12. Turns(c)'
    BY <1>0, <1>1, <1>3, <1>4 DEF Turns, Sending, Receiving, Closing
  <1>13. QED
    BY <1>1, <1>5, <1>6, <1>10, <1>11, <1>12 DEF Fine

LEMMA FineWriteTrim ==
  ASSUME FaultInv, NEW c \in Conn, WriteTrim(c)
  PROVE  Fine(c)' /\ fault' = fault
  <1>0. /\ TypeOK /\ Sound(c) /\ Fine(c) /\ Marked(c) /\ Kept(c) /\ Final(c) /\ Single(c) /\ Turns(c) /\ Alive(c)
        /\ obuf[c] \in Seq(Command) /\ Len(obuf[c]) \in Nat /\ handed[c] \in Nat
    BY TypesAt
  <1>1. PICK rest \in {Rest(c), <<>>} :
          /\ rest # <<>> \/ Rest(c) = <<>> \/ handed[c] > 0
          /\ obuf' = [obuf EXCEPT ![c] = rest]
          /\ IF rest = <<>>
             THEN wpc' = [wpc EXCEPT ![c] = "done"] /\ UNCHANGED sourceVars
             ELSE wpc' = [wpc EXCEPT ![c] = "idle"] /\ AddWrite(c) /\ AddRead(c)
    BY DEF WriteTrim
  <1>2. /\ wpc[c] = "writing" /\ life[c] = "live" /\ obuf'[c] = rest /\ handed'[c] = 0
        /\ rest = <<>> => wpc'[c] = "done" /\ UNCHANGED <<isReading, isWriting, readSrc, writeSrc>>
        /\ rest # <<>> => wpc'[c] = "idle"
        /\ UNCHANGED <<kind, life, flags, replies, channel, rbuf, rpc, table, upc, sock,
                       toServer, inbound, heard, strain, fault>>
    BY <1>0, <1>1 DEF WriteTrim, TypeOK, Alive, sourceVars, callerVars, serverVars, historyVars
  <1>3. Rest(c) \in Seq(Command) /\ (handed[c] = 0 => Rest(c) = obuf[c])
        /\ (handed[c] = Len(obuf[c]) => Rest(c) = <<>>)
    BY <1>0, WholeQueue DEF Rest
  <1>4. Rest(c)' = rest
    <2>1. rest \in Seq(Command)
      <3>1. <<>> \in Seq(Command)
        OBVIOUS
      <3>2. QED
        BY <1>3, <3>1
    <2>2. Rest(c)' = SubSeq(rest, 0 + 1, Len(rest))
      BY <1>2 DEF Rest
    <2>3. QED
      BY <2>1, <2>2, WholeQueue
  <1>5. Marked(c)'
    BY <1>0, <1>2 DEF Marked, Torn
  <1>6. Kept(c)'
    BY <1>0, <1>2 DEF Kept, Hurt, Has, Torn
  <1>7. Final(c)'
    <2>1. SUFFICES ASSUME kind[c] = "subscribe" PROVE Final(c)'
      BY <1>2 DEF Final
    <2>2. /\ OnlyLast(rest, "UNSUBSCRIBE") /\ (Has(rest, "UNSUBSCRIBE") => Has(Rest(c), "UNSUBSCRIBE"))
      BY <1>0, <1>2, <2>1, EmptyQueue DEF Final
    <2>3. OnlyLast(Rest(c), "UNSUBSCRIBE")' /\ (Has(Rest(c), "UNSUBSCRIBE")' => Has(Rest(c), "UNSUBSCRIBE"))
      BY <1>4, <2>2 DEF OnlyLast, Has
    <2>4. /\ Over(c)' = Over(c) /\ EndRead(c)' = EndRead(c) /\ EndAnswered(c)' = EndAnswered(c)
          /\ EndSent(c)' = EndSent(c)
      BY <1>2 DEF EndSent, EndAnswered, EndRead, Over, Has
    <2>5. EndSent(c) => Rest(c)' = <<>>
      BY <1>0, <1>2, <1>4, <2>1 DEF Final
    <2>6. EndQueued(c)' => ~Ahead(c)'
      BY <1>0, <1>2, <2>1, <2>3, <2>4 DEF EndQueued, Final, Ahead
    <2>7. /\ OnlyLast(rbuf[c], "unsubscribed")' /\ OnlyLast(inbound[c], "unsubscribed")'
          /\ OnlyLast(toServer[c], "UNSUBSCRIBE")'
      BY <1>0, <1>2, <2>1 DEF Final, OnlyLast
    <2>8. handed'[c] <= Len(obuf'[c])
      BY <1>2, <1>3
    <2>9. /\ Over(c)' => rbuf'[c] = <<>>
          /\ EndRead(c)' => inbound'[c] = <<>>
          /\ EndAnswered(c)' => toServer'[c] = <<>> /\ c \notin heard'
      BY <1>0, <1>2, <2>1, <2>4 DEF Final
    <2>10. QED
      BY <2>3, <2>4, <2>5, <2>6, <2>7, <2>8, <2>9 DEF Final
  <1>8. Single(c)'
    <2>1. SUFFICES ASSUME kind[c] = "publish" PROVE Single(c)'
      BY <1>2 DEF Single
    <2>2. Unsent(c)' => Unsent(c)
      <3>1. obuf[c] \in {<<>>, <<"PUBLISH">>} /\ handed[c] \in {0, 1} /\ Len(<<"PUBLISH">>) = 1
        BY <1>0, <2>1 DEF Sound, Publishing
      <3>2. obuf[c] = <<>> => Rest(c) = <<>>
        BY DEF Rest
      <3>3. QED
        BY <1>1, <1>2, <1>3, <3>1, <3>2 DEF Unsent
    <2>3. QED
      BY <1>0, <1>2, <2>1, <2>2 DEF Single, Quiet, Torn
  <1>9. Turns(c)'
    BY <1>0, <1>2, <1>3 DEF Turns, Sending, Receiving, Closing
  <1>10. QED
    BY <1>2, <1>5, <1>6, <1>7, <1>8, <1>9 DEF Fine

LEMMA FineRelease ==
  ASSUME FaultInv, Running, NEW c \in Conn, ReleaseByRead(c) \/ ReleaseByWrite(c)
  PROVE  (\A d \in Conn : Fine(d)') /\ FaultsHaveACause'
  <1>0. /\ TypeOK /\ Sound(c) /\ Fine(c) /\ Marked(c) /\ Kept(c) /\ Final(c) /\ Single(c) /\ Turns(c) /\ Alive(c)
        /\ strain[c] \subseteq Strain
    BY TypesAt
  <1>1. Torn(c) /\ life[c] = "live" /\ kind[c] # "none" /\ strain' = strain
    BY <1>0 DEF ReleaseByRead, ReleaseByWrite, Torn, Alive, Sound
  <1>2. kind[c] # "publish" => Hurt(c)
    BY <1>0, <1>1 DEF Kept, TypeOK
  <1>3. ASSUME NEW f \in {"useAfterFree", "releasedSuspended"}, Fails(c, f)
        PROVE  (\A d \in Conn : Fine(d)') /\ FaultsHaveACause'
    <2>1. kind[c] = "publish" => strain[c] \cap {"partial", "refired"} # {}
      <3>1. ASSUME kind[c] = "publish", strain[c] \cap {"partial", "refired"} = {} PROVE FALSE
        <4>1. Closing(c)
          BY <1>0, <1>1, <3>1 DEF Turns, Sending, Receiving, Torn
        <4>2. fault'[c] # "none" /\ life' = life
          BY <1>0, <1>3 DEF Fails, contextVars, TypeOK
        <4>3. ReleaseByRead(c) => rpc[c] = "tearing" /\ (wpc[c] # "idle" \/ writeSrc[c] = "suspended")
          BY <1>0, <1>1, <4>2 DEF ReleaseByRead, Release, TypeOK
        <4>4. ReleaseByWrite(c) => wpc[c] = "tearing" /\ (rpc[c] # "idle" \/ readSrc[c] = "suspended")
          BY <1>0, <1>1, <4>2 DEF ReleaseByWrite, Release, TypeOK
        <4>5. QED
          BY <4>1, <4>3, <4>4 DEF Closing
      <3>2. QED
        BY <3>1
    <2>2. kind' = kind
      BY <1>3 DEF Fails, contextVars
    <2>3. Cause(c, f)'
      BY <1>1, <1>2, <1>3, <2>1, <2>2 DEF Cause, Hurt
    <2>4. f \in Fault
      BY DEF Fault
    <2>5. QED
      BY <1>1, <1>3, <2>3, <2>4, FineFails
  <1>4. CASE ~(Fails(c, "useAfterFree") \/ Fails(c, "releasedSuspended"))
    <2>1. /\ life'[c] = "freed" /\ flags'[c] = {} /\ rbuf'[c] = <<>> /\ inbound'[c] = <<>> /\ sock'[c] = "closed"
          /\ kind' = kind /\ fault' = fault
      BY <1>0, <1>4 DEF ReleaseByRead, ReleaseByWrite, Release, TypeOK
    <2>2. Marked(c)'
      BY <2>1 DEF Marked
    <2>3. Kept(c)'
      BY <1>0, <1>1, <1>2, <2>1, EmptyQueue DEF Kept, Hurt, Has
    <2>4. Final(c)' /\ Single(c)' /\ Turns(c)'
      BY <2>1 DEF Final, Single, Turns
    <2>5. Fine(c)'
      BY <2>2, <2>3, <2>4 DEF Fine
    <2>6. \A d \in Conn : d # c => Still(d)
      BY StillBeside DEF ReadHandler, WriteHandler
    <2>7. QED
      BY <2>1, <2>5, <2>6, FineAt, NoNewFault
  <1>5. QED
    BY <1>3, <1>4

LEMMA FineWrite ==
  ASSUME FaultInv, Running, NEW c \in Conn, WriteHandler(c)
  PROVE  (\A d \in Conn : Fine(d)') /\ FaultsHaveACause'
  <1>1. CASE ReleaseByWrite(c)
    BY <1>1, FineRelease
  <1>2. CASE ~ReleaseByWrite(c)
    <2>1. Fine(c)' /\ fault' = fault
      BY <1>2, FineWriteFails, FineWriteOut, FineWriteTrim, FineWriteUnflag DEF WriteHandler
    <2>2. \A d \in Conn : d # c => Still(d)
      BY StillBeside
    <2>3. QED
      BY <2>1, <2>2, FineAt, NoNewFault
  <1>3. QED
    BY <1>1, <1>2

\* The read handler closes the connection.
LEMMA FineTearByRead ==
  ASSUME FaultInv, Running, NEW c \in Conn, ReadHandler(c), NEW f, TearByRead(c, f), f \subseteq {"error", "disconnecting"},
         life[c] = "live", "disconnecting" \in flags[c] \cup f,
         \A d \in Conn : strain[d] \subseteq strain'[d],
         kind[c] = "subscribe" => Hurt(c),
         kind[c] = "publish" /\ strain'[c] \cap {"partial", "refired"} = {} => Receiving(c)
  PROVE  (\A d \in Conn : Fine(d)') /\ FaultsHaveACause'
  <1>0. /\ TypeOK /\ Sound(c) /\ Fine(c) /\ Marked(c) /\ Kept(c) /\ Final(c) /\ Single(c) /\ Turns(c)
        /\ strain[c] \subseteq strain'[c] /\ isWriting[c] \in BOOLEAN
        /\ kind[c] \in {"publish", "subscribe"}
    <2>1. kind[c] \in {"publish", "subscribe"}
      BY TypesAt DEF Sound, TypeOK
    <2>2. QED
      BY <2>1, TypesAt
  <1>1. CASE Fails(c, "overResume")
    <2>1. kind' = kind /\ fault'[c] # "none"
      BY <1>0, <1>1 DEF Fails, contextVars, TypeOK
    <2>2. OverResumes(c)
      BY <1>0, <2>1 DEF TearByRead, TypeOK, Running
    <2>3. Cause(c, "overResume")'
      BY <1>0, <2>1, <2>2 DEF Cause, Hurt, OverResumes, Receiving
    <2>4. QED
      BY <1>1, <2>3, FineFails DEF Fault
  <1>2. CASE ~Fails(c, "overResume")
    <2>1. Abandon(c, f) /\ AddWrite(c)
      BY <1>2 DEF TearByRead
    <2>2. /\ flags'[c] = flags[c] \cup f /\ replies'[c] = 0 /\ rpc'[c] = "tearing"
          /\ UNCHANGED <<kind, life, obuf, rbuf, wpc, handed, table, upc, sock, toServer, inbound, heard, fault>>
      BY <1>0, <1>2, <2>1 DEF TearByRead, Abandon, Raise, TypeOK, callerVars, serverVars
    <2>3. ~isWriting[c] /\ writeSrc[c] = "suspended" => writeSrc'[c] = "active"
      BY <1>0, <2>1 DEF AddWrite, Droppable, TypeOK
    <2>4. Marked(c)'
      BY <1>0, <2>2 DEF Marked, Torn
    <2>5. Kept(c)'
      BY <1>0, <2>2 DEF Kept, Hurt, Has
    <2>6. Final(c)'
      BY <1>0, <2>2, FinalStays DEF Ahead
    <2>7. Single(c)'
      BY <1>0, <2>2 DEF Single, Quiet, Unsent, Torn
    <2>8. Turns(c)'
      BY <1>0, <2>2, <2>3 DEF Turns, Receiving, Closing
    <2>9. Fine(c)'
      BY <2>4, <2>5, <2>6, <2>7, <2>8 DEF Fine
    <2>10. \A d \in Conn : d # c => Still(d)
      BY StillBeside
    <2>11. QED
      BY <2>2, <2>9, <2>10, FineAt, NoNewFault
  <1>3. QED
    BY <1>1, <1>2

LEMMA FineReadFails ==
  ASSUME FaultInv, Running, NEW c \in Conn, ReadFails(c)
  PROVE  (\A d \in Conn : Fine(d)') /\ FaultsHaveACause'
  <1>0. TypeOK /\ Marked(c) /\ Kept(c) /\ Turns(c)
    BY TypesAt
  <1>1. /\ life[c] = "live" /\ rpc[c] = "idle" /\ readSrc[c] = "active"
        /\ "error" \in flags[c] \/ sock[c] \in {"refused", "closed"}
        /\ TearByRead(c, {"error", "disconnecting"}) /\ StrainedIf(wpc[c] = "tearing", c, "refired")
    BY DEF ReadFails, Readable
  <1>2. (\A d \in Conn : strain[d] \subseteq strain'[d]) /\ (wpc[c] = "tearing" => "refired" \in strain'[c])
    BY <1>0, <1>1, StrainGrows, StrainMarks DEF StrainedIf
  <1>3. kind[c] = "subscribe" => Hurt(c)
    BY <1>0, <1>1 DEF Marked, Kept, Hurt
  <1>4. strain[c] \subseteq strain'[c]
    BY <1>2
  <1>5. kind[c] = "publish" /\ strain'[c] \cap {"partial", "refired"} = {} => Receiving(c)
    BY <1>0, <1>1, <1>2, <1>4 DEF Turns, Sending, Closing
  <1>6. QED
    BY <1>1, <1>2, <1>3, <1>5, FineTearByRead DEF ReadHandler

LEMMA FineProcessError ==
  ASSUME FaultInv, Running, NEW c \in Conn, ProcessError(c)
  PROVE  (\A d \in Conn : Fine(d)') /\ FaultsHaveACause'
  <1>0. TypeOK /\ Kept(c) /\ Turns(c) /\ Alive(c) /\ rbuf[c] \in Seq(Reply)
    BY TypesAt
  <1>1. /\ life[c] = "live" /\ rpc[c] = "processing" /\ rbuf[c] # <<>> /\ Head(rbuf[c]) = "error"
        /\ TearByRead(c, {"error", "disconnecting"}) /\ strain' = strain
    BY <1>0 DEF ProcessError, Alive
  <1>2. kind[c] = "subscribe" => Hurt(c)
    <2>1. 1 \in 1..Len(rbuf[c]) /\ rbuf[c][1] = "error"
      BY <1>0, <1>1
    <2>2. QED
      BY <1>0, <2>1 DEF Kept, Has, Hurt
  <1>3. kind[c] = "publish" /\ strain'[c] \cap {"partial", "refired"} = {} => Receiving(c)
    BY <1>0, <1>1 DEF Turns, Sending, Closing
  <1>4. QED
    BY <1>1, <1>2, <1>3, FineTearByRead DEF ReadHandler

LEMMA FineDisconnect ==
  ASSUME FaultInv, Running, NEW c \in Conn, Disconnect(c)
  PROVE  (\A d \in Conn : Fine(d)') /\ FaultsHaveACause'
  <1>0. TypeOK /\ Sound(c) /\ Kept(c) /\ Single(c) /\ Turns(c) /\ Alive(c)
    BY TypesAt
  <1>1. /\ life[c] = "live" /\ rpc[c] = "processing" /\ "disconnecting" \in flags[c] /\ strain' = strain
    BY <1>0 DEF Disconnect, Alive
  <1>2. replies[c] = 0
    BY <1>0, <1>1 DEF Single, Sound, TypeOK
  <1>3. TearByRead(c, {})
    BY <1>0, <1>2 DEF Disconnect
  <1>4. kind[c] = "subscribe" => Hurt(c)
    BY <1>0, <1>1 DEF Kept
  <1>5. kind[c] = "publish" /\ strain'[c] \cap {"partial", "refired"} = {} => Receiving(c)
    BY <1>0, <1>1 DEF Turns, Sending, Closing
  <1>6. QED
    BY <1>1, <1>3, <1>4, <1>5, FineTearByRead DEF ReadHandler

LEMMA FineReadIn ==
  ASSUME FaultInv, NEW c \in Conn, ReadIn(c)
  PROVE  Fine(c)' /\ fault' = fault
  <1>0. /\ TypeOK /\ Sound(c) /\ Fine(c) /\ Marked(c) /\ Kept(c) /\ Final(c) /\ Single(c) /\ Turns(c)
        /\ rbuf[c] \in Seq(Reply) /\ inbound[c] \in Seq(Reply)
    BY TypesAt
  <1>1. PICK k \in 1..Len(inbound[c]) :
          /\ rbuf' = [rbuf EXCEPT ![c] = rbuf[c] \o SubSeq(inbound[c], 1, k)]
          /\ inbound' = [inbound EXCEPT ![c] = SubSeq(inbound[c], k + 1, Len(inbound[c]))]
    BY DEF ReadIn
  <1> DEFINE a == SubSeq(inbound[c], 1, k)
             b == SubSeq(inbound[c], k + 1, Len(inbound[c]))
  <1>2. rbuf'[c] = rbuf[c] \o a /\ inbound'[c] = b /\ a \in Seq(Reply) /\ b \in Seq(Reply) /\ inbound[c] # <<>>
    <2>1. a \in Seq(Reply) /\ b \in Seq(Reply) /\ inbound[c] # <<>>
      BY <1>0
    <2>2. QED
      BY <1>0, <1>1, <2>1 DEF TypeOK
  <1>3. \A x : Has(a, x) \/ Has(b, x) => Has(inbound[c], x)
    BY <1>0, HasCut
  <1>4. /\ OnlyLast(inbound[c], "unsubscribed") => OnlyLast(a, "unsubscribed") /\ OnlyLast(b, "unsubscribed")
        /\ OnlyLast(inbound[c], "unsubscribed") /\ Has(a, "unsubscribed") => b = <<>>
    BY <1>0, QueueCut
  <1>5. Len(inbound[c]) <= 1 => b = <<>> /\ Len(a) = 1
    BY <1>0
  <1> HIDE DEF a, b
  <1>6. \A x : Has(rbuf[c], x)' => Has(rbuf[c], x) \/ Has(a, x)
    <2>1. ASSUME NEW x, Has(rbuf'[c], x) PROVE Has(rbuf[c], x) \/ Has(a, x)
      BY <1>0, <1>2, <2>1, HasParts
    <2>2. QED
      BY <2>1 DEF Has
  <1>7. \A x : Has(inbound[c], x)' => Has(b, x)
    BY <1>2 DEF Has
  <1>8. /\ life[c] = "live" /\ rpc[c] = "idle" /\ readSrc[c] = "active" /\ rpc'[c] = "processing"
        /\ flags'[c] = flags[c] \cup {"connected"} /\ AddRead(c) /\ StrainedIf(wpc[c] = "tearing", c, "refired")
        /\ UNCHANGED <<kind, life, replies, channel, obuf, isWriting, writeSrc, wpc, handed, table, upc,
                       sock, toServer, heard, fault>>
    BY <1>0 DEF ReadIn, Readable, Raise, TypeOK, callerVars
  <1>9. strain[c] \subseteq strain'[c] /\ (wpc[c] = "tearing" => "refired" \in strain'[c])
    BY <1>0, <1>8, StrainGrows, StrainMarks DEF StrainedIf
  <1>10. isReading[c] => readSrc'[c] = readSrc[c] /\ isReading'[c]
    BY <1>8 DEF AddRead
  <1>11. Marked(c)'
    BY <1>0, <1>8, <1>9 DEF Marked, Torn
  <1>12. Kept(c)'
    <2>1. (Has(inbound[c], "error") \/ Has(rbuf[c], "error"))' => Has(inbound[c], "error") \/ Has(rbuf[c], "error")
      BY <1>3, <1>6, <1>7
    <2>2. QED
      BY <1>0, <1>8, <1>9, <2>1 DEF Kept, Hurt, Torn
  <1>13. Final(c)'
    <2>1. SUFFICES ASSUME kind[c] = "subscribe" PROVE Final(c)'
      BY <1>8 DEF Final
    <2>2. ~EndRead(c) /\ OnlyLast(inbound[c], "unsubscribed")
      BY <1>0, <1>2, <1>8, <2>1 DEF Final
    <2>3. ~Over(c)' /\ ~Over(c) /\ ~Has(rbuf[c], "unsubscribed")
      BY <1>8, <2>2 DEF EndRead, Over
    <2>4. Has(rbuf[c], "unsubscribed")' => Has(a, "unsubscribed")
      BY <1>6, <2>3
    <2>5. EndRead(c)' => inbound'[c] = <<>>
      BY <1>2, <1>4, <2>2, <2>3, <2>4 DEF EndRead
    <2>6. EndAnswered(c)' => EndAnswered(c)
      BY <1>3, <1>7, <2>3, <2>4 DEF EndAnswered, EndRead
    <2>7. Rest(c)' = Rest(c) /\ toServer'[c] = toServer[c]
      BY <1>8 DEF Rest
    <2>8. (EndSent(c)' => EndSent(c)) /\ (EndQueued(c)' => EndQueued(c))
      BY <2>6, <2>7 DEF EndSent, EndQueued, Has
    <2>9. OnlyLast(rbuf'[c], "unsubscribed")
      BY <1>0, <1>2, <1>4, <2>2, <2>3, QueueJoined
    <2>10. OnlyLast(inbound'[c], "unsubscribed")
      BY <1>2, <1>4, <2>2
    <2>11. /\ OnlyLast(rbuf[c], "unsubscribed")' /\ OnlyLast(inbound[c], "unsubscribed")'
           /\ OnlyLast(toServer[c], "UNSUBSCRIBE")' /\ OnlyLast(Rest(c), "UNSUBSCRIBE")'
      BY <1>0, <1>8, <2>1, <2>7, <2>9, <2>10 DEF Final, OnlyLast
    <2>12. handed'[c] <= Len(obuf'[c]) /\ (EndQueued(c)' => ~Ahead(c)')
      BY <1>0, <1>8, <2>1, <2>8 DEF Final, Ahead
    <2>13. /\ EndAnswered(c)' => toServer'[c] = <<>> /\ c \notin heard'
           /\ EndSent(c)' => Rest(c)' = <<>>
      BY <1>0, <1>8, <2>1, <2>6, <2>7, <2>8 DEF Final
    <2>14. QED
      BY <2>3, <2>5, <2>11, <2>12, <2>13 DEF Final
  <1>14. Single(c)'
    <2>1. SUFFICES ASSUME kind[c] = "publish" PROVE Single(c)'
      BY <1>8 DEF Single
    <2>2. rbuf[c] = <<>> /\ toServer[c] = <<>> /\ Len(inbound[c]) <= 1 /\ ~Quiet(c) /\ wpc[c] # "tearing"
          /\ ~Unsent(c) /\ sock[c] \notin {"connecting", "refused"} /\ replies[c] = 1
      BY <1>0, <1>2, <1>8, <2>1 DEF Single, Quiet, Torn
    <2>3. rbuf'[c] = a
      BY <1>2, <2>2
    <2>4. QED
      BY <1>0, <1>2, <1>5, <1>8, <2>1, <2>2, <2>3 DEF Single, Quiet, Unsent, Torn
  <1>15. Turns(c)'
    BY <1>0, <1>8, <1>9, <1>10 DEF Turns, Sending, Receiving, Closing
  <1>16. QED
    BY <1>8, <1>11, <1>12, <1>13, <1>14, <1>15 DEF Fine

LEMMA FineProcessRegular ==
  ASSUME FaultInv, NEW c \in Conn, ProcessRegular(c)
  PROVE  Fine(c)' /\ fault' = fault
  <1>0. /\ TypeOK /\ Sound(c) /\ Fine(c) /\ Marked(c) /\ Single(c) /\ Turns(c) /\ Alive(c)
        /\ rbuf[c] \in Seq(Reply)
    BY TypesAt
  <1>1. /\ rpc[c] = "processing" /\ rbuf[c] # <<>> /\ replies[c] > 0 /\ life[c] = "live"
        /\ replies'[c] = replies[c] - 1 /\ rbuf'[c] = Tail(rbuf[c])
        /\ flags'[c] = flags[c] \cup {"disconnecting"}
        /\ UNCHANGED <<kind, life, channel, obuf, isReading, isWriting, readSrc, writeSrc, rpc, wpc, handed,
                       sock, toServer, inbound, heard, strain, fault>>
    BY <1>0 DEF ProcessRegular, Raise, TypeOK, Alive, sourceVars, handlerVars, serverVars
  <1>2. kind[c] = "publish" /\ replies[c] = 1
    BY <1>0, <1>1 DEF Sound, Publishing
  <1>3. Marked(c)'
    BY <1>0, <1>1 DEF Marked, Torn
  <1>4. Kept(c)' /\ Final(c)'
    BY <1>1, <1>2 DEF Kept, Final
  <1>5. Single(c)'
    <2>1. Len(rbuf[c]) <= 1 => Tail(rbuf[c]) = <<>> /\ Len(<<>>) = 0
      BY <1>0, <1>1
    <2>2. ~Quiet(c) /\ ~Unsent(c) /\ toServer[c] = <<>> /\ inbound[c] = <<>> /\ rbuf'[c] = <<>>
      BY <1>0, <1>1, <1>2, <2>1 DEF Single, Quiet
    <2>3. QED
      BY <1>0, <1>1, <1>2, <2>1, <2>2 DEF Single, Quiet, Unsent, Torn
  <1>6. Turns(c)'
    BY <1>0, <1>1 DEF Turns, Sending, Receiving, Closing
  <1>7. QED
    BY <1>1, <1>3, <1>4, <1>5, <1>6 DEF Fine

LEMMA FineProcessEnds ==
  ASSUME FaultInv, NEW c \in Conn, ProcessEnds(c)
  PROVE  Fine(c)' /\ fault' = fault
  <1>0. /\ TypeOK /\ Fine(c) /\ Marked(c) /\ Kept(c) /\ Final(c) /\ Single(c) /\ Turns(c)
    BY TypesAt
  <1>1. /\ rpc[c] = "processing" /\ rpc'[c] = "idle"
        /\ UNCHANGED <<kind, life, flags, replies, channel, obuf, rbuf, isReading, isWriting, readSrc, writeSrc,
                       wpc, handed, table, upc, sock, toServer, inbound, heard, strain, fault>>
    BY <1>0 DEF ProcessEnds, TypeOK, contextVars, sourceVars, callerVars, serverVars, historyVars
  <1>2. Marked(c)'
    BY <1>0, <1>1 DEF Marked, Torn
  <1>3. Kept(c)'
    BY <1>0, <1>1 DEF Kept, Hurt, Has, Torn
  <1>4. Final(c)'
    BY <1>0, <1>1, FinalStays DEF Ahead
  <1>5. Single(c)'
    BY <1>0, <1>1 DEF Single, Quiet, Unsent, Torn
  <1>6. Turns(c)'
    BY <1>0, <1>1 DEF Turns, Sending, Receiving, Closing
  <1>7. QED
    BY <1>1, <1>2, <1>3, <1>4, <1>5, <1>6 DEF Fine

LEMMA FineProcessSubscriber ==
  ASSUME FaultInv, Running, NEW c \in Conn, ProcessSubscriber(c)
  PROVE  (\A d \in Conn : Fine(d)') /\ FaultsHaveACause'
  <1>0. /\ TypeOK /\ Sound(c) /\ Fine(c) /\ Marked(c) /\ Kept(c) /\ Final(c) /\ Single(c) /\ Turns(c) /\ Alive(c)
        /\ rbuf[c] \in Seq(Reply)
    BY TypesAt
  <1>1. /\ rpc[c] = "processing" /\ rbuf[c] # <<>> /\ replies[c] = 0 /\ life[c] = "live" /\ strain' = strain
        /\ Head(rbuf[c]) # "error"
    BY <1>0 DEF ProcessSubscriber, Alive
  <1>2. kind[c] = "subscribe"
    <2>1. kind[c] # "publish"
      BY <1>0, <1>1 DEF Single, Quiet, Torn
    <2>2. QED
      BY <1>0, <1>1, <2>1 DEF Sound, TypeOK
  <1>3. "subscribed" \in flags[c]
    BY <1>0, <1>1, <1>2 DEF Final, Over
  <1>4. CASE ~channel[c] /\ Fails(c, "useAfterFree")
    <2>1. kind' = kind
      BY <1>4 DEF Fails, contextVars
    <2>2. Cause(c, "useAfterFree")'
      BY <1>0, <1>1, <1>2, <1>3, <1>4, <2>1 DEF Kept, Cause, Hurt
    <2>3. QED
      BY <1>1, <1>4, <2>2, FineFails DEF Fault
  <1>5. CASE /\ channel[c] /\ rbuf' = [rbuf EXCEPT ![c] = Tail(@)]
             /\ IF Head(rbuf[c]) = "unsubscribed"
                THEN /\ channel' = [channel EXCEPT ![c] = FALSE]
                     /\ flags' = [flags EXCEPT ![c] = @ \ {"subscribed"}]
                ELSE UNCHANGED <<channel, flags>>
             /\ UNCHANGED <<kind, life, replies, obuf, sourceVars, handlerVars, callerVars, serverVars,
                            answers, fault>>
    <2>1. /\ rbuf'[c] = Tail(rbuf[c])
          /\ Head(rbuf[c]) = "unsubscribed" => flags'[c] = flags[c] \ {"subscribed"}
          /\ Head(rbuf[c]) # "unsubscribed" => channel'[c] = channel[c] /\ flags'[c] = flags[c]
          /\ UNCHANGED <<kind, life, replies, obuf, isReading, isWriting, readSrc, writeSrc, rpc, wpc, handed,
                         table, upc, sock, toServer, inbound, heard, fault>>
      BY <1>0, <1>5 DEF TypeOK, sourceVars, handlerVars, callerVars, serverVars
    <2>2. Head(rbuf[c]) = rbuf[c][1] /\ 1 \in 1..Len(rbuf[c])
      BY <1>0, <1>1
    <2>3. OnlyLast(rbuf[c], "unsubscribed")
      BY <1>0, <1>1, <1>2 DEF Final
    <2>4. /\ OnlyLast(Tail(rbuf[c]), "unsubscribed")
          /\ Has(Tail(rbuf[c]), "unsubscribed") => Has(rbuf[c], "unsubscribed")
          /\ Head(rbuf[c]) = "unsubscribed" => Tail(rbuf[c]) = <<>>
      BY <1>0, <1>1, <2>3, QueueTaken
    <2>5. Has(Tail(rbuf[c]), "error") => Has(rbuf[c], "error")
      <3>1. /\ Len(Tail(rbuf[c])) = Len(rbuf[c]) - 1
            /\ \A i \in 1..Len(rbuf[c]) - 1 : Tail(rbuf[c])[i] = rbuf[c][i + 1] /\ i + 1 \in 1..Len(rbuf[c])
        BY <1>0, <1>1
      <3>2. QED
        BY <3>1 DEF Has
    <2>6. /\ OnlyLast(rbuf[c], "unsubscribed")'
          /\ Has(rbuf[c], "unsubscribed")' => Has(rbuf[c], "unsubscribed")
          /\ Has(rbuf[c], "error")' => Has(rbuf[c], "error")
      BY <2>1, <2>4, <2>5 DEF OnlyLast, Has
    <2>7. Marked(c)'
      BY <1>0, <1>1, <2>1 DEF Marked, Torn
    <2>8. Kept(c)'
      BY <1>0, <1>1, <1>2, <1>5, <2>1, <2>6 DEF Kept, Hurt, Has, Torn
    <2>9. Final(c)'
      <3>1. Over(c)' => rbuf'[c] = <<>> /\ EndRead(c)
        BY <1>3, <2>1, <2>2, <2>4 DEF Over, EndRead, Has
      <3>2. EndRead(c)' => EndRead(c)
        BY <2>6, <3>1 DEF EndRead
      <3>3. Rest(c)' = Rest(c)
        BY <2>1 DEF Rest
      <3>4. (EndAnswered(c)' => EndAnswered(c)) /\ (EndSent(c)' => EndSent(c)) /\ (EndQueued(c)' => EndQueued(c))
        BY <2>1, <3>2, <3>3 DEF EndAnswered, EndSent, EndQueued, Has
      <3>5. /\ OnlyLast(inbound[c], "unsubscribed")' /\ OnlyLast(toServer[c], "UNSUBSCRIBE")'
            /\ OnlyLast(Rest(c), "UNSUBSCRIBE")'
        BY <1>0, <1>1, <1>2, <2>1, <3>3 DEF Final, OnlyLast
      <3>6. Ahead(c)' => Ahead(c)
        BY <2>1 DEF Ahead
      <3>7. QED
        BY <1>0, <1>1, <1>2, <2>1, <2>6, <3>1, <3>2, <3>3, <3>4, <3>5, <3>6 DEF Final
    <2>10. Single(c)' /\ Turns(c)'
      BY <1>2, <2>1 DEF Single, Turns
    <2>11. Fine(c)'
      BY <2>7, <2>8, <2>9, <2>10 DEF Fine
    <2>12. \A d \in Conn : d # c => Still(d)
      BY StillBeside DEF ReadHandler
    <2>13. QED
      BY <2>1, <2>11, <2>12, FineAt, NoNewFault
  <1>6. QED
    BY <1>3, <1>4, <1>5 DEF ProcessSubscriber

LEMMA FineRead ==
  ASSUME FaultInv, Running, NEW c \in Conn, ReadHandler(c)
  PROVE  (\A d \in Conn : Fine(d)') /\ FaultsHaveACause'
  <1>1. CASE ReadIn(c) \/ ProcessRegular(c) \/ ProcessEnds(c)
    <2>1. Fine(c)' /\ fault' = fault
      BY <1>1, FineReadIn, FineProcessRegular, FineProcessEnds
    <2>2. \A d \in Conn : d # c => Still(d)
      BY StillBeside
    <2>3. QED
      BY <2>1, <2>2, FineAt, NoNewFault
  <1>2. QED
    BY <1>1, FineReadFails, FineProcessError, FineDisconnect, FineProcessSubscriber, FineRelease DEF ReadHandler

LEMMA RestPut ==
  ASSUME NEW S, NEW q \in Seq(S), NEW e \in S, NEW n \in Nat, n <= Len(q)
  PROVE  SubSeq(Append(q, e), n + 1, Len(Append(q, e))) = Append(SubSeq(q, n + 1, Len(q)), e)
  <1> DEFINE l == SubSeq(Append(q, e), n + 1, Len(Append(q, e)))
             r == Append(SubSeq(q, n + 1, Len(q)), e)
  <1>1. l \in Seq(S) /\ r \in Seq(S) /\ Len(l) = Len(q) + 1 - n /\ Len(r) = Len(q) - n + 1
    OBVIOUS
  <1>2. ASSUME NEW i \in 1..Len(q) + 1 - n PROVE l[i] = r[i]
    <2>1. /\ Append(q, e) \in Seq(S) /\ Len(Append(q, e)) = Len(q) + 1 /\ Append(q, e)[Len(q) + 1] = e
          /\ \A j \in 1..Len(q) : Append(q, e)[j] = q[j]
      OBVIOUS
    <2>2. l[i] = Append(q, e)[n + i]
      BY <2>1
    <2>3. CASE i <= Len(q) - n
      <3>1. n + i \in 1..Len(q) /\ r[i] = q[n + i]
        BY <2>3, SMTT(60)
      <3>2. QED
        BY <2>1, <2>2, <3>1
    <2>4. CASE i = Len(q) - n + 1
      <3>1. n + i = Len(q) + 1 /\ r[i] = e
        BY <2>4
      <3>2. QED
        BY <2>1, <2>2, <3>1
    <2>5. QED
      BY <2>3, <2>4
  <1> HIDE DEF l, r
  <1>3. Len(q) \in Nat /\ Len(l) = Len(r) /\ \A i \in 1..Len(l) : l[i] = r[i]
    BY <1>1, <1>2
  <1>4. l = r
    BY <1>1, <1>3, SeqEqual
  <1>5. QED
    BY <1>4 DEF l, r

\* Only the caller's place changes.
LEMMA FineCallerMoves ==
  ASSUME FaultInv, Running, UNCHANGED <<contextVars, sourceVars, handlerVars, serverVars, strain, fault>>,
         \A d \in Conn : Ahead(d)' => Ahead(d)
  PROVE  (\A d \in Conn : Fine(d)') /\ FaultsHaveACause'
  <1>1. ASSUME NEW d \in Conn PROVE Still(d)
    BY DEF Still, contextVars, sourceVars, handlerVars, serverVars
  <1>2. QED
    BY <1>1, FineStays, NoNewFault DEF FaultInv

LEMMA FineUnsubscribeAppend ==
  ASSUME FaultInv, Running, UnsubscribeAppend
  PROVE  (\A d \in Conn : Fine(d)') /\ FaultsHaveACause'
  <1>1. /\ table \in Seq(Conn) /\ upc.i \in 1..Len(table) /\ Len(table) \in Nat /\ upc.at = "append"
        /\ upc \in [at : {"idle", "append", "schedule", "clear"}, i : Nat]
    <2>1. /\ table \in Seq(Conn) /\ upc \in [at : {"idle", "append", "schedule", "clear"}, i : Nat]
          /\ upc.i > 0
      BY DEF FaultInv, CallInv, TypeOK, Pointed
    <2>2. QED
      BY <2>1 DEF UnsubscribeAppend
  <1>2. PICK c \in Conn : c = table[upc.i]
    BY <1>1
  <1>3. kind[c] = "subscribe" /\ Ahead(c)
    BY <1>1, <1>2 DEF FaultInv, CallInv, TableOfSubscribers, Ahead
  <1>4. /\ TypeOK /\ Fine(c) /\ Marked(c) /\ Kept(c) /\ Final(c)
        /\ obuf[c] \in Seq(Command) /\ handed[c] \in Nat /\ Len(obuf[c]) \in Nat
    BY TypesAt
  <1>5. CASE life[c] = "freed" /\ Fails(c, "staleEntry") /\ UNCHANGED strain
    <2>1. kind' = kind
      BY <1>5 DEF Fails, contextVars
    <2>2. Cause(c, "staleEntry")'
      BY <1>3, <1>4, <1>5, <2>1 DEF Kept, Cause, Hurt
    <2>3. QED
      BY <1>5, <2>2, FineFails DEF Fault
  <1>6. CASE /\ upc' = [upc EXCEPT !.i = @ + 1]
             /\ UNCHANGED <<contextVars, sourceVars, handlerVars, table, serverVars, historyVars>>
    <2>1. \A d \in Conn : Ahead(d)' => Ahead(d)
      BY <1>1, <1>6 DEF Ahead
    <2>2. QED
      BY <1>6, <2>1, FineCallerMoves DEF historyVars
  <1>7. CASE /\ life[c] = "live" /\ Accepts(c)
             /\ obuf' = [obuf EXCEPT ![c] = Append(@, "UNSUBSCRIBE")]
             /\ upc' = [upc EXCEPT !.at = "schedule"]
             /\ StrainedIf(rpc[c] # "idle" \/ wpc[c] # "idle", c, "overlap")
             /\ UNCHANGED <<kind, life, flags, replies, channel, rbuf, sourceVars, handlerVars,
                            table, serverVars, answers, fault>>
    <2>1. \A d \in Conn : strain[d] \subseteq strain'[d]
      BY <1>4, <1>7, StrainGrows
    <2>2. /\ UNCHANGED <<kind, life, flags, replies, channel, rbuf, isReading, isWriting, readSrc, writeSrc,
                         rpc, wpc, handed, table, sock, toServer, inbound, heard, fault>>
      BY <1>7 DEF sourceVars, handlerVars, serverVars
    <2>3. upc'.at = "schedule" /\ upc'.i = upc.i
      BY <1>1, <1>7
    <2>4. ASSUME NEW d \in Conn, d # c PROVE Still(d)
      <3>1. obuf'[d] = obuf[d]
        BY <1>4, <1>7, <2>4 DEF TypeOK
      <3>2. Ahead(d)' => Ahead(d)
        BY <1>1, <2>2, <2>3 DEF Ahead
      <3>3. QED
        BY <2>1, <2>2, <3>1, <3>2 DEF Still
    <2>5. strain[c] \subseteq strain'[c] /\ obuf'[c] = Append(obuf[c], "UNSUBSCRIBE")
      BY <1>4, <1>7, <2>1 DEF TypeOK
    <2>6. Marked(c)' /\ Kept(c)' /\ Single(c)' /\ Turns(c)'
      <3>1. Marked(c)'
        BY <1>4, <2>2, <2>5 DEF Marked, Torn
      <3>2. Kept(c)'
        BY <1>4, <2>2, <2>5 DEF Kept, Hurt, Has, Torn
      <3>3. QED
        BY <1>3, <2>2, <3>1, <3>2 DEF Single, Turns
    <2>7. Final(c)'
      <3>1. ~EndQueued(c) /\ handed[c] <= Len(obuf[c])
        BY <1>3, <1>4, <1>7 DEF Final
      <3>2. "UNSUBSCRIBE" \in Command /\ Rest(c) \in Seq(Command) /\ ~Has(Rest(c), "UNSUBSCRIBE")
        <4>1. Rest(c) \in Seq(Command)
          BY <1>4 DEF Rest
        <4>2. QED
          BY <3>1, <4>1 DEF EndQueued, Command
      <3>3. Rest(c)' = Append(Rest(c), "UNSUBSCRIBE")
        <4>1. SubSeq(Append(obuf[c], "UNSUBSCRIBE"), handed[c] + 1, Len(Append(obuf[c], "UNSUBSCRIBE")))
                = Append(SubSeq(obuf[c], handed[c] + 1, Len(obuf[c])), "UNSUBSCRIBE")
          BY <1>4, <3>1, <3>2, RestPut
        <4>2. QED
          BY <2>2, <2>5, <4>1 DEF Rest
      <3>4. OnlyLast(Rest(c)', "UNSUBSCRIBE")
        <4>1. OnlyLast(Append(Rest(c), "UNSUBSCRIBE"), "UNSUBSCRIBE")
          BY <3>2, QueuePut
        <4>2. QED
          BY <3>3, <4>1
      <3>5. /\ OnlyLast(Rest(c), "UNSUBSCRIBE")' /\ OnlyLast(rbuf[c], "unsubscribed")'
            /\ OnlyLast(inbound[c], "unsubscribed")' /\ OnlyLast(toServer[c], "UNSUBSCRIBE")'
        BY <1>3, <1>4, <1>7, <2>2, <3>4 DEF Final, OnlyLast
      <3>6. ~EndSent(c)' /\ ~EndAnswered(c)' /\ ~EndRead(c)' /\ ~Over(c)'
        BY <2>2, <3>1 DEF EndQueued, EndSent, EndAnswered, EndRead, Over, Has
      <3>7. ~Ahead(c)'
        <4>1. ASSUME NEW i \in 1..Len(table), table[i] = c PROVE i = upc.i
          BY <1>1, <1>2, <4>1 DEF FaultInv, Distinct
        <4>2. QED
          BY <1>1, <2>2, <2>3, <4>1 DEF Ahead
      <3>8. handed'[c] <= Len(obuf'[c])
        <4>1. Len(Append(obuf[c], "UNSUBSCRIBE")) = Len(obuf[c]) + 1
          BY <1>4
        <4>2. QED
          BY <1>4, <2>2, <2>5, <3>1, <4>1
      <3>9. QED
        BY <3>5, <3>6, <3>7, <3>8 DEF Final
    <2>8. Fine(c)'
      BY <2>6, <2>7 DEF Fine
    <2>9. QED
      BY <2>2, <2>4, <2>8, FineAt, NoNewFault
  <1>8. QED
    BY <1>2, <1>5, <1>6, <1>7 DEF UnsubscribeAppend

LEMMA FineUnsubscribeSchedule ==
  ASSUME FaultInv, Running, UnsubscribeSchedule
  PROVE  (\A d \in Conn : Fine(d)') /\ FaultsHaveACause'
  <1>1. /\ table \in Seq(Conn) /\ upc.i \in 1..Len(table) /\ Len(table) \in Nat /\ upc.at = "schedule"
    <2>1. /\ table \in Seq(Conn) /\ upc \in [at : {"idle", "append", "schedule", "clear"}, i : Nat]
          /\ upc.i > 0 /\ (upc.at = "schedule" => upc.i <= Len(table))
      BY DEF FaultInv, CallInv, TypeOK, Pointed
    <2>2. QED
      BY <2>1 DEF UnsubscribeSchedule
  <1>2. PICK c \in Conn : c = table[upc.i]
    BY <1>1
  <1>3. kind[c] = "subscribe"
    BY <1>1, <1>2 DEF FaultInv, CallInv, TableOfSubscribers
  <1>4. TypeOK /\ Fine(c) /\ Marked(c) /\ Kept(c) /\ Final(c)
    BY TypesAt
  <1>5. CASE \E f \in {"useAfterFree", "overResume"} : Fails(c, f) /\ Strained(c, "overlap")
    <2>1. PICK f \in {"useAfterFree", "overResume"} : Fails(c, f) /\ Strained(c, "overlap")
      BY <1>5
    <2>2. kind' = kind
      BY <2>1 DEF Fails, contextVars
    <2>3. "overlap" \in strain'[c] /\ \A d \in Conn : strain[d] \subseteq strain'[d]
      BY <1>4, <2>1, StrainMarks, StrainGrows
    <2>4. Cause(c, f)'
      BY <1>3, <2>2, <2>3 DEF Cause
    <2>5. QED
      BY <2>1, <2>3, <2>4, FineFails DEF Fault
  <1>6. CASE /\ life[c] = "live" /\ AddWrite(c)
             /\ upc' = [at |-> "append", i |-> upc.i + 1]
             /\ StrainedIf(rpc[c] # "idle" \/ wpc[c] # "idle", c, "overlap")
             /\ UNCHANGED <<contextVars, isReading, readSrc, handlerVars, table, serverVars,
                            answers, fault>>
    <2>1. \A d \in Conn : strain[d] \subseteq strain'[d]
      BY <1>4, <1>6, StrainGrows
    <2>2. \A d \in Conn : Ahead(d)' => Ahead(d)
      BY <1>1, <1>6 DEF Ahead
    <2>3. /\ UNCHANGED <<kind, life, flags, replies, channel, obuf, rbuf, isReading, readSrc,
                         rpc, wpc, handed, table, sock, toServer, inbound, heard, fault>>
      BY <1>6 DEF contextVars, handlerVars, serverVars
    <2>4. ASSUME NEW d \in Conn, d # c PROVE Still(d)
      <3>1. isWriting'[d] = isWriting[d] /\ writeSrc'[d] = writeSrc[d]
        BY <1>4, <1>6, <2>4 DEF TypeOK, AddWrite
      <3>2. QED
        BY <2>1, <2>2, <2>3, <3>1 DEF Still
    <2>5. strain[c] \subseteq strain'[c]
      BY <2>1
    <2>6. Marked(c)'
      BY <1>4, <2>3, <2>5 DEF Marked, Torn
    <2>7. Kept(c)'
      BY <1>4, <2>3, <2>5 DEF Kept, Hurt, Has, Torn
    <2>8. Final(c)'
      BY <1>4, <2>2, <2>3, FinalStays
    <2>9. Fine(c)'
      BY <1>3, <2>3, <2>6, <2>7, <2>8 DEF Fine, Single, Turns
    <2>10. QED
      BY <2>3, <2>4, <2>9, FineAt, NoNewFault
  <1>7. QED
    BY <1>2, <1>5, <1>6 DEF UnsubscribeSchedule

LEMMA FineCaller ==
  ASSUME FaultInv, Running, Caller
  PROVE  (\A d \in Conn : Fine(d)') /\ FaultsHaveACause'
  <1>0. /\ table \in Seq(Conn) /\ upc.i \in Nat /\ upc.i > 0 /\ Len(table) \in Nat
    BY DEF FaultInv, CallInv, TypeOK, Pointed
  <1>1. CASE UnsubscribeAll \/ UnsubscribeEnds \/ UnsubscribeClear
    <2>1. \A d \in Conn : Ahead(d)' => Ahead(d)
      <3>1. CASE UnsubscribeAll
        BY <1>0, <3>1 DEF UnsubscribeAll, Ahead
      <3>2. CASE UnsubscribeEnds
        BY <1>0, <3>2 DEF UnsubscribeEnds, Ahead
      <3>3. CASE UnsubscribeClear
        BY <1>0, <3>3 DEF UnsubscribeClear, Ahead
      <3>4. QED
        BY <1>1, <3>1, <3>2, <3>3
    <2>2. UNCHANGED <<contextVars, sourceVars, handlerVars, serverVars, strain, fault>>
      BY <1>1 DEF UnsubscribeAll, UnsubscribeEnds, UnsubscribeClear, historyVars
    <2>3. QED
      BY <2>1, <2>2, FineCallerMoves
  <1>2. QED
    BY <1>1, FineUnsubscribeAppend, FineUnsubscribeSchedule DEF Caller

LEMMA FineOpen ==
  ASSUME FaultInv, Running, NEW c \in Conn, Publish(c) \/ Subscribe(c)
  PROVE  (\A d \in Conn : Fine(d)') /\ FaultsHaveACause' /\ Distinct'
  <1>0. /\ TypeOK /\ Sound(c) /\ Marked(c) /\ Alive(c)
        /\ rpc[c] \in {"idle", "processing", "tearing"} /\ isReading[c] \in BOOLEAN
        /\ table \in Seq(Conn) /\ Len(table) \in Nat
    BY TypesAt DEF TypeOK
  <1>1. PICK k \in {"publish", "subscribe"}, cmd \in {"PUBLISH", "SUBSCRIBE"} : Open(c, k, cmd)
    BY DEF Publish, Subscribe
  <1>2. /\ life[c] = "none" /\ life'[c] = "live" /\ sock'[c] = "connecting" /\ readSrc'[c] = "suspended"
        /\ kind'[c] = k /\ obuf'[c] = <<cmd>> /\ isWriting'[c] /\ writeSrc'[c] = "active"
        /\ UNCHANGED <<rbuf, isReading, rpc, wpc, handed, upc, toServer, inbound, heard, fault>>
    BY <1>0, <1>1 DEF Open, connectAndDispatch, TypeOK, handlerVars
  <1>3. /\ kind[c] = "none" /\ toServer[c] = <<>> /\ inbound[c] = <<>> /\ rbuf[c] = <<>>
        /\ handed[c] = 0 /\ c \notin heard /\ flags[c] = {} /\ ~isReading[c] /\ rpc[c] = "idle" /\ wpc[c] = "idle"
    BY <1>0, <1>2 DEF Sound, Marked, Alive
  <1>4. /\ table' = table \/ (Subscribe(c) /\ table' = Append(table, c))
        /\ UNCHANGED strain \/ StrainedIf(upc.at # "idle", c, "late")
    BY DEF Publish, Subscribe
  <1>5. \A d \in Conn : strain[d] \subseteq strain'[d]
    BY <1>0, <1>4, StrainGrows
  <1>6. \A i \in 1..Len(table) : table[i] \in Conn /\ table[i] # c
    BY <1>0, <1>3 DEF FaultInv, CallInv, TableOfSubscribers
  <1>7. /\ Len(table') \in Nat /\ \A i \in 1..Len(table) : table'[i] = table[i]
        /\ \A i \in 1..Len(table') : i \notin 1..Len(table) => table'[i] = c /\ i = Len(table')
    <2>1. CASE table' = table
      BY <1>0, <2>1
    <2>2. CASE table' = Append(table, c)
      BY <1>0, <2>2
    <2>3. QED
      BY <1>4, <2>1, <2>2
  <1>8. Distinct'
    BY <1>6, <1>7 DEF Distinct, FaultInv
  <1>9. ASSUME NEW d \in Conn, d # c PROVE Still(d)
    <2>1. /\ kind'[d] = kind[d] /\ life'[d] = life[d] /\ sock'[d] = sock[d] /\ readSrc'[d] = readSrc[d]
          /\ obuf'[d] = obuf[d] /\ isWriting'[d] = isWriting[d] /\ writeSrc'[d] = writeSrc[d]
      BY <1>0, <1>1, <1>9 DEF Open, connectAndDispatch, TypeOK
    <2>2. flags'[d] = flags[d] /\ replies'[d] = replies[d] /\ channel'[d] = channel[d]
      BY <1>0, <1>9 DEF Publish, Subscribe, Raise, TypeOK
    <2>3. Ahead(d)' => Ahead(d)
      BY <1>2, <1>7, <1>9 DEF Ahead
    <2>4. QED
      BY <1>2, <1>5, <2>1, <2>2, <2>3 DEF Still
  <1>10. CASE Publish(c)
    <2>1. k = "publish" /\ cmd = "PUBLISH" /\ replies'[c] = 1 /\ flags'[c] = {}
      <3>1. kind'[c] = "publish" /\ obuf'[c] = <<"PUBLISH">> /\ replies'[c] = 1 /\ flags' = flags
        BY <1>0, <1>10 DEF Publish, Open, TypeOK
      <3>2. QED
        BY <1>2, <1>3, <3>1
    <2>2. Marked(c)'
      BY <1>2, <2>1 DEF Marked
    <2>3. Kept(c)' /\ Final(c)'
      BY <1>2, <2>1 DEF Kept, Final
    <2>4. Single(c)'
      BY <1>2, <1>3, <2>1 DEF Single, Quiet, Unsent, Torn
    <2>5. Turns(c)'
      BY <1>2, <1>3, <2>1 DEF Turns, Sending
    <2>6. Fine(c)'
      BY <2>2, <2>3, <2>4, <2>5 DEF Fine
    <2>7. QED
      BY <1>2, <1>8, <1>9, <2>6, FineAt, NoNewFault
  <1>11. CASE Subscribe(c)
    <2>1. kind'[c] = "subscribe" /\ obuf'[c] = <<"SUBSCRIBE">> /\ flags'[c] = {"subscribed"} /\ channel'[c]
      BY <1>0, <1>3, <1>11 DEF Subscribe, Open, Raise, TypeOK
    <2>2. Marked(c)'
      BY <1>2, <2>1 DEF Marked
    <2>3. ~Has(rbuf[c], "unsubscribed")' /\ ~Has(inbound[c], "unsubscribed")' /\ ~Has(toServer[c], "UNSUBSCRIBE")'
          /\ ~Has(rbuf[c], "error")' /\ ~Has(inbound[c], "error")'
          /\ OnlyLast(rbuf[c], "unsubscribed")' /\ OnlyLast(inbound[c], "unsubscribed")'
          /\ OnlyLast(toServer[c], "UNSUBSCRIBE")'
      BY <1>2, <1>3, EmptyQueue DEF Has, OnlyLast
    <2>4. Rest(c)' = <<"SUBSCRIBE">>
      <3>1. <<"SUBSCRIBE">> \in Seq(Command)
        BY DEF Command
      <3>2. QED
        BY <1>2, <1>3, <2>1, <3>1, WholeQueue DEF Rest
    <2>5. ~Has(Rest(c), "UNSUBSCRIBE")' /\ OnlyLast(Rest(c), "UNSUBSCRIBE")'
      BY <2>4 DEF Has, OnlyLast
    <2>6. Kept(c)'
      BY <1>2, <1>3, <2>1, <2>3 DEF Kept, Torn
    <2>7. ~Over(c)' /\ ~EndRead(c)' /\ ~EndAnswered(c)' /\ ~EndSent(c)' /\ ~EndQueued(c)'
      BY <2>1, <2>3, <2>5 DEF Over, EndRead, EndAnswered, EndSent, EndQueued
    <2>8. handed'[c] <= Len(obuf'[c])
      BY <1>2, <1>3, <2>1
    <2>9. Final(c)'
      BY <2>3, <2>5, <2>7, <2>8 DEF Final
    <2>10. Fine(c)'
      BY <2>1, <2>2, <2>6, <2>9 DEF Fine, Single, Turns
    <2>11. QED
      BY <1>2, <1>8, <1>9, <2>10, FineAt, NoNewFault
  <1>12. QED
    BY <1>10, <1>11

LEMMA FineSocket ==
  ASSUME FaultInv, Running, NEW c \in Conn, Accept(c) \/ Refuse(c) \/ Close(c)
  PROVE  (\A d \in Conn : Fine(d)') /\ FaultsHaveACause'
  <1>0. /\ TypeOK /\ Sound(c) /\ Fine(c) /\ Marked(c) /\ Kept(c) /\ Final(c) /\ Single(c) /\ Turns(c)
    BY TypesAt
  <1>1. UNCHANGED <<kind, life, flags, replies, channel, obuf, rbuf, isReading, isWriting, readSrc, writeSrc,
                    rpc, wpc, handed, table, upc, inbound, fault>>
    BY DEF Accept, Refuse, Close, ServerKeeps, contextVars, sourceVars, handlerVars, callerVars
  <1>2. \A d \in Conn : strain[d] \subseteq strain'[d]
    BY <1>0, StrainGrows DEF Accept, Refuse, Close
  <1>3. \/ UNCHANGED <<toServer, heard>>
        \/ toServer' = [toServer EXCEPT ![c] = <<>>] /\ heard' = heard \ {c}
    BY DEF Accept, Refuse, Close
  <1>4. ASSUME NEW d \in Conn, d # c PROVE Still(d)
    <2>1. sock'[d] = sock[d]
      BY <1>0, <1>4 DEF Accept, Refuse, Close, TypeOK
    <2>2. toServer'[d] = toServer[d] /\ (d \in heard' <=> d \in heard)
      BY <1>0, <1>3, <1>4 DEF TypeOK
    <2>3. QED
      BY <1>1, <1>2, <2>1, <2>2 DEF Still, Ahead
  <1>5. strain[c] \subseteq strain'[c] /\ toServer'[c] \in {toServer[c], <<>>} /\ (c \in heard' => c \in heard)
    BY <1>0, <1>2, <1>3 DEF TypeOK
  <1>6. \/ sock[c] = "connecting" /\ sock'[c] = "open"
        \/ sock[c] = "connecting" /\ sock'[c] = "refused" /\ "refused" \in strain'[c]
        \/ sock[c] = "open" /\ sock'[c] = "closed" /\ "closed" \in strain'[c]
    BY <1>0, StrainMarks DEF Accept, Refuse, Close, TypeOK
  <1>7. Marked(c)'
    BY <1>0, <1>1, <1>5, <1>6 DEF Marked, Torn
  <1>8. Kept(c)'
    BY <1>0, <1>1, <1>5 DEF Kept, Hurt, Has, Torn
  <1>9. Final(c)'
    <2>1. SUFFICES ASSUME kind[c] = "subscribe", life[c] = "live" PROVE Final(c)'
      BY <1>1 DEF Final
    <2>2. Rest(c)' = Rest(c) /\ (Over(c)' <=> Over(c)) /\ (EndRead(c)' <=> EndRead(c)) /\ (EndAnswered(c)' <=> EndAnswered(c))
      BY <1>1 DEF Rest, EndAnswered, EndRead, Over, Has
    <2>3. (Has(toServer[c], "UNSUBSCRIBE")' => Has(toServer[c], "UNSUBSCRIBE"))
          /\ OnlyLast(toServer[c], "UNSUBSCRIBE")'
      <3>1. OnlyLast(toServer[c], "UNSUBSCRIBE")
        BY <1>0, <2>1 DEF Final
      <3>2. QED
        BY <1>5, <3>1, EmptyQueue DEF Has, OnlyLast
    <2>4. (EndSent(c)' => EndSent(c)) /\ (EndQueued(c)' => EndQueued(c))
      BY <2>2, <2>3 DEF EndSent, EndQueued, Has
    <2>5. OnlyLast(rbuf[c], "unsubscribed")' /\ OnlyLast(inbound[c], "unsubscribed")' /\ OnlyLast(Rest(c), "UNSUBSCRIBE")'
      BY <1>0, <1>1, <2>1, <2>2 DEF Final, OnlyLast
    <2>6. Ahead(c)' => Ahead(c)
      BY <1>1 DEF Ahead
    <2>7. QED
      BY <1>0, <1>1, <1>5, <2>1, <2>2, <2>3, <2>4, <2>5, <2>6 DEF Final
  <1>10. Single(c)'
    BY <1>0, <1>1, <1>5, <1>6 DEF Single, Quiet, Unsent, Torn
  <1>11. Turns(c)'
    BY <1>0, <1>1, <1>5 DEF Turns, Sending, Receiving, Closing
  <1>12. Fine(c)'
    BY <1>7, <1>8, <1>9, <1>10, <1>11 DEF Fine
  <1>13. QED
    BY <1>1, <1>4, <1>12, FineAt, NoNewFault

\* What the server sends for a command of c: an answer to c, messages to listeners.
LEMMA ServerSends ==
  ASSUME TypeOK, NEW c \in Conn, toServer[c] # <<>>, Execute(c) \/ Reject(c)
  PROVE  \E r \in Reply, news \in [Conn -> Seq(Reply)] :
            /\ Deliver(news) /\ news[c] = <<r>>
            /\ \A d \in Conn : d # c => news[d] = <<>> \/ (d \in heard /\ news[d] = <<"message">>)
            /\ r = "error" => Reject(c)
            /\ r = "unsubscribed" => Head(toServer[c]) = "UNSUBSCRIBE" /\ c \notin heard'
  <1>0. Head(toServer[c]) \in Command
    <2>1. toServer[c] \in Seq(Command)
      BY DEF TypeOK
    <2>2. QED
      BY <2>1
  <1>1. CASE Execute(c) /\ Head(toServer[c]) = "PUBLISH"
    <2> DEFINE news == [e \in Conn |-> IF e = c THEN <<"published">>
                                       ELSE IF e \in heard THEN <<"message">> ELSE <<>>]
    <2>1. Deliver(news)
      BY <1>1 DEF Execute
    <2>2. news \in [Conn -> Seq(Reply)]
      <3>1. <<"published">> \in Seq(Reply) /\ <<"message">> \in Seq(Reply) /\ <<>> \in Seq(Reply)
        BY DEF Reply
      <3>2. QED
        BY <3>1
    <2>3. /\ news[c] = <<"published">> /\ "published" \in Reply
          /\ \A d \in Conn : d # c => news[d] = <<>> \/ (d \in heard /\ news[d] = <<"message">>)
      BY DEF Reply
    <2> HIDE DEF news
    <2>4. QED
      BY <2>1, <2>2, <2>3
  <1>2. ASSUME NEW r \in Reply, Deliver(Only(c, r)), r = "error" => Reject(c),
               r = "unsubscribed" => Head(toServer[c]) = "UNSUBSCRIBE" /\ c \notin heard'
        PROVE  \E s \in Reply, news \in [Conn -> Seq(Reply)] :
                  /\ Deliver(news) /\ news[c] = <<s>>
                  /\ \A d \in Conn : d # c => news[d] = <<>> \/ (d \in heard /\ news[d] = <<"message">>)
                  /\ s = "error" => Reject(c)
                  /\ s = "unsubscribed" => Head(toServer[c]) = "UNSUBSCRIBE" /\ c \notin heard'
    <2>1. /\ Only(c, r) \in [Conn -> Seq(Reply)] /\ Only(c, r)[c] = <<r>>
          /\ \A d \in Conn : d # c => Only(c, r)[d] = <<>>
      BY OnlyType DEF Only
    <2>2. QED
      BY <1>2, <2>1
  <1>3. CASE Execute(c) /\ Head(toServer[c]) = "SUBSCRIBE"
    <2>1. Deliver(Only(c, "subscribed")) /\ "subscribed" \in Reply
      BY <1>3 DEF Execute, Reply
    <2>2. QED
      BY <1>2, <2>1
  <1>4. CASE Execute(c) /\ Head(toServer[c]) = "UNSUBSCRIBE"
    <2>1. Deliver(Only(c, "unsubscribed")) /\ "unsubscribed" \in Reply /\ c \notin heard'
      BY <1>4 DEF Execute, Reply
    <2>2. QED
      BY <1>2, <1>4, <2>1
  <1>5. CASE Reject(c)
    <2>1. Deliver(Only(c, "error")) /\ "error" \in Reply
      BY <1>5 DEF Reject, Reply
    <2>2. QED
      BY <1>2, <1>5, <2>1
  <1>6. QED
    BY <1>0, <1>1, <1>3, <1>4, <1>5 DEF Command

LEMMA FineExecute ==
  ASSUME FaultInv, Running, NEW c \in Conn, Execute(c) \/ Reject(c)
  PROVE  (\A d \in Conn : Fine(d)') /\ FaultsHaveACause'
  <1>0. /\ TypeOK /\ CallInv /\ Sound(c) /\ Fine(c)
        /\ Marked(c) /\ Kept(c) /\ Final(c) /\ Single(c) /\ Turns(c)
    BY TypesAt DEF FaultInv
  <1>1. /\ toServer[c] # <<>> /\ toServer' = [toServer EXCEPT ![c] = Tail(toServer[c])]
        /\ UNCHANGED <<kind, life, flags, replies, channel, obuf, rbuf, isReading, isWriting, readSrc, writeSrc,
                       rpc, wpc, handed, table, upc, sock, fault>>
    BY DEF Execute, Reject, ServerKeeps, contextVars, sourceVars, handlerVars, callerVars
  <1>2. /\ toServer[c] \in Seq(Command) /\ toServer \in [Conn -> Seq(Command)]
        /\ inbound[c] \in Seq(Reply) /\ rbuf[c] \in Seq(Reply)
        /\ kind[c] \in {"publish", "subscribe"} /\ toServer'[c] = Tail(toServer[c])
    BY <1>0, <1>1 DEF TypeOK, Sound
  <1>3. \A d \in Conn : strain[d] \subseteq strain'[d]
    BY <1>0, StrainGrows DEF Execute, Reject
  <1>4. Reject(c) => "error" \in strain'[c]
    BY <1>0, StrainMarks DEF Reject
  <1>5. PICK r \in Reply, news \in [Conn -> Seq(Reply)] :
          /\ Deliver(news) /\ news[c] = <<r>>
          /\ \A d \in Conn : d # c => news[d] = <<>> \/ (d \in heard /\ news[d] = <<"message">>)
          /\ r = "error" => Reject(c)
          /\ r = "unsubscribed" => Head(toServer[c]) = "UNSUBSCRIBE" /\ c \notin heard'
    BY <1>0, <1>1, ServerSends
  <1>6. inbound'[c] = inbound[c] \/ inbound'[c] = inbound[c] \o <<r>>
    BY <1>0, <1>5, DeliverAt
  <1>7. ASSUME NEW d \in Conn, d # c PROVE Still(d)
    <2>1. inbound'[d] = inbound[d] \/ (d \in heard /\ inbound'[d] = inbound[d] \o <<"message">>)
      BY <1>0, <1>5, <1>7, DeliverAt
    <2>2. d \in heard' <=> d \in heard
      <3>1. \/ heard' \in {heard, heard \cup {c}, heard \ {c}}
        <4>1. Head(toServer[c]) \in Command
          BY <1>1, <1>2
        <4>2. QED
          BY <4>1 DEF Execute, Reject, Command
      <3>2. QED
        BY <1>7, <3>1
    <2>3. toServer'[d] = toServer[d]
      BY <1>1, <1>2, <1>7
    <2>4. QED
      BY <1>1, <1>3, <2>1, <2>2, <2>3 DEF Still, Ahead
  <1>8. strain[c] \subseteq strain'[c]
    BY <1>3
  <1>9. Marked(c)'
    BY <1>0, <1>1, <1>8 DEF Marked, Torn
  <1>10. ASSUME NEW x \in Reply, ~Has(inbound[c], x)
         PROVE  OnlyLast(inbound[c], x)' /\ (Has(inbound[c], x)' => r = x)
    <2>1. CASE inbound'[c] = inbound[c]
      BY <1>10, <2>1 DEF Has, OnlyLast
    <2>2. CASE inbound'[c] = inbound[c] \o <<r>>
      <3>1. OnlyLast(inbound[c] \o <<r>>, x) /\ (Has(inbound[c] \o <<r>>, x) => r = x)
        BY <1>2, <1>10, QueuePut
      <3>2. QED
        BY <2>2, <3>1 DEF Has, OnlyLast
    <2>3. QED
      BY <1>6, <2>1, <2>2
  <1>11. Kept(c)'
    <2>1. kind[c] = "subscribe" /\ Has(inbound[c], "error")' => "error" \in strain'[c]
      BY <1>0, <1>4, <1>5, <1>8, <1>10 DEF Kept, Reply
    <2>2. QED
      BY <1>0, <1>1, <1>8, <2>1 DEF Kept, Hurt, Has, Torn
  <1>12. Final(c)'
    <2>1. SUFFICES ASSUME kind[c] = "subscribe", life[c] = "live" PROVE Final(c)'
      BY <1>1 DEF Final
    <2>2. ~EndAnswered(c) /\ ~EndRead(c) /\ ~Over(c) /\ ~Has(inbound[c], "unsubscribed")
      BY <1>0, <1>1, <2>1 DEF Final, EndAnswered, EndRead
    <2>3. Rest(c)' = Rest(c) /\ ~Over(c)' /\ ~EndRead(c)'
      BY <1>1, <2>2 DEF Rest, EndRead, Over, Has
    <2>4. /\ OnlyLast(Tail(toServer[c]), "UNSUBSCRIBE")
          /\ Has(Tail(toServer[c]), "UNSUBSCRIBE") => Has(toServer[c], "UNSUBSCRIBE")
          /\ Head(toServer[c]) = "UNSUBSCRIBE" => Tail(toServer[c]) = <<>>
      <3>1. OnlyLast(toServer[c], "UNSUBSCRIBE")
        BY <1>0, <2>1 DEF Final
      <3>2. QED
        BY <1>1, <1>2, <3>1, QueueTaken
    <2>5. OnlyLast(toServer[c], "UNSUBSCRIBE")' /\ (Has(toServer[c], "UNSUBSCRIBE")' => Has(toServer[c], "UNSUBSCRIBE"))
      BY <1>2, <2>4 DEF OnlyLast, Has
    <2>6. OnlyLast(inbound[c], "unsubscribed")' /\ (Has(inbound[c], "unsubscribed")' => r = "unsubscribed")
      BY <1>10, <2>2 DEF Reply
    <2>7. EndAnswered(c)' => Head(toServer[c]) = "UNSUBSCRIBE" /\ c \notin heard' /\ toServer'[c] = <<>>
      BY <1>2, <1>5, <2>3, <2>4, <2>6 DEF EndAnswered
    <2>8. Head(toServer[c]) = "UNSUBSCRIBE" => Has(toServer[c], "UNSUBSCRIBE")
      <3>1. 1 \in 1..Len(toServer[c]) /\ Head(toServer[c]) = toServer[c][1]
        BY <1>1, <1>2
      <3>2. QED
        BY <3>1 DEF Has
    <2>9. EndSent(c)' => EndSent(c)
      BY <2>5, <2>7, <2>8 DEF EndSent
    <2>10. EndQueued(c)' => EndQueued(c)
      BY <2>3, <2>9 DEF EndQueued, Has
    <2>11. OnlyLast(rbuf[c], "unsubscribed")' /\ OnlyLast(Rest(c), "UNSUBSCRIBE")'
      BY <1>0, <1>1, <2>1, <2>3 DEF Final, OnlyLast
    <2>12. Ahead(c)' => Ahead(c)
      BY <1>1 DEF Ahead
    <2>13. QED
      BY <1>0, <1>1, <2>1, <2>3, <2>5, <2>6, <2>7, <2>9, <2>10, <2>11, <2>12 DEF Final
  <1>13. Single(c)'
    <2>1. SUFFICES ASSUME kind[c] = "publish", life[c] = "live" PROVE Single(c)'
      BY <1>1 DEF Single
    <2>2. inbound[c] = <<>> /\ rbuf[c] = <<>> /\ ~Quiet(c) /\ toServer[c] = <<"PUBLISH">>
      BY <1>0, <1>1, <2>1 DEF Single, Quiet, Sound, Publishing
    <2>3. toServer'[c] = <<>> /\ Len(inbound'[c]) <= 1
      <3>1. \A q \in Seq(Command) : q = <<"PUBLISH">> => Tail(q) = <<>>
        OBVIOUS
      <3>2. toServer'[c] = <<>>
        BY <1>2, <2>2, <3>1
      <3>3. \A q \in Seq(Reply) : q = <<>> => Len(q) <= 1 /\ Len(q \o <<r>>) <= 1
        OBVIOUS
      <3>4. Len(inbound[c]) <= 1 /\ Len(inbound[c] \o <<r>>) <= 1
        BY <1>2, <2>2, <3>3
      <3>5. QED
        BY <1>6, <3>2, <3>4
    <2>4. QED
      BY <1>0, <1>1, <2>1, <2>2, <2>3 DEF Single, Unsent, Quiet, Torn
  <1>14. Turns(c)'
    BY <1>0, <1>1, <1>8 DEF Turns, Sending, Receiving, Closing
  <1>15. Fine(c)'
    BY <1>9, <1>11, <1>12, <1>13, <1>14 DEF Fine
  <1>16. QED
    BY <1>1, <1>7, <1>15, FineAt, NoNewFault

\* Nothing else moves, and the table grows in Subscribe alone.
LEMMA FineStep ==
  ASSUME FaultInv, FaultsHaveACause, [Next]_vars
  PROVE  Distinct' /\ (\A d \in Conn : Fine(d)') /\ FaultsHaveACause'
  <1>1. CASE UNCHANGED vars
    <2>1. UNCHANGED <<contextVars, sourceVars, handlerVars, callerVars, serverVars, historyVars>>
      BY <1>1 DEF vars
    <2>2. ASSUME NEW d \in Conn PROVE Fine(d)'
      <3>1. Still(d)
        BY <2>1 DEF Still, Ahead, contextVars, sourceVars, handlerVars, callerVars, serverVars, historyVars
      <3>2. QED
        BY <3>1, FineStays DEF FaultInv
    <2>3. Distinct' /\ FaultsHaveACause'
      BY <2>1 DEF FaultInv, Distinct, FaultsHaveACause, callerVars, contextVars, historyVars
    <2>4. QED
      BY <2>2, <2>3
  <1>2. CASE Running /\ Caller
    <2>1. table' = table \/ table' = <<>>
      BY <1>2 DEF Caller, UnsubscribeAll, UnsubscribeAppend, UnsubscribeSchedule, UnsubscribeEnds,
                  UnsubscribeClear, Fails, callerVars
    <2>2. Distinct'
      BY <2>1 DEF FaultInv, Distinct
    <2>3. QED
      BY <1>2, <2>2, FineCaller
  <1>3. CASE Running /\ \E c \in Conn : Publish(c) \/ Subscribe(c)
    BY <1>3, FineOpen
  <1>4. CASE Running /\ \E c \in Conn : WriteHandler(c) \/ ReadHandler(c) \/ Answer(c) \/ Close(c)
    <2>1. PICK c \in Conn : WriteHandler(c) \/ ReadHandler(c) \/ Answer(c) \/ Close(c)
      BY <1>4
    <2>2. table' = table
      <3>1. CASE WriteHandler(c) \/ ReadHandler(c)
        BY <3>1 DEF WriteHandler, ReadHandler, WriteFails, WriteOut, WriteTrim, WriteUnflag, WriteSuspend,
                    ReleaseByWrite, ReleaseByRead, ReadFails, ReadIn, ProcessRegular, ProcessError,
                    ProcessSubscriber, ProcessEnds, Disconnect, Release, TearByRead, TearByWrite, Fails, callerVars
      <3>2. CASE Answer(c) \/ Close(c)
        BY <3>2 DEF Answer, Accept, Refuse, Execute, Reject, Close, ServerKeeps, callerVars
      <3>3. QED
        BY <2>1, <3>1, <3>2
    <2>3. Distinct'
      BY <2>2 DEF FaultInv, Distinct
    <2>4. QED
      BY <1>4, <2>1, <2>3, FineWrite, FineRead, FineExecute, FineSocket DEF Answer
  <1>5. QED
    BY <1>1, <1>2, <1>3, <1>4 DEF Next

(***************************************************************************)
(* No fault without a cause: a connection to which nothing happens but the *)
(* plain exchange never faults, and a PUBLISH survives the loss of the     *)
(* server too; the assertions of async.c (lines 315 and 437) hold in every *)
(* case.  Of a PUBLISH its two handlers take turns (Turns) and its one     *)
(* reply finds its callback (Single); a subscriber loses its callback only *)
(* to the one UNSUBSCRIBE, whose reply is the last thing the server sends  *)
(* it (Final), and is closed only after an error (Kept).                   *)
(***************************************************************************)
THEOREM FaultsAreExplained == Spec => []FaultsHaveACause
  <1>1. Init => Distinct /\ (\A d \in Conn : Fine(d) /\ Alive(d)) /\ FaultsHaveACause
    <2>1. SUFFICES ASSUME Init PROVE Distinct /\ (\A d \in Conn : Fine(d) /\ Alive(d)) /\ FaultsHaveACause
      OBVIOUS
    <2>2. Distinct /\ FaultsHaveACause
      BY <2>1 DEF Init, Distinct, FaultsHaveACause
    <2>3. ASSUME NEW d \in Conn PROVE Fine(d) /\ Alive(d)
      BY <2>1 DEF Init, Fine, Marked, Kept, Final, Single, Turns, Alive
    <2>4. QED
      BY <2>2, <2>3
  <1>2. CallInv /\ (\A d \in Conn : Alive(d)) /\ [Next]_vars => (\A d \in Conn : Alive(d))'
    BY AliveStep DEF CallInv
  <1>3. /\ CallInv /\ Distinct /\ (\A d \in Conn : Alive(d)) /\ (\A d \in Conn : Fine(d))
        /\ FaultsHaveACause /\ [Next]_vars
        => Distinct' /\ (\A d \in Conn : Fine(d))' /\ FaultsHaveACause'
    BY FineStep DEF FaultInv
  <1>4. Init => (\A d \in Conn : Alive(d)) /\ (\A d \in Conn : Fine(d))
    BY <1>1
  <1>5. QED
    BY <1>1, <1>2, <1>3, <1>4, CallInvariant, PTL DEF Spec

=============================================================================
