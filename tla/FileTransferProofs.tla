------------------------- MODULE FileTransferProofs -------------------------
(***************************************************************************)
(* Proofs about FileTransfer, for any clients, files and events: what an   *)
(* operation is about, which keys stay without an expiry and what a        *)
(* receiver falls over.                                                    *)
(***************************************************************************)
EXTENDS FileTransfer, TLAPS

USE DEF setByteValue

LEMMA Senders ==
  From \in [Transfer -> Sender] /\ Sender \cap Receiver = {} /\ Limit \in Nat
  BY TransferAssumption

USE Senders

LEMMA NamedFiles == ASSUME NEW t \in Transfer PROVE SavedAs(t) \in Part
  <1>1. Name[t] \in Seq(Part) /\ Name[t] # <<>>
    BY TransferAssumption
  <1>2. 1 \in 1..Len(Name[t])
    BY <1>1
  <1>3. QED
    BY <1>2 DEF SavedAs, Part

-----------------------------------------------------------------------------

(***************************************************************************)
(* The inductive invariant.                                                *)
(***************************************************************************)

\* What a callback of t may come by: t, or another file when both overlapped.
Mixed(t, u) ==
  /\ u \in Transfer
  /\ u # t => Suffers(t, {"overlap"}) /\ Suffers(u, {"overlap"}) /\ From[u] = From[t]

Waiting(t) == pc[t] \notin {"idle", "done", "lost"}

\* Two transfers of one sender that wait for their callbacks have overlapped.
Overlapping ==
  \A t, u \in Transfer :
    t # u /\ From[t] = From[u] /\ Waiting(t) /\ Waiting(u) => Suffers(t, {"overlap"})

\* The slot, what a callback has read of it, the argument and the operation.
OptionsMixed ==
  \A t \in Transfer :
    /\ Waiting(t) => Mixed(t, slot[From[t]])
    /\ pc[t] \in {"reading", "armed"} => Mixed(t, got[t])
    /\ pc[t] = "armed" => Mixed(t, arg[From[t]])
    /\ op[t].at # "none" => Mixed(t, op[t].of)

OwnInv == TypeOK /\ Overlapping /\ OptionsMixed

-----------------------------------------------------------------------------

\* What has happened to a transfer is not forgotten.
LEMMA StrainGrows ==
  ASSUME TypeOK, [Next]_vars
  PROVE  strain \subseteq strain'
  <1>1. CASE UNCHANGED vars
    BY <1>1 DEF vars
  <1>2. CASE Next
    BY <1>2 DEF Next, Progress, Server, Callback, Operation, Handle, Strained, Ends, Plaster,
      SetExecuted, SetRefused, SetLost, ReadOptions, SetArgument, Invoke, Expire, Announce,
      Elapse, Quit, Refuse, Fetch, Miss, Save, Paste
  <1>3. QED
    BY <1>1, <1>2

LEMMA TypeInit == Init => TypeOK
  <1> SUFFICES ASSUME Init PROVE TypeOK
    OBVIOUS
  <1>1. <<>> \in Seq(Transfer)
    OBVIOUS
  <1>2. QED
    BY <1>1 DEF Init, TypeOK, Maybe, Phase

\* The type of what the sender's half of a step changes, from the invariant.
LEMMA OperationType ==
  ASSUME OwnInv, NEW t \in Transfer, op[t].at # "none"
  PROVE  /\ op[t] \in [of : Transfer, at : {"queued", "expired", "done"}]
         /\ op[t].of \in Transfer
         /\ [op EXCEPT ![t].at = "expired"]
              = [op EXCEPT ![t] = [of |-> op[t].of, at |-> "expired"]]
         /\ [op EXCEPT ![t].at = "done"]
              = [op EXCEPT ![t] = [of |-> op[t].of, at |-> "done"]]
  <1>1. op \in [Transfer -> {NoOperation} \cup [of : Transfer, at : {"queued", "expired", "done"}]]
    BY DEF OwnInv, TypeOK
  <1>2. op[t] \in [of : Transfer, at : {"queued", "expired", "done"}]
    BY <1>1 DEF NoOperation
  <1>3. \A at : [op[t] EXCEPT !.at = at] = [of |-> op[t].of, at |-> at]
    BY <1>2
  <1> QED
    BY <1>2, <1>3

LEMMA InboxType ==
  ASSUME TypeOK, NEW r \in Receiver, NEW s \in Sender, inbox[r][s] # <<>>
  PROVE  /\ Head(inbox[r][s]) \in Transfer
         /\ Tail(inbox[r][s]) \in Seq(Transfer)
  <1>1. inbox[r][s] \in Seq(Transfer)
    BY DEF TypeOK
  <1> QED
    BY <1>1

\* What a thread of a receiver may be at.
Hand == {Idle} \cup [of : Transfer, at : {"fetched", "saved"}]

LEMMA TypeStep == OwnInv /\ [Next]_vars => TypeOK'
  <1> SUFFICES ASSUME OwnInv, [Next]_vars PROVE TypeOK'
    OBVIOUS
  <1> USE DEF senderVars, receiverVars
  <1>1. CASE UNCHANGED vars
    BY <1>1 DEF OwnInv, TypeOK, vars
  <1>2. ASSUME NEW t \in Transfer, Plaster(t) PROVE TypeOK'
    <2>1. Unannounced(From[t]) \cup {t} \in SUBSET Transfer /\ {} \in SUBSET Transfer
      BY DEF Unannounced
    <2>2. strain' \subseteq Transfer \X Strain
      BY <1>2, <2>1 DEF Plaster, Strained, OwnInv, TypeOK, Strain
    <2>3. slot' \in [Sender -> Maybe] /\ pc' \in [Transfer -> Phase] /\ size' \in [Transfer -> Nat]
      <3>1. From[t] \in Sender /\ Limit \in Nat /\ Limit + 1 \in Nat
        OBVIOUS
      <3>2. size' = [size EXCEPT ![t] = Limit] \/ size' = [size EXCEPT ![t] = Limit + 1]
        BY <1>2 DEF Plaster
      <3>3. size' \in [Transfer -> Nat]
        <4>1. size \in [Transfer -> Nat]
          BY DEF OwnInv, TypeOK
        <4>2. QED
          BY ONLY <3>1, <3>2, <4>1, t \in Transfer
      <3>4. slot' \in [Sender -> Maybe] /\ pc' \in [Transfer -> Phase]
        BY <1>2, <3>1 DEF Plaster, OwnInv, TypeOK, Maybe, Phase
      <3>5. QED
        BY <3>3, <3>4
    <2>4. QED
      BY <1>2, <2>2, <2>3 DEF Plaster, OwnInv, TypeOK
  <1>3. ASSUME NEW t \in Transfer, Server(t) PROVE TypeOK'
    <2>1. CASE SetExecuted(t)
      BY <2>1 DEF SetExecuted, OwnInv, TypeOK, Phase
    <2>2. CASE SetRefused(t) \/ SetLost(t)
      <3>1. strain' \subseteq Transfer \X Strain
        BY <2>2 DEF SetRefused, SetLost, Strained, OwnInv, TypeOK, Strain
      <3>2. pc' \in [Transfer -> Phase]
        BY <2>2 DEF SetRefused, SetLost, OwnInv, TypeOK, Phase
      <3>3. QED
        BY <2>2, <3>1, <3>2 DEF SetRefused, SetLost, OwnInv, TypeOK
    <2>3. QED
      BY <1>3, <2>1, <2>2 DEF Server
  <1>4. ASSUME NEW t \in Transfer, ReadOptions(t) PROVE TypeOK'
    BY <1>4 DEF ReadOptions, OwnInv, TypeOK, Phase
  <1>5. ASSUME NEW t \in Transfer, SetArgument(t) PROVE TypeOK'
    <2>1. Unfinished(From[t]) \subseteq Transfer
      BY DEF Unfinished
    <2>2. strain' \subseteq Transfer \X Strain /\ up' \subseteq Sender \cup Receiver
      BY <1>5, <2>1 DEF SetArgument, Ends, Strained, OwnInv, TypeOK, Strain
    <2>3. pc' \in [Transfer -> Phase] /\ arg' \in [Sender -> Maybe]
      BY <1>5 DEF SetArgument, OwnInv, TypeOK, Phase
    <2>4. QED
      BY <1>5, <2>2, <2>3 DEF SetArgument, OwnInv, TypeOK
  <1>6. ASSUME NEW t \in Transfer, Invoke(t) PROVE TypeOK'
    <2>1. arg[From[t]] \in Transfer
      BY <1>6 DEF Invoke, OwnInv, OptionsMixed, Mixed
    <2>2. QED
      BY <1>6, <2>1 DEF Invoke, OwnInv, TypeOK, Phase
  <1>7. ASSUME NEW t \in Transfer, Expire(t) PROVE TypeOK'
    <2>1. op[t].at # "none"
      BY <1>7 DEF Expire
    <2>2. op[t].of \in Transfer /\ op' = [op EXCEPT ![t] = [of |-> op[t].of, at |-> "expired"]]
      BY <1>7, <2>1, OperationType DEF Expire
    <2>3. op' \in [Transfer -> {NoOperation} \cup [of : Transfer, at : {"queued", "expired", "done"}]]
      BY <2>2 DEF OwnInv, TypeOK
    <2>4. /\ key' \in [Transfer -> {"absent", "kept", "expiring", "gone"}]
          /\ strain' \subseteq Transfer \X Strain
      <3> DEFINE o == op[t].of
      <3>1. \/ key' = [key EXCEPT ![o] = IF @ = "kept" THEN "expiring" ELSE @] /\ strain' = strain
            \/ key' = key /\ strain' = strain \cup ({o} \X {"outage"})
        BY <1>7 DEF Expire, Strained
      <3>2. /\ key \in [Transfer -> {"absent", "kept", "expiring", "gone"}]
            /\ strain \subseteq Transfer \X Strain /\ "outage" \in Strain
        BY DEF OwnInv, TypeOK, Strain
      <3> HIDE DEF o
      <3>3. o \in Transfer
        BY <2>2 DEF o
      <3>4. QED
        BY ONLY <3>1, <3>2, <3>3
    <2>5. QED
      BY <1>7, <2>3, <2>4 DEF Expire, OwnInv, TypeOK
  <1>8. ASSUME NEW t \in Transfer, Announce(t) PROVE TypeOK'
    <2>1. op[t].at # "none"
      BY <1>8 DEF Announce
    <2>2. op[t].of \in Transfer /\ op' = [op EXCEPT ![t] = [of |-> op[t].of, at |-> "done"]]
      BY <1>8, <2>1, OperationType DEF Announce
    <2>3. op' \in [Transfer -> {NoOperation} \cup [of : Transfer, at : {"queued", "expired", "done"}]]
      BY <2>2 DEF OwnInv, TypeOK
    <2>4. strain' \subseteq Transfer \X Strain
      BY <1>8, <2>2 DEF Announce, Strained, OwnInv, TypeOK, Strain
    <2>5. inbox' \in [Receiver -> [Sender -> Seq(Transfer)]]
      <3> DEFINE Delivered(r) == [inbox[r] EXCEPT ![From[t]] = Append(@, op[t].of)]
      <3>1. ASSUME NEW r \in Receiver PROVE Delivered(r) \in [Sender -> Seq(Transfer)]
        <4>1. inbox[r] \in [Sender -> Seq(Transfer)]
          BY DEF OwnInv, TypeOK
        <4>2. Append(inbox[r][From[t]], op[t].of) \in Seq(Transfer)
          BY <2>2, <4>1
        <4>3. QED
          BY <4>1, <4>2
      <3>2. \/ inbox' = inbox
            \/ inbox' = [r \in Receiver |-> IF r \in up THEN Delivered(r) ELSE inbox[r]]
        BY <1>8 DEF Announce
      <3>3. inbox \in [Receiver -> [Sender -> Seq(Transfer)]]
        BY DEF OwnInv, TypeOK
      <3> HIDE DEF Delivered
      <3>4. QED
        BY ONLY <3>1, <3>2, <3>3
    <2>6. QED
      BY <1>8, <2>3, <2>4, <2>5 DEF Announce, OwnInv, TypeOK
  <1>9. ASSUME NEW t \in Transfer, Elapse(t) PROVE TypeOK'
    BY <1>9 DEF Elapse, Strained, OwnInv, TypeOK, Strain
  <1>10. ASSUME NEW s \in Sender, Quit(s) PROVE TypeOK'
    <2>1. Unfinished(s) \subseteq Transfer
      BY DEF Unfinished
    <2>2. QED
      BY <1>10, <2>1 DEF Quit, Ends, Strained, OwnInv, TypeOK, Strain
  <1>11. ASSUME NEW r \in Receiver, NEW s \in Sender, Refuse(r, s) \/ Fetch(r, s) \/ Miss(r, s)
         PROVE TypeOK'
    <2> DEFINE t == Head(inbox[r][s])
    <2>1. t \in Transfer /\ Tail(inbox[r][s]) \in Seq(Transfer)
      BY <1>11, InboxType DEF Refuse, Fetch, Miss, Pending, OwnInv
    <2>2. inbox' = [inbox EXCEPT ![r][s] = Tail(inbox[r][s])]
      BY <1>11 DEF Refuse, Fetch, Miss, Taken
    <2>3. inbox' \in [Receiver -> [Sender -> Seq(Transfer)]]
      BY <2>1, <2>2 DEF OwnInv, TypeOK
    <2>4. /\ up' \subseteq Sender \cup Receiver
          /\ blame' \in [Receiver -> Maybe]
          /\ obtained' \in [Receiver -> SUBSET Transfer]
      <3>1. /\ up \subseteq Sender \cup Receiver
            /\ blame \in [Receiver -> Maybe]
            /\ obtained \in [Receiver -> SUBSET Transfer]
        BY DEF OwnInv, TypeOK
      <3>2. t \in Maybe /\ obtained[r] \cup {t} \in SUBSET Transfer
        BY <2>1, <3>1 DEF Maybe
      <3>3. /\ up' = up \/ up' = up \ {r}
            /\ blame' = blame \/ blame' = [blame EXCEPT ![r] = t]
            /\ obtained' = obtained \/ obtained' = [obtained EXCEPT ![r] = obtained[r] \cup {t}]
        BY <1>11 DEF Refuse, Fetch, Miss, Falls
      <3> HIDE DEF t
      <3>4. QED
        BY ONLY <3>1, <3>2, <3>3, r \in Receiver
    <2>5. strain' \subseteq Transfer \X Strain
      BY <1>11, <2>1 DEF Refuse, Fetch, Miss, Strained, OwnInv, TypeOK, Strain
    <2>6. hand' \in [Receiver -> [Sender -> Hand]]
      <3>1. [of |-> t, at |-> "fetched"] \in Hand
        BY <2>1 DEF Hand
      <3>2. hand' = hand \/ hand' = [hand EXCEPT ![r][s] = [of |-> t, at |-> "fetched"]]
        BY <1>11 DEF Refuse, Fetch, Miss
      <3>3. hand \in [Receiver -> [Sender -> Hand]]
        BY DEF OwnInv, TypeOK, Hand
      <3> HIDE DEF t
      <3>4. QED
        BY ONLY <3>1, <3>2, <3>3, r \in Receiver, s \in Sender
    <2>7. QED
      BY <1>11, <2>3, <2>4, <2>5, <2>6 DEF Refuse, Fetch, Miss, OwnInv, TypeOK, Hand
  <1>12. ASSUME NEW r \in Receiver, NEW s \in Sender, Save(r, s) \/ Paste(r, s) PROVE TypeOK'
    <2> DEFINE t == hand[r][s].of
    <2>1. hand[r][s] \in [of : Transfer, at : {"fetched", "saved"}]
      BY <1>12 DEF Save, Paste, OwnInv, TypeOK, Idle
    <2>2. t \in Transfer /\ [hand[r][s] EXCEPT !.at = "saved"] = [of |-> t, at |-> "saved"]
      BY <2>1
    <2>3. SavedAs(t) \in Part
      BY <2>2, NamedFiles
    <2>4. hand' \in [Receiver -> [Sender -> Hand]]
      <3>1. [of |-> t, at |-> "saved"] \in Hand /\ Idle \in Hand
        BY <2>2 DEF Hand
      <3>2. \/ hand' = [hand EXCEPT ![r][s] = [of |-> t, at |-> "saved"]]
            \/ hand' = [hand EXCEPT ![r][s] = Idle]
        BY <1>12, <2>2 DEF Save, Paste
      <3>3. hand \in [Receiver -> [Sender -> Hand]]
        BY DEF OwnInv, TypeOK, Hand
      <3> HIDE DEF t
      <3>4. QED
        BY ONLY <3>1, <3>2, <3>3, r \in Receiver, s \in Sender
    <2>5. disk' \in [Receiver -> [Part -> Maybe]]
      <3>1. disk' = disk \/ disk' = [disk EXCEPT ![r][SavedAs(t)] = t]
        BY <1>12 DEF Save, Paste
      <3>2. disk \in [Receiver -> [Part -> Maybe]] /\ t \in Maybe
        BY <2>2 DEF OwnInv, TypeOK, Maybe
      <3>3. QED
        BY ONLY <2>3, <3>1, <3>2, r \in Receiver
    <2>6. clip' \in [Receiver -> Maybe]
      BY <1>12, <2>2 DEF Save, Paste, OwnInv, TypeOK, Maybe
    <2>7. QED
      BY <1>12, <2>4, <2>5, <2>6 DEF Save, Paste, OwnInv, TypeOK, Hand
  <1>13. QED
    BY <1>1, <1>2, <1>3, <1>4, <1>5, <1>6, <1>7, <1>8, <1>9, <1>10, <1>11, <1>12
       DEF Next, Progress, Callback, Operation, Handle

-----------------------------------------------------------------------------

(***************************************************************************)
(* Whose options a callback comes by.                                      *)
(***************************************************************************)

LEMMA MixedStays ==
  ASSUME strain \subseteq strain', NEW t, NEW u, Mixed(t, u)
  PROVE  Mixed(t, u)'
  BY DEF Mixed, Suffers

LEMMA OwnPlaster ==
  ASSUME OwnInv, [Next]_vars, NEW v \in Transfer, Plaster(v)
  PROVE  (Overlapping /\ OptionsMixed)'
  <1>1. pc \in [Transfer -> Phase] /\ slot \in [Sender -> Maybe] /\ From[v] \in Sender
    BY DEF OwnInv, TypeOK
  <1>2. pc' = [pc EXCEPT ![v] = "sent"] /\ slot' = [slot EXCEPT ![From[v]] = v]
    BY DEF Plaster
  <1>3. strain \subseteq strain'
    BY StrainGrows DEF OwnInv
  <1>4. ASSUME NEW t \in Transfer, t # v, From[t] = From[v], Waiting(t)
        PROVE  Suffers(t, {"overlap"})' /\ Suffers(v, {"overlap"})'
    <2>1. t \in Unannounced(From[v])
      BY <1>4 DEF Unannounced, Waiting
    <2>2. strain' = strain \cup ((Unannounced(From[v]) \cup {v}) \X {"overlap"})
      BY <2>1 DEF Plaster, Strained
    <2>3. QED
      BY <2>1, <2>2 DEF Suffers
  <1>5. \A t \in Transfer : t # v => (Waiting(t)' <=> Waiting(t))
    BY <1>1, <1>2 DEF Waiting
  <1>6. Overlapping'
    <2> SUFFICES ASSUME NEW t \in Transfer, NEW u \in Transfer, t # u, From[t] = From[u],
                        Waiting(t)', Waiting(u)'
                 PROVE  Suffers(t, {"overlap"})'
      BY DEF Overlapping
    <2>1. CASE t = v \/ u = v
      BY <1>4, <1>5, <2>1
    <2>2. CASE t # v /\ u # v
      BY <1>3, <1>5, <2>2 DEF OwnInv, Overlapping, Suffers
    <2>3. QED
      BY <2>1, <2>2
  <1>7. OptionsMixed'
    <2> SUFFICES ASSUME NEW t \in Transfer
                 PROVE  /\ Waiting(t)' => Mixed(t, slot[From[t]])'
                        /\ pc'[t] \in {"reading", "armed"} => Mixed(t, got[t])'
                        /\ pc'[t] = "armed" => Mixed(t, arg[From[t]])'
                        /\ op'[t].at # "none" => Mixed(t, op[t].of)'
      BY DEF OptionsMixed
    <2>1. /\ Waiting(t) => Mixed(t, slot[From[t]])
          /\ pc[t] \in {"reading", "armed"} => Mixed(t, got[t])
          /\ pc[t] = "armed" => Mixed(t, arg[From[t]])
          /\ op[t].at # "none" => Mixed(t, op[t].of)
      BY DEF OwnInv, OptionsMixed
    <2>2. got' = got /\ arg' = arg /\ op' = op
      BY DEF Plaster
    <2>3. pc'[t] \in {"reading", "armed"} => pc'[t] = pc[t]
      BY <1>1, <1>2
    <2>4. ASSUME Waiting(t)' PROVE Mixed(t, slot[From[t]])'
      <3>1. CASE From[t] # From[v]
        <4>1. t # v /\ slot'[From[t]] = slot[From[t]]
          BY <1>1, <1>2, <3>1
        <4>2. QED
          BY <1>3, <1>5, <2>1, <2>4, <4>1 DEF Mixed, Suffers
      <3>2. CASE From[t] = From[v]
        <4>1. slot'[From[t]] = v
          BY <1>1, <1>2, <3>2
        <4>2. t = v \/ Waiting(t)
          BY <1>5, <2>4
        <4>3. QED
          BY <1>4, <3>2, <4>1, <4>2 DEF Mixed
      <3>3. QED
        BY <3>1, <3>2
    <2>5. QED
      BY <1>3, <2>1, <2>2, <2>3, <2>4 DEF Mixed, Suffers
  <1>8. QED
    BY <1>6, <1>7

\* A step that starts no transfer needs only say what it does to the options.
LEMMA OwnOther ==
  ASSUME OwnInv, [Next]_vars, slot' = slot,
         \A t \in Transfer : Waiting(t)' => Waiting(t),
         \A t \in Transfer : pc'[t] \in {"reading", "armed"} => Mixed(t, got'[t]),
         \A t \in Transfer : pc'[t] = "armed" => Mixed(t, arg'[From[t]]),
         \A t \in Transfer : op'[t].at # "none" => Mixed(t, op'[t].of)
  PROVE  (Overlapping /\ OptionsMixed)'
  <1>1. strain \subseteq strain'
    BY StrainGrows DEF OwnInv
  <1>2. Overlapping'
    BY <1>1 DEF OwnInv, Overlapping, Suffers
  <1>3. OptionsMixed'
    BY <1>1 DEF OwnInv, OptionsMixed, Mixed, Suffers
  <1>4. QED
    BY <1>2, <1>3

LEMMA OwnStep == OwnInv /\ [Next]_vars => (Overlapping /\ OptionsMixed)'
  <1> SUFFICES ASSUME OwnInv, [Next]_vars PROVE (Overlapping /\ OptionsMixed)'
    OBVIOUS
  <1> DEFINE Goal == (Overlapping /\ OptionsMixed)'
  <1>0. \A t \in Transfer :
          /\ Waiting(t) => Mixed(t, slot[From[t]])
          /\ pc[t] \in {"reading", "armed"} => Mixed(t, got[t])
          /\ pc[t] = "armed" => Mixed(t, arg[From[t]])
          /\ op[t].at # "none" => Mixed(t, op[t].of)
    BY DEF OwnInv, OptionsMixed
  <1>1. /\ pc \in [Transfer -> Phase] /\ got \in [Transfer -> Maybe]
        /\ arg \in [Sender -> Maybe] /\ From \in [Transfer -> Sender]
        /\ op \in [Transfer -> {NoOperation} \cup [of : Transfer, at : {"queued", "expired", "done"}]]
    BY DEF OwnInv, TypeOK
  <1>2. ASSUME slot' = slot, pc' = pc, got' = got, arg' = arg, op' = op PROVE Goal
    BY <1>0, <1>2, OwnOther DEF Waiting
  <1>3. ASSUME NEW v \in Transfer, Server(v) PROVE Goal
    <2>1. /\ slot' = slot /\ got' = got /\ arg' = arg /\ op' = op
          /\ \A t \in Transfer : pc'[t] = pc[t] \/ (Waiting(t) /\ pc'[t] \in {"stored", "refused", "lost"})
      BY <1>1, <1>3 DEF Server, SetExecuted, SetRefused, SetLost, Waiting
    <2>2. \A t \in Transfer : Waiting(t)' => Waiting(t)
      BY <2>1 DEF Waiting
    <2>3. QED
      BY <1>0, <2>1, <2>2, OwnOther
  <1>4. ASSUME NEW v \in Transfer, ReadOptions(v) PROVE Goal
    <2>1. /\ slot' = slot /\ arg' = arg /\ op' = op
          /\ pc' = [pc EXCEPT ![v] = "reading"] /\ got' = [got EXCEPT ![v] = slot[From[v]]]
          /\ Waiting(v)
      BY <1>4 DEF ReadOptions, Waiting
    <2>2. \A t \in Transfer : Waiting(t)' => Waiting(t)
      BY <1>1, <2>1 DEF Waiting
    <2>3. \A t \in Transfer : pc'[t] \in {"reading", "armed"} => Mixed(t, got'[t])
      BY <1>0, <1>1, <2>1
    <2>4. \A t \in Transfer : pc'[t] = "armed" => Mixed(t, arg'[From[t]])
      BY <1>0, <1>1, <2>1
    <2>5. QED
      BY <1>0, <2>1, <2>2, <2>3, <2>4, OwnOther
  <1>5. ASSUME NEW v \in Transfer, SetArgument(v) PROVE Goal
    <2>1. CASE pc' = pc /\ arg' = arg
      BY <1>2, <1>5, <2>1 DEF SetArgument
    <2>2. CASE pc' = [pc EXCEPT ![v] = "armed"] /\ arg' = [arg EXCEPT ![From[v]] = got[v]]
      <3>1. slot' = slot /\ got' = got /\ op' = op /\ pc[v] = "reading"
        BY <1>5 DEF SetArgument
      <3>2. \A t \in Transfer : Waiting(t)' => Waiting(t)
        BY <1>1, <2>2, <3>1 DEF Waiting
      <3>3. \A t \in Transfer : pc'[t] \in {"reading", "armed"} => Mixed(t, got'[t])
        BY <1>0, <1>1, <2>2, <3>1
      <3>4. ASSUME NEW t \in Transfer, pc'[t] = "armed" PROVE Mixed(t, arg'[From[t]])
        <4>1. CASE From[t] # From[v]
          <5>1. pc[t] = "armed" /\ arg'[From[t]] = arg[From[t]]
            BY <1>1, <2>2, <3>4, <4>1
          <5>2. QED
            BY <1>0, <5>1
        <4>2. CASE From[t] = From[v]
          <5>1. arg'[From[t]] = got[v] /\ Mixed(v, got[v])
            BY <1>0, <1>1, <2>2, <3>1, <4>2
          <5>2. t # v => Waiting(t) /\ Waiting(v)
            BY <1>1, <2>2, <3>1, <3>4 DEF Waiting
          <5>3. t # v => Suffers(t, {"overlap"}) /\ Suffers(v, {"overlap"})
            BY <4>2, <5>2 DEF OwnInv, Overlapping
          <5>4. QED
            BY <4>2, <5>1, <5>3 DEF Mixed
        <4>3. QED
          BY <4>1, <4>2
      <3>5. QED
        BY <1>0, <3>1, <3>2, <3>3, <3>4, OwnOther
    <2>3. QED
      BY <1>5, <2>1, <2>2 DEF SetArgument
  <1>6. ASSUME NEW v \in Transfer, Invoke(v) PROVE Goal
    <2>1. /\ slot' = slot /\ arg' = arg /\ got' = got
          /\ pc' = [pc EXCEPT ![v] = "done"] /\ pc[v] = "armed"
          /\ op' = [op EXCEPT ![v] = [of |-> arg[From[v]], at |-> "queued"]]
      BY <1>6 DEF Invoke
    <2>2. \A t \in Transfer : pc'[t] = pc[t] \/ pc'[t] = "done"
      BY <1>1, <2>1
    <2>3. \A t \in Transfer : Waiting(t)' => Waiting(t)
      BY <2>2 DEF Waiting
    <2>4. \A t \in Transfer : op'[t].at # "none" => Mixed(t, op'[t].of)
      BY <1>0, <1>1, <2>1
    <2>5. QED
      BY <1>0, <2>1, <2>2, <2>3, <2>4, OwnOther
  <1>7. ASSUME NEW v \in Transfer, Operation(v) PROVE Goal
    <2>1. slot' = slot /\ arg' = arg /\ got' = got /\ pc' = pc /\ op[v].at # "none"
      BY <1>7 DEF Operation, Expire, Announce
    <2>2. \E at \in {"expired", "done"} : op' = [op EXCEPT ![v] = [of |-> op[v].of, at |-> at]]
      BY <1>7, <2>1, OperationType DEF Operation, Expire, Announce
    <2>3. \A t \in Transfer : op'[t] = op[t] \/ (t = v /\ op'[t].of = op[t].of)
      BY <1>1, <2>2
    <2>4. \A t \in Transfer : op'[t].at # "none" => Mixed(t, op'[t].of)
      BY <1>0, <2>1, <2>3
    <2>5. QED
      BY <1>0, <2>1, <2>4, OwnOther DEF Waiting
  <1>8. ASSUME UNCHANGED senderVars PROVE Goal
    BY <1>2, <1>8 DEF senderVars
  <1>9. ASSUME NEW t \in Transfer, Elapse(t) PROVE Goal
    BY <1>8, <1>9 DEF Elapse
  <1>10. ASSUME NEW s \in Sender, Quit(s) PROVE Goal
    BY <1>8, <1>10 DEF Quit
  <1>11. ASSUME NEW r, NEW s, Handle(r, s) PROVE Goal
    BY <1>8, <1>11 DEF Handle, Refuse, Fetch, Miss, Save, Paste
  <1>12. CASE UNCHANGED vars
    <2>1. UNCHANGED senderVars
      BY <1>12 DEF vars
    <2>2. QED
      BY <1>8, <2>1
  <1>13. ASSUME NEW v \in Transfer, Plaster(v) PROVE Goal
    BY <1>13, OwnPlaster
  <1>14. ASSUME NEW v \in Transfer, Server(v) \/ Callback(v) \/ Operation(v) PROVE Goal
    BY <1>3, <1>4, <1>5, <1>6, <1>7, <1>14 DEF Callback
  <1>15. CASE Progress
    BY <1>9, <1>11, <1>14, <1>15 DEF Progress
  <1>16. QED
    BY <1>10, <1>12, <1>13, <1>15 DEF Next

-----------------------------------------------------------------------------

LEMMA OwnInvariant == Spec => []OwnInv
  <1>1. Init => OwnInv
    BY TypeInit DEF Init, OwnInv, Overlapping, OptionsMixed, Waiting, NoOperation
  <1>2. OwnInv /\ [Next]_vars => OwnInv'
    BY TypeStep, OwnStep DEF OwnInv
  <1>3. QED
    BY <1>1, <1>2, PTL DEF Spec

(***************************************************************************)
(* Every variable of a transfer keeps its type.  The operations do only    *)
(* because a callback finds options in the slot, put there before the SET  *)
(* of TSPlasterController.m:405 was sent.                                  *)
(***************************************************************************)
THEOREM TypeCorrect == Spec => []TypeOK
  <1>1. OwnInv => TypeOK
    BY DEF OwnInv
  <1>2. QED
    BY <1>1, OwnInvariant, PTL

(***************************************************************************)
(* An operation is about the file of its SET, or about another of the same *)
(* sender when both were under way together (TSRedisController.m:110).     *)
(***************************************************************************)
THEOREM OperationAnnouncesItsOwn == Spec => []AnnouncesItsOwn
  <1>1. OwnInv => AnnouncesItsOwn
    BY DEF OwnInv, OptionsMixed, Mixed, AnnouncesItsOwn
  <1>2. QED
    BY <1>1, OwnInvariant, PTL

-----------------------------------------------------------------------------

(***************************************************************************)
(* The keys.                                                               *)
(***************************************************************************)

\* What a sender had not finished when it ended has suffered from that.
Quitted == \A t \in Transfer : From[t] \notin up /\ t \in Unfinished(From[t]) => Suffers(t, {"quit"})

\* Only a callback that has run has an operation.
OperationIsLast == \A t \in Transfer : op[t].at # "none" => pc[t] = "done"

\* The key is there after the SET only, and then unless it was refused.
KeyOfSet ==
  \A t \in Transfer :
    /\ pc[t] \in {"idle", "sent"} => key[t] = "absent"
    /\ pc[t] \in {"stored", "refused", "reading", "armed", "done"} /\ key[t] = "absent"
         => Suffers(t, {"error"})

KeyInv == Quitted /\ OperationIsLast /\ KeyOfSet /\ KeptHasACause

\* A client that ends leaves its mark on all that it was pursuing.
LEMMA KeyEnds ==
  ASSUME OwnInv, KeyInv, [Next]_vars, NEW s \in Sender, Ends(s),
         pc' = pc, op' = op, key' = key
  PROVE  KeyInv'
  <1>1. strain \subseteq strain' /\ up' = up \ {s}
    BY StrainGrows DEF OwnInv, Ends
  <1>2. \A t \in Unfinished(s) : Suffers(t, {"quit"})'
    BY DEF Ends, Strained, Suffers
  <1>3. OperationIsLast' /\ KeyOfSet'
    BY <1>1 DEF KeyInv, OperationIsLast, KeyOfSet, Suffers
  <1>4. Quitted'
    BY <1>1, <1>2 DEF KeyInv, Quitted, Unfinished, Suffers
  <1>5. ASSUME NEW t \in Transfer, Pursued(t), From[t] = s PROVE t \in Unfinished(s)
    BY <1>5 DEF Pursued, Unfinished, KeyInv, OperationIsLast
  <1>6. ASSUME NEW t \in Transfer, key'[t] = "kept", ~Pursued(t)'
        PROVE  Suffers(t, {"overlap", "outage", "quit"})'
    <2>1. CASE Pursued(t)
      <3>1. From[t] = s
        BY <1>1, <1>6, <2>1 DEF Pursued
      <3>2. QED
        BY <1>2, <1>5, <2>1, <3>1 DEF Suffers
    <2>2. CASE ~Pursued(t)
      BY <1>1, <1>6, <2>2 DEF KeyInv, KeptHasACause, Suffers
    <2>3. QED
      BY <2>1, <2>2
  <1>7. QED
    BY <1>3, <1>4, <1>6 DEF KeyInv, KeptHasACause

LEMMA KeyStep == OwnInv /\ KeyInv /\ [Next]_vars => KeyInv'
  <1> SUFFICES ASSUME OwnInv, KeyInv, [Next]_vars PROVE KeyInv'
    OBVIOUS
  <1>1. /\ pc \in [Transfer -> Phase] /\ From \in [Transfer -> Sender]
        /\ key \in [Transfer -> {"absent", "kept", "expiring", "gone"}]
        /\ op \in [Transfer -> {NoOperation} \cup [of : Transfer, at : {"queued", "expired", "done"}]]
    BY DEF OwnInv, TypeOK
  <1>2. strain \subseteq strain'
    BY StrainGrows DEF OwnInv
  <1>3. ASSUME UNCHANGED <<pc, op, key>>, \A s \in Sender : s \in up' <=> s \in up PROVE KeyInv'
    BY <1>1, <1>2, <1>3 DEF KeyInv, Quitted, OperationIsLast, KeyOfSet, KeptHasACause, Suffers,
      Unfinished, Pursued
  <1>4. ASSUME NEW v \in Transfer, Plaster(v) PROVE KeyInv'
    <2>1. /\ pc[v] = "idle" /\ pc' = [pc EXCEPT ![v] = "sent"] /\ From[v] \in up
          /\ UNCHANGED <<up, op, key>>
      BY <1>4 DEF Plaster
    <2>2. QED
      BY <1>1, <1>2, <2>1 DEF KeyInv, Quitted, OperationIsLast, KeyOfSet, KeptHasACause, Suffers,
        Unfinished, Pursued
  <1>5. ASSUME NEW v \in Transfer, SetExecuted(v) PROVE KeyInv'
    <2>1. /\ pc[v] = "sent" /\ pc' = [pc EXCEPT ![v] = "stored"]
          /\ key' = [key EXCEPT ![v] = "kept"] /\ UNCHANGED <<up, op>>
      BY <1>5 DEF SetExecuted
    <2>2. op[v].at = "none"
      BY <2>1 DEF KeyInv, OperationIsLast
    <2>3. From[v] \notin up => Suffers(v, {"quit"})
      BY <2>1, <2>2 DEF KeyInv, Quitted, Unfinished
    <2>4. QED
      BY <1>1, <1>2, <2>1, <2>2, <2>3 DEF KeyInv, Quitted, OperationIsLast, KeyOfSet, KeptHasACause,
        Suffers, Unfinished, Pursued
  <1>6. ASSUME NEW v \in Transfer, SetRefused(v) \/ SetLost(v) PROVE KeyInv'
    <2>1. /\ pc[v] \in {"sent", "stored"} /\ UNCHANGED <<up, op, key>>
          /\ \/ pc[v] = "sent" /\ pc' = [pc EXCEPT ![v] = "refused"] /\ Suffers(v, {"error"})'
             \/ pc' = [pc EXCEPT ![v] = "lost"] /\ Suffers(v, {"outage"})'
      BY <1>6 DEF SetRefused, SetLost, Strained, Suffers
    <2>2. op[v].at = "none" /\ (pc[v] = "sent" => key[v] = "absent")
      BY <2>1 DEF KeyInv, OperationIsLast, KeyOfSet
    <2>3. QED
      BY <1>1, <1>2, <2>1, <2>2 DEF KeyInv, Quitted, OperationIsLast, KeyOfSet, KeptHasACause,
        Suffers, Unfinished, Pursued
  <1>7. ASSUME NEW v \in Transfer, ReadOptions(v) PROVE KeyInv'
    <2>1. /\ pc[v] \in {"stored", "refused"} /\ pc' = [pc EXCEPT ![v] = "reading"]
          /\ From[v] \in up /\ UNCHANGED <<up, op, key>>
      BY <1>7 DEF ReadOptions
    <2>2. QED
      BY <1>1, <1>2, <2>1 DEF KeyInv, Quitted, OperationIsLast, KeyOfSet, KeptHasACause, Suffers,
        Unfinished, Pursued
  <1>8. ASSUME NEW v \in Transfer, SetArgument(v) PROVE KeyInv'
    <2>1. CASE Ends(From[v]) /\ pc' = pc
      BY <1>1, <1>8, <2>1, KeyEnds DEF SetArgument
    <2>2. CASE pc' = [pc EXCEPT ![v] = "armed"] /\ up' = up
      <3>1. pc[v] = "reading" /\ From[v] \in up /\ UNCHANGED <<op, key>>
        BY <1>8 DEF SetArgument
      <3>2. QED
        BY <1>1, <1>2, <2>2, <3>1 DEF KeyInv, Quitted, OperationIsLast, KeyOfSet, KeptHasACause,
          Suffers, Unfinished, Pursued
    <2>3. QED
      BY <1>8, <2>1, <2>2 DEF SetArgument
  <1>9. ASSUME NEW v \in Transfer, Invoke(v) PROVE KeyInv'
    <2>1. /\ pc[v] = "armed" /\ pc' = [pc EXCEPT ![v] = "done"] /\ From[v] \in up
          /\ op' = [op EXCEPT ![v] = [of |-> arg[From[v]], at |-> "queued"]]
          /\ UNCHANGED <<up, key>>
      BY <1>9 DEF Invoke
    <2>2. QED
      BY <1>1, <1>2, <2>1 DEF KeyInv, Quitted, OperationIsLast, KeyOfSet, KeptHasACause, Suffers,
        Unfinished, Pursued
  <1>10. ASSUME NEW v \in Transfer, Expire(v) PROVE KeyInv'
    <2> DEFINE o == op[v].of
    <2>1. /\ op[v].at = "queued" /\ From[v] \in up /\ UNCHANGED <<up, pc>>
          /\ op' = [op EXCEPT ![v] = [of |-> o, at |-> "expired"]] /\ o \in Transfer
      BY <1>10, OperationType DEF Expire
    <2>2. \/ key' = [key EXCEPT ![o] = IF @ = "kept" THEN "expiring" ELSE @]
          \/ key' = key /\ Suffers(o, {"outage"})'
      BY <1>10 DEF Expire, Strained, Suffers
    <2>3. o = v \/ Suffers(v, {"overlap"})
      BY <2>1 DEF OwnInv, OptionsMixed, Mixed
    <2>4. /\ \A t \in Transfer : key'[t] = key[t] \/ (key[t] = "kept" /\ key'[t] = "expiring")
          /\ key'[v] # "kept" \/ Suffers(v, {"overlap", "outage"})'
      BY <1>1, <1>2, <2>1, <2>2, <2>3 DEF Suffers
    <2>5. \A t \in Transfer : t # v => op'[t] = op[t]
      BY <1>1, <2>1
    <2>6. OperationIsLast' /\ KeyOfSet'
      BY <1>1, <1>2, <2>1, <2>4, <2>5 DEF KeyInv, OperationIsLast, KeyOfSet, Suffers
    <2>7. Quitted'
      BY <1>1, <1>2, <2>1, <2>5 DEF KeyInv, Quitted, Unfinished, Suffers
    <2>8. KeptHasACause'
      BY <1>1, <1>2, <2>1, <2>4, <2>5 DEF KeyInv, KeptHasACause, Pursued, Suffers
    <2>9. QED
      BY <2>6, <2>7, <2>8 DEF KeyInv
  <1>11. ASSUME NEW v \in Transfer, Announce(v) PROVE KeyInv'
    <2>1. /\ op[v].at = "expired" /\ UNCHANGED <<up, pc, key>>
          /\ op' = [op EXCEPT ![v] = [of |-> op[v].of, at |-> "done"]]
      BY <1>11, OperationType DEF Announce
    <2>2. QED
      BY <1>1, <1>2, <2>1 DEF KeyInv, Quitted, OperationIsLast, KeyOfSet, KeptHasACause, Suffers,
        Unfinished, Pursued
  <1>12. ASSUME NEW s \in Sender, Quit(s) PROVE KeyInv'
    BY <1>12, KeyEnds DEF Quit, senderVars
  <1>13. ASSUME NEW v \in Transfer, Elapse(v) PROVE KeyInv'
    <2>1. /\ key[v] = "expiring" /\ key' = [key EXCEPT ![v] = "gone"] /\ UNCHANGED <<up, pc, op>>
      BY <1>13 DEF Elapse, senderVars
    <2>2. QED
      BY <1>1, <1>2, <2>1 DEF KeyInv, Quitted, OperationIsLast, KeyOfSet, KeptHasACause, Suffers,
        Unfinished, Pursued
  <1>14. ASSUME NEW r \in Receiver, NEW s \in Sender, Handle(r, s) PROVE KeyInv'
    <2>1. UNCHANGED <<pc, op, key>> /\ (up' = up \/ up' = up \ {r})
      BY <1>14 DEF Handle, Refuse, Fetch, Miss, Save, Paste, Falls, senderVars
    <2>2. QED
      BY <1>3, <2>1
  <1>15. QED
    BY <1>3, <1>4, <1>5, <1>6, <1>7, <1>8, <1>9, <1>10, <1>11, <1>12, <1>13, <1>14
       DEF Next, Progress, Server, Callback, Operation, vars, senderVars

LEMMA KeyInvariant == Spec => []KeyInv
  <1>1. Init => KeyInv
    BY DEF Init, KeyInv, Quitted, OperationIsLast, KeyOfSet, KeptHasACause, NoOperation
  <1>2. QED
    BY <1>1, KeyStep, OwnInvariant, PTL DEF Spec

(***************************************************************************)
(* The content key expires (TSPlasterController.m:801): whoever stored it  *)
(* still pursues its expiry, unless transfers overlapped, a connection     *)
(* failed or the sender ended.                                             *)
(***************************************************************************)
THEOREM KeptKeysHaveACause == Spec => []KeptHasACause
  <1>1. KeyInv => KeptHasACause
    BY DEF KeyInv
  <1>2. QED
    BY <1>1, KeyInvariant, PTL

-----------------------------------------------------------------------------

(***************************************************************************)
(* What a receiver falls over.                                             *)
(***************************************************************************)

GrownIsMarked == \A t \in Transfer : size[t] > Limit => Suffers(t, {"grown"})

\* A key expires after an operation about it.
GoneWasExpired ==
  \A t \in Transfer : key[t] \in {"expiring", "gone"} =>
    \E u \in Transfer : op[u].of = t /\ op[u].at \in {"expired", "done"}

GoneIsMarked ==
  \A t \in Transfer : key[t] = "gone" /\ Awaited(t) => Suffers(t, {"late", "overlap"})

Announced(t) == \E u \in Transfer : op[u].of = t /\ op[u].at = "done"

InboxIsAnnounced ==
  \A r \in Receiver, s \in Sender :
    \A i \in 1..Len(inbox[r][s]) : Announced(inbox[r][s][i])

FallInv ==
  GrownIsMarked /\ GoneWasExpired /\ GoneIsMarked /\ InboxIsAnnounced /\ FallsHaveACause

\* A step of the sender, the server or the clock that queues nothing.
LEMMA FallUnchanged ==
  ASSUME OwnInv, FallInv, [Next]_vars,
         \A s \in Sender : s \in up' => s \in up,
         \A r \in Receiver : r \in up' <=> r \in up,
         UNCHANGED <<op, key, inbox, blame>>, GrownIsMarked'
  PROVE  FallInv'
  <1>1. strain \subseteq strain'
    BY StrainGrows DEF OwnInv
  <1>2. \A t \in Transfer : Awaited(t)' => Awaited(t)
    BY DEF Awaited
  <1>3. GoneWasExpired' /\ InboxIsAnnounced'
    BY DEF FallInv, GoneWasExpired, InboxIsAnnounced, Announced
  <1>4. GoneIsMarked'
    BY <1>1, <1>2 DEF FallInv, GoneIsMarked, Suffers
  <1>5. FallsHaveACause'
    BY <1>1 DEF FallInv, FallsHaveACause, Suffers
  <1>6. QED
    BY <1>3, <1>4, <1>5 DEF FallInv

\* What a thread finds at the head of its inbox when the key is not there.
LEMMA MissingKey ==
  ASSUME OwnInv, KeyInv, FallInv, NEW r \in Receiver, NEW s \in Sender, Pending(r, s),
         key[Head(inbox[r][s])] \in {"absent", "gone"}
  PROVE  Suffers(Head(inbox[r][s]), {"late", "outage", "error", "overlap", "grown"})
  <1> DEFINE t == Head(inbox[r][s])
  <1>1. t \in Transfer
    BY InboxType DEF Pending, OwnInv
  <1>2. 1 \in 1..Len(inbox[r][s]) /\ t = inbox[r][s][1]
    <2>1. inbox[r][s] \in Seq(Transfer) /\ inbox[r][s] # <<>>
      BY DEF OwnInv, TypeOK, Pending
    <2>2. QED
      BY <2>1
  <1>3. CASE key[t] = "gone"
    <2>1. Awaited(t)
      BY <1>2 DEF Awaited, Pending
    <2>2. QED
      BY <1>1, <1>3, <2>1 DEF FallInv, GoneIsMarked, Suffers
  <1>4. CASE key[t] = "absent"
    <2>1. PICK u \in Transfer : op[u].of = t /\ op[u].at = "done"
      BY <1>2 DEF FallInv, InboxIsAnnounced, Announced
    <2>2. CASE u = t
      BY <1>1, <1>4, <2>1, <2>2 DEF KeyInv, OperationIsLast, KeyOfSet, Suffers
    <2>3. CASE u # t
      <3>1. Suffers(t, {"overlap"})
        BY <2>1, <2>3 DEF OwnInv, OptionsMixed, Mixed
      <3>2. QED
        BY <3>1 DEF Suffers
    <2>4. QED
      BY <2>2, <2>3
  <1>5. QED
    BY <1>3, <1>4

LEMMA FallReceiver ==
  ASSUME OwnInv, KeyInv, FallInv, [Next]_vars, NEW r \in Receiver, NEW s \in Sender,
         Refuse(r, s) \/ Fetch(r, s) \/ Miss(r, s),
         NEW t \in Transfer, t = Head(inbox[r][s])
  PROVE  FallInv'
  <1>1. strain \subseteq strain'
    BY StrainGrows DEF OwnInv
  <1>2. inbox[r][s] \in Seq(Transfer) /\ inbox[r][s] # <<>>
    BY DEF Refuse, Fetch, Miss, Pending, OwnInv, TypeOK
  <1>3. /\ UNCHANGED <<op, key, size>> /\ r \in up /\ Pending(r, s)
        /\ inbox' = [inbox EXCEPT ![r][s] = Tail(inbox[r][s])]
    BY DEF Refuse, Fetch, Miss, Taken, Pending, senderVars
  <1>4. \A q \in Receiver, v \in Sender :
          \A i \in 1..Len(inbox'[q][v]) : \E j \in 1..Len(inbox[q][v]) : inbox'[q][v][i] = inbox[q][v][j]
    <2>1. \A i \in 1..Len(Tail(inbox[r][s])) :
            i + 1 \in 1..Len(inbox[r][s]) /\ Tail(inbox[r][s])[i] = inbox[r][s][i + 1]
      BY <1>2
    <2>2. inbox \in [Receiver -> [Sender -> Seq(Transfer)]]
      BY DEF OwnInv, TypeOK
    <2>3. \A q \in Receiver, v \in Sender :
            inbox'[q][v] = IF q = r /\ v = s THEN Tail(inbox[r][s]) ELSE inbox[q][v]
      BY <1>3, <2>2
    <2>4. QED
      BY <2>1, <2>3
  <1>5. \/ up' = up /\ blame' = blame
        \/ up' = up \ {r} /\ blame' = [blame EXCEPT ![r] = t]
    BY DEF Refuse, Fetch, Miss, Falls
  <1>6. GrownIsMarked' /\ GoneWasExpired' /\ InboxIsAnnounced'
    <2>1. GrownIsMarked' /\ GoneWasExpired'
      BY <1>1, <1>3 DEF FallInv, GrownIsMarked, GoneWasExpired, Suffers
    <2>2. InboxIsAnnounced'
      <3>1. \A u : Announced(u) => Announced(u)'
        BY <1>3 DEF Announced
      <3>2. QED
        BY <1>4, <3>1 DEF FallInv, InboxIsAnnounced
    <2>3. QED
      BY <2>1, <2>2
  <1>7. GoneIsMarked'
    <2>1. \A u \in Transfer : Awaited(u)' => Awaited(u)
      BY <1>3, <1>4, <1>5 DEF Awaited
    <2>2. QED
      BY <1>1, <1>3, <2>1 DEF FallInv, GoneIsMarked, Suffers
  <1>8. up' # up => Suffers(t, {"late", "outage", "error", "overlap", "grown"})' \/ Ambiguous(t)
    <2>1. CASE Refuse(r, s)
      <3>1. Ambiguous(t) \/ size[t] > Limit
        <4>1. Name[t] \in Seq(Part) /\ Name[t] # <<>> /\ LengthIn(t) > Limit
          BY <1>2, <2>1, TransferAssumption DEF Refuse
        <4>2. Len(Name[t]) = 1 \/ Len(Name[t]) > 1
          <5>1. Len(Name[t]) \in Nat /\ Len(Name[t]) # 0
            BY <4>1
          <5>2. \A n \in Nat : n # 0 => n = 1 \/ n > 1
            OBVIOUS
          <5>3. QED
            BY <5>1, <5>2
        <4>3. QED
          BY <4>1, <4>2 DEF LengthIn, Ambiguous
      <3>2. QED
        BY <1>1, <1>2, <3>1 DEF FallInv, GrownIsMarked, Suffers
    <2>2. CASE Fetch(r, s)
      BY <2>2 DEF Fetch
    <2>3. CASE Miss(r, s)
      <3>1. CASE key[t] \in {"absent", "gone"}
        BY <1>1, <1>3, <3>1, MissingKey DEF Suffers
      <3>2. CASE key[t] \notin {"absent", "gone"}
        BY <2>3, <3>2 DEF Miss, Strained, Suffers
      <3>3. QED
        BY <3>1, <3>2
    <2>4. QED
      BY <2>1, <2>2, <2>3
  <1>9. FallsHaveACause'
    <2>1. blame \in [Receiver -> Maybe]
      BY DEF OwnInv, TypeOK
    <2>2. QED
      BY <1>1, <1>3, <1>5, <1>8, <2>1 DEF FallInv, FallsHaveACause, Suffers
  <1>10. QED
    BY <1>6, <1>7, <1>9 DEF FallInv

LEMMA FallInvoke ==
  ASSUME OwnInv, KeyInv, FallInv, [Next]_vars, NEW v \in Transfer, Invoke(v)
  PROVE  FallInv'
  <1>1. strain \subseteq strain' /\ UNCHANGED <<up, key, size, inbox, blame>>
    BY StrainGrows DEF OwnInv, Invoke, receiverVars
  <1>2. pc[v] = "armed" /\ op' = [op EXCEPT ![v] = [of |-> arg[From[v]], at |-> "queued"]]
    BY DEF Invoke
  <1>3. op[v].at = "none" /\ Mixed(v, arg[From[v]])
    BY <1>2 DEF KeyInv, OperationIsLast, OwnInv, OptionsMixed
  <1>4. \A u \in Transfer : IF u = v THEN op'[u].of = arg[From[v]] /\ op'[u].at = "queued"
                           ELSE op'[u] = op[u]
    BY <1>2 DEF OwnInv, TypeOK
  <1>5. \A u \in Transfer : op[u].at # "none" => op'[u] = op[u]
    BY <1>3, <1>4
  <1>6. GoneWasExpired'
    <2> SUFFICES ASSUME NEW t \in Transfer, key'[t] \in {"expiring", "gone"}
                 PROVE  \E u \in Transfer : op'[u].of = t /\ op'[u].at \in {"expired", "done"}
      BY DEF GoneWasExpired
    <2>1. PICK u \in Transfer : op[u].of = t /\ op[u].at \in {"expired", "done"}
      BY <1>1 DEF FallInv, GoneWasExpired
    <2>2. QED
      BY <1>5, <2>1
  <1>7. InboxIsAnnounced'
    BY <1>1, <1>5 DEF FallInv, InboxIsAnnounced, Announced
  <1>8. ASSUME NEW t \in Transfer, key'[t] = "gone", Awaited(t)' PROVE Suffers(t, {"late", "overlap"})'
    <2>1. CASE t = arg[From[v]]
      <3>1. PICK u \in Transfer : op[u].of = t /\ op[u].at \in {"expired", "done"}
        BY <1>1, <1>8 DEF FallInv, GoneWasExpired
      <3>2. u # v /\ Mixed(u, t)
        BY <1>3, <3>1 DEF OwnInv, OptionsMixed
      <3>3. Suffers(t, {"overlap"})
        BY <1>3, <2>1, <3>2 DEF Mixed
      <3>4. QED
        BY <1>1, <3>3 DEF Suffers
    <2>2. CASE t # arg[From[v]]
      <3>1. Awaited(t)
        BY <1>1, <1>4, <1>8, <2>2 DEF Awaited
      <3>2. QED
        BY <1>1, <1>8, <3>1 DEF FallInv, GoneIsMarked, Suffers
    <2>3. QED
      BY <2>1, <2>2
  <1>9. GrownIsMarked' /\ FallsHaveACause'
    BY <1>1 DEF FallInv, GrownIsMarked, FallsHaveACause, Suffers
  <1>10. QED
    BY <1>6, <1>7, <1>8, <1>9 DEF FallInv, GoneIsMarked

LEMMA FallOperation ==
  ASSUME OwnInv, FallInv, [Next]_vars, NEW v \in Transfer, Operation(v),
         NEW o \in Transfer, o = op[v].of
  PROVE  FallInv'
  <1>1. strain \subseteq strain' /\ UNCHANGED <<up, size, blame>>
    BY StrainGrows DEF OwnInv, Operation, Expire, Announce, receiverVars
  <1>2. /\ op[v].at \in {"queued", "expired"} /\ From[v] \in up
        /\ \/ /\ op' = [op EXCEPT ![v] = [of |-> o, at |-> "expired"]]
              /\ inbox' = inbox
              /\ key' = key \/ key' = [key EXCEPT ![o] = IF @ = "kept" THEN "expiring" ELSE @]
           \/ /\ op' = [op EXCEPT ![v] = [of |-> o, at |-> "done"]]
              /\ key' = key
              /\ \/ inbox' = inbox
                 \/ inbox' = [r \in Receiver |->
                                IF r \in up THEN [inbox[r] EXCEPT ![From[v]] = Append(@, o)]
                                ELSE inbox[r]]
    BY OperationType DEF Operation, Expire, Announce, receiverVars
  <1>3. /\ op'[v].of = o /\ op'[v].at \in {"expired", "done"}
        /\ \A u \in Transfer : u # v => op'[u] = op[u]
    BY <1>2 DEF OwnInv, TypeOK
  <1>4. \A t \in Transfer : key'[t] = key[t] \/ (t = o /\ key'[t] = "expiring")
    BY <1>2 DEF OwnInv, TypeOK
  <1>5. GoneWasExpired'
    <2> SUFFICES ASSUME NEW t \in Transfer, key'[t] \in {"expiring", "gone"}
                 PROVE  \E u \in Transfer : op'[u].of = t /\ op'[u].at \in {"expired", "done"}
      BY DEF GoneWasExpired
    <2>1. CASE t = o
      <3>1. op'[v].of = t /\ op'[v].at \in {"expired", "done"}
        BY <1>3, <2>1
      <3>2. QED
        BY <3>1
    <2>2. CASE t # o
      <3>1. PICK u \in Transfer : op[u].of = t /\ op[u].at \in {"expired", "done"}
        BY <1>4, <2>2 DEF FallInv, GoneWasExpired
      <3>2. u # v => op'[u] = op[u]
        BY <1>3
      <3>3. QED
        BY <1>3, <3>1, <3>2
    <2>3. QED
      BY <2>1, <2>2
  <1>6. \A u : Announced(u) => Announced(u)'
    <2> SUFFICES ASSUME NEW t, Announced(t) PROVE Announced(t)'
      OBVIOUS
    <2>1. PICK u \in Transfer : op[u].of = t /\ op[u].at = "done"
      BY DEF Announced
    <2>2. u # v
      BY <1>2, <2>1
    <2>3. QED
      BY <1>3, <2>1, <2>2 DEF Announced
  <1>7. \A r \in Receiver, s \in Sender :
          \A i \in 1..Len(inbox'[r][s]) :
            \/ i \in 1..Len(inbox[r][s]) /\ inbox'[r][s][i] = inbox[r][s][i]
            \/ inbox'[r][s][i] = o /\ Announced(o)'
    <2> SUFFICES ASSUME NEW r \in Receiver, NEW s \in Sender, NEW i \in 1..Len(inbox'[r][s])
                 PROVE  \/ i \in 1..Len(inbox[r][s]) /\ inbox'[r][s][i] = inbox[r][s][i]
                        \/ inbox'[r][s][i] = o /\ Announced(o)'
      OBVIOUS
    <2>1. CASE inbox' = inbox
      BY <2>1
    <2>2. CASE inbox' # inbox
      <3>1. inbox[r] \in [Sender -> Seq(Transfer)]
        BY DEF OwnInv, TypeOK
      <3>2. inbox'[r][s] = inbox[r][s] \/ inbox'[r][s] = Append(inbox[r][s], o)
        <4>1. inbox' = [q \in Receiver |->
                         IF q \in up THEN [inbox[q] EXCEPT ![From[v]] = Append(@, o)] ELSE inbox[q]]
          BY <1>2, <2>2
        <4>2. \/ inbox'[r] = inbox[r]
              \/ inbox'[r] = [inbox[r] EXCEPT ![From[v]] = Append(inbox[r][From[v]], o)]
          BY <4>1
        <4>3. QED
          BY <3>1, <4>2
      <3>3. Announced(o)'
        BY <1>2, <1>3, <2>2 DEF Announced, OwnInv, TypeOK
      <3>4. inbox[r][s] \in Seq(Transfer)
        BY <3>1
      <3>5. CASE inbox'[r][s] = inbox[r][s]
        BY <3>5
      <3>6. CASE inbox'[r][s] = Append(inbox[r][s], o)
        <4>1. i \in 1..Len(inbox[r][s]) + 1
          BY <3>4, <3>6
        <4>2. CASE i \in 1..Len(inbox[r][s])
          BY <3>4, <3>6, <4>2
        <4>3. CASE i = Len(inbox[r][s]) + 1
          BY <3>3, <3>4, <3>6, <4>3
        <4>4. QED
          BY <3>4, <4>1, <4>2, <4>3
      <3>7. QED
        BY <3>2, <3>5, <3>6
    <2>3. QED
      BY <2>1, <2>2
  <1>8. InboxIsAnnounced'
    BY <1>6, <1>7 DEF FallInv, InboxIsAnnounced
  <1>9. ASSUME NEW t \in Transfer, Awaited(t)' PROVE Awaited(t)
    <2>1. CASE t = o
      BY <1>2, <2>1 DEF Awaited
    <2>2. CASE t # o
      <3>1. CASE \E u \in Transfer : op'[u].of = t /\ op'[u].at \in {"queued", "expired"} /\ From[u] \in up
        <4>1. PICK u \in Transfer : op'[u].of = t /\ op'[u].at \in {"queued", "expired"} /\ From[u] \in up
          BY <3>1
        <4>2. op'[u] = op[u]
          BY <1>3, <2>2, <4>1
        <4>3. QED
          BY <4>1, <4>2 DEF Awaited
      <3>2. CASE \E r \in Receiver, s \in Sender :
                   r \in up /\ \E i \in 1..Len(inbox'[r][s]) : inbox'[r][s][i] = t
        BY <1>7, <2>2, <3>2 DEF Awaited
      <3>3. QED
        BY <1>1, <1>9, <3>1, <3>2 DEF Awaited
    <2>3. QED
      BY <2>1, <2>2
  <1>10. GoneIsMarked'
    BY <1>1, <1>4, <1>9 DEF FallInv, GoneIsMarked, Suffers
  <1>11. GrownIsMarked' /\ FallsHaveACause'
    BY <1>1 DEF FallInv, GrownIsMarked, FallsHaveACause, Suffers
  <1>12. QED
    BY <1>5, <1>8, <1>10, <1>11 DEF FallInv

LEMMA FallElapse ==
  ASSUME OwnInv, FallInv, [Next]_vars, NEW v \in Transfer, Elapse(v)
  PROVE  FallInv'
  <1>1. /\ strain \subseteq strain' /\ UNCHANGED <<up, op, size, inbox, blame>>
        /\ key[v] = "expiring" /\ key' = [key EXCEPT ![v] = "gone"]
    BY StrainGrows DEF OwnInv, Elapse, senderVars, receiverVars
  <1>2. \A t \in Transfer : key'[t] = IF t = v THEN "gone" ELSE key[t]
    BY <1>1 DEF OwnInv, TypeOK
  <1>3. Awaited(v) => Suffers(v, {"late"})'
    BY DEF Elapse, Strained, Suffers
  <1>4. \A t \in Transfer : Awaited(t)' => Awaited(t)
    BY <1>1 DEF Awaited
  <1>5. GoneIsMarked'
    BY <1>1, <1>2, <1>3, <1>4 DEF FallInv, GoneIsMarked, Suffers
  <1>6. GoneWasExpired' /\ InboxIsAnnounced'
    BY <1>1, <1>2 DEF FallInv, GoneWasExpired, InboxIsAnnounced, Announced
  <1>7. GrownIsMarked' /\ FallsHaveACause'
    BY <1>1 DEF FallInv, GrownIsMarked, FallsHaveACause, Suffers
  <1>8. QED
    BY <1>5, <1>6, <1>7 DEF FallInv

LEMMA FallStep == OwnInv /\ KeyInv /\ FallInv /\ [Next]_vars => FallInv'
  <1> SUFFICES ASSUME OwnInv, KeyInv, FallInv, [Next]_vars PROVE FallInv'
    OBVIOUS
  <1>1. strain \subseteq strain'
    BY StrainGrows DEF OwnInv
  <1>2. ASSUME UNCHANGED <<op, key, inbox, blame, size>>,
               up' = up \/ \E s \in Sender : up' = up \ {s}
        PROVE  FallInv'
    <2>1. GrownIsMarked'
      BY <1>1, <1>2 DEF FallInv, GrownIsMarked, Suffers
    <2>2. /\ \A s \in Sender : s \in up' => s \in up
          /\ \A r \in Receiver : r \in up' <=> r \in up
      BY <1>2
    <2>3. QED
      BY <1>2, <2>1, <2>2, FallUnchanged
  <1>3. ASSUME NEW v \in Transfer, Plaster(v) PROVE FallInv'
    <2>1. /\ UNCHANGED <<up, op, key, inbox, blame>>
          /\ \/ size' = [size EXCEPT ![v] = Limit]
             \/ size' = [size EXCEPT ![v] = Limit + 1] /\ Suffers(v, {"grown"})'
      BY <1>3 DEF Plaster, Strained, Suffers, receiverVars
    <2>2. size \in [Transfer -> Nat] /\ ~(Limit > Limit)
      BY DEF OwnInv, TypeOK
    <2>3. GrownIsMarked'
      BY <1>1, <2>1, <2>2 DEF FallInv, GrownIsMarked, Suffers
    <2>4. QED
      BY <2>1, <2>3, FallUnchanged
  <1>4. ASSUME NEW v \in Transfer, SetExecuted(v) PROVE FallInv'
    <2>1. /\ UNCHANGED <<up, op, size, inbox, blame>> /\ key' = [key EXCEPT ![v] = "kept"]
      BY <1>4 DEF SetExecuted, receiverVars
    <2>2. \A t \in Transfer : key'[t] = key[t] \/ key'[t] = "kept"
      BY <2>1 DEF OwnInv, TypeOK
    <2>3. \A t \in Transfer : Awaited(t)' => Awaited(t)
      BY <2>1 DEF Awaited
    <2>4. GoneWasExpired' /\ InboxIsAnnounced'
      BY <2>1, <2>2 DEF FallInv, GoneWasExpired, InboxIsAnnounced, Announced
    <2>5. GoneIsMarked'
      BY <1>1, <2>2, <2>3 DEF FallInv, GoneIsMarked, Suffers
    <2>6. GrownIsMarked' /\ FallsHaveACause'
      BY <1>1, <2>1 DEF FallInv, GrownIsMarked, FallsHaveACause, Suffers
    <2>7. QED
      BY <2>4, <2>5, <2>6 DEF FallInv
  <1>5. ASSUME NEW v \in Transfer, SetRefused(v) \/ SetLost(v) \/ ReadOptions(v) \/ SetArgument(v)
        PROVE  FallInv'
    BY <1>2, <1>5 DEF SetRefused, SetLost, ReadOptions, SetArgument, Ends, receiverVars
  <1>6. ASSUME NEW v \in Transfer, Operation(v) PROVE FallInv'
    <2>1. op[v].of \in Transfer
      BY <1>6, OperationType DEF Operation, Expire, Announce
    <2>2. QED
      BY <1>6, <2>1, FallOperation
  <1>7. ASSUME NEW s \in Sender, Quit(s) PROVE FallInv'
    BY <1>2, <1>7 DEF Quit, Ends, senderVars, receiverVars
  <1>8. ASSUME NEW r \in Receiver, NEW s \in Sender, Refuse(r, s) \/ Fetch(r, s) \/ Miss(r, s)
        PROVE  FallInv'
    <2>1. Head(inbox[r][s]) \in Transfer
      BY <1>8, InboxType DEF Refuse, Fetch, Miss, Pending, OwnInv
    <2>2. QED
      BY <1>8, <2>1, FallReceiver
  <1>9. ASSUME NEW r \in Receiver, NEW s \in Sender, Save(r, s) \/ Paste(r, s) PROVE FallInv'
    BY <1>2, <1>9 DEF Save, Paste, senderVars
  <1>10. CASE UNCHANGED vars
    BY <1>2, <1>10 DEF vars, senderVars, receiverVars
  <1>11. QED
    BY <1>3, <1>4, <1>5, <1>6, <1>7, <1>8, <1>9, <1>10, FallInvoke, FallElapse
       DEF Next, Progress, Server, Callback, Handle

LEMMA FallInit == Init => FallInv
  <1> SUFFICES ASSUME Init PROVE FallInv
    OBVIOUS
  <1>1. ~(0 > Limit)
    OBVIOUS
  <1>2. GrownIsMarked /\ GoneWasExpired /\ GoneIsMarked /\ FallsHaveACause
    BY <1>1 DEF Init, GrownIsMarked, GoneWasExpired, GoneIsMarked, FallsHaveACause
  <1>3. InboxIsAnnounced
    BY DEF Init, InboxIsAnnounced
  <1>4. QED
    BY <1>2, <1>3 DEF FallInv

(***************************************************************************)
(* A receiver falls over a file only if it could not be there for it, had  *)
(* grown too long, or has a "#" in its name (TSPlasterController.m:692,    *)
(* 701): never over a file of the greatest length, nor because of another  *)
(* sender.                                                                 *)
(***************************************************************************)
THEOREM FallsOnlyWithCause == Spec => []FallsHaveACause
  <1>1. FallInv => FallsHaveACause
    BY DEF FallInv
  <1>2. Spec => []FallInv
    BY FallInit, FallStep, OwnInvariant, KeyInvariant, PTL DEF Spec
  <1>3. QED
    BY <1>1, <1>2, PTL

-----------------------------------------------------------------------------

(***************************************************************************)
(* The path that is pasted.                                                *)
(***************************************************************************)

\* The file of t is there, or has been overwritten by another of its name.
Leads(r, t) ==
  \/ disk[r][SavedAs(t)] = t
  \/ \E u \in obtained[r] \ {t} : Name[u] = Name[t] \/ Ambiguous(u) \/ Ambiguous(t)

PathInv ==
  \A r \in Receiver :
    /\ \A s \in Sender : hand[r][s].at # "idle" => hand[r][s].of \in obtained[r]
    /\ \A s \in Sender : hand[r][s].at = "saved" => Leads(r, hand[r][s].of)
    /\ clip[r] # NoTransfer => Leads(r, clip[r])

\* Two files saved under one name, with no "#" in either, have the same name.
LEMMA SameName ==
  ASSUME NEW t \in Transfer, NEW u \in Transfer, SavedAs(t) = SavedAs(u), ~Ambiguous(t), ~Ambiguous(u)
  PROVE  Name[t] = Name[u]
  <1>1. ASSUME NEW n \in Seq(Part), n # <<>>, ~(Len(n) > 1) PROVE Len(n) = 1 /\ n = <<n[1]>>
    <2>1. Len(n) \in Nat /\ Len(n) # 0
      BY <1>1
    <2>2. \A k \in Nat : k # 0 /\ ~(k > 1) => k = 1
      OBVIOUS
    <2>3. Len(n) = 1
      BY <1>1, <2>1, <2>2
    <2>4. QED
      BY <1>1, <2>3
  <1>2. /\ Name[t] \in Seq(Part) /\ Name[t] # <<>>
        /\ Name[u] \in Seq(Part) /\ Name[u] # <<>>
    BY TransferAssumption
  <1>3. Name[t] = <<Name[t][1]>> /\ Name[u] = <<Name[u][1]>>
    BY <1>1, <1>2 DEF Ambiguous
  <1>4. QED
    BY <1>3 DEF SavedAs

LEMMA PathSave ==
  ASSUME TypeOK, PathInv, NEW r \in Receiver, NEW s \in Sender, Save(r, s),
         NEW t \in Transfer, t = hand[r][s].of
  PROVE  PathInv'
  <1>1. /\ disk' = [disk EXCEPT ![r][SavedAs(t)] = t] /\ UNCHANGED <<clip, obtained>>
        /\ t \in obtained[r]
        /\ hand' = [hand EXCEPT ![r][s] = [hand[r][s] EXCEPT !.at = "saved"]]
           \/ hand' = [hand EXCEPT ![r][s] = Idle]
    BY DEF Save, PathInv
  <1>2. /\ disk \in [Receiver -> [Part -> Maybe]] /\ clip \in [Receiver -> Maybe]
        /\ hand \in [Receiver -> [Sender -> Hand]] /\ obtained \in [Receiver -> SUBSET Transfer]
    BY DEF TypeOK, Hand
  <1>3. [hand[r][s] EXCEPT !.at = "saved"] = [of |-> t, at |-> "saved"]
    <2>1. hand[r][s] \in [of : Transfer, at : {"fetched", "saved"}]
      BY DEF Save, TypeOK, Idle
    <2>2. QED
      BY <2>1
  <1>4. \A q \in Receiver, v \in Sender :
          \/ hand'[q][v] = hand[q][v]
          \/ hand'[q][v] = Idle
          \/ q = r /\ hand'[q][v] = [of |-> t, at |-> "saved"]
    BY <1>1, <1>2, <1>3
  <1>5. Leads(r, t)'
    BY <1>1, <1>2, NamedFiles DEF Leads
  <1>6. ASSUME NEW q \in Receiver, NEW u \in Transfer, Leads(q, u) PROVE Leads(q, u)'
    <2>1. CASE q # r \/ SavedAs(u) # SavedAs(t)
      <3>1. disk'[q][SavedAs(u)] = disk[q][SavedAs(u)]
        BY <1>1, <1>2, <2>1, NamedFiles
      <3>2. QED
        BY <1>1, <1>6, <3>1 DEF Leads
    <2>2. CASE q = r /\ SavedAs(u) = SavedAs(t)
      <3>1. CASE u = t
        BY <1>5, <2>2, <3>1
      <3>2. CASE u # t
        <4>1. t \in obtained'[q] \ {u}
          BY <1>1, <2>2, <3>2
        <4>2. Name[t] = Name[u] \/ Ambiguous(t) \/ Ambiguous(u)
          BY <2>2, SameName
        <4>3. QED
          BY <4>1, <4>2 DEF Leads
      <3>3. QED
        BY <3>1, <3>2
    <2>3. QED
      BY <2>1, <2>2
  <1>7. \A q \in Receiver, v \in Sender :
          hand[q][v].at = "saved" => hand[q][v].of \in Transfer
    BY <1>2 DEF Hand, Idle
  <1>8. \A q \in Receiver : clip[q] # NoTransfer => clip[q] \in Transfer
    BY <1>2 DEF Maybe
  <1>9. QED
    <2> SUFFICES ASSUME NEW q \in Receiver
                 PROVE  /\ \A v \in Sender : hand'[q][v].at # "idle" => hand'[q][v].of \in obtained'[q]
                        /\ \A v \in Sender : hand'[q][v].at = "saved" => Leads(q, hand[q][v].of)'
                        /\ clip'[q] # NoTransfer => Leads(q, clip[q])'
      BY DEF PathInv
    <2>1. ASSUME NEW v \in Sender, hand'[q][v].at # "idle" PROVE hand'[q][v].of \in obtained'[q]
      BY <1>1, <1>4, <2>1 DEF PathInv, Idle
    <2>2. ASSUME NEW v \in Sender, hand'[q][v].at = "saved" PROVE Leads(q, hand[q][v].of)'
      <3>1. CASE hand'[q][v] = hand[q][v]
        <4>1. Leads(q, hand[q][v].of) /\ hand[q][v].of \in Transfer
          BY <1>7, <2>2, <3>1 DEF PathInv
        <4>2. PICK u \in Transfer : u = hand[q][v].of
          BY <4>1
        <4>3. Leads(q, u)'
          BY <1>6, <4>1, <4>2
        <4>4. QED
          BY <3>1, <4>2, <4>3 DEF Leads
      <3>2. CASE q = r /\ hand'[q][v].of = t
        BY <1>5, <3>2 DEF Leads
      <3>3. QED
        BY <1>4, <2>2, <3>1, <3>2 DEF Idle
    <2>3. ASSUME clip'[q] # NoTransfer PROVE Leads(q, clip[q])'
      <3>1. PICK u \in Transfer : u = clip[q] /\ Leads(q, u)
        BY <1>1, <1>8, <2>3 DEF PathInv
      <3>2. Leads(q, u)'
        BY <1>6, <3>1
      <3>3. QED
        BY <1>1, <3>1, <3>2 DEF Leads
    <2>4. QED
      BY <2>1, <2>2, <2>3

LEMMA PathStep == TypeOK /\ PathInv /\ [Next]_vars => PathInv'
  <1> SUFFICES ASSUME TypeOK, PathInv, [Next]_vars PROVE PathInv'
    OBVIOUS
  <1>1. /\ hand \in [Receiver -> [Sender -> Hand]] /\ obtained \in [Receiver -> SUBSET Transfer]
        /\ clip \in [Receiver -> Maybe]
    BY DEF TypeOK, Hand
  <1>2. ASSUME UNCHANGED <<hand, disk, clip, obtained>> PROVE PathInv'
    BY <1>2 DEF PathInv, Leads
  <1>3. ASSUME NEW r \in Receiver, NEW s \in Sender, Fetch(r, s) PROVE PathInv'
    <2>1. PICK t : /\ hand' = [hand EXCEPT ![r][s] = [of |-> t, at |-> "fetched"]]
                   /\ obtained' = [obtained EXCEPT ![r] = obtained[r] \cup {t}]
                   /\ UNCHANGED <<disk, clip>>
      BY <1>3 DEF Fetch
    <2>2. \A q \in Receiver, v \in Sender :
            hand'[q][v] = IF q = r /\ v = s THEN [of |-> t, at |-> "fetched"] ELSE hand[q][v]
      BY <1>1, <2>1
    <2>3. \A q \in Receiver : obtained[q] \subseteq obtained'[q]
      BY <1>1, <2>1
    <2>4. t \in obtained'[r]
      BY <1>1, <2>1
    <2>5. \A q \in Receiver : \A u : Leads(q, u) => Leads(q, u)'
      BY <2>1, <2>3 DEF Leads
    <2> SUFFICES ASSUME NEW q \in Receiver
                 PROVE  /\ \A v \in Sender : hand'[q][v].at # "idle" => hand'[q][v].of \in obtained'[q]
                        /\ \A v \in Sender : hand'[q][v].at = "saved" => Leads(q, hand[q][v].of)'
                        /\ clip'[q] # NoTransfer => Leads(q, clip[q])'
      BY DEF PathInv
    <2>6. ASSUME NEW v \in Sender, hand'[q][v].at # "idle" PROVE hand'[q][v].of \in obtained'[q]
      BY <2>2, <2>3, <2>4, <2>6 DEF PathInv
    <2>7. ASSUME NEW v \in Sender, hand'[q][v].at = "saved" PROVE Leads(q, hand[q][v].of)'
      <3>1. hand'[q][v] = hand[q][v]
        BY <2>2, <2>7
      <3>2. PICK u : u = hand[q][v].of /\ Leads(q, u)
        BY <2>7, <3>1 DEF PathInv
      <3>3. Leads(q, u)'
        BY <2>5, <3>2
      <3>4. QED
        BY <3>1, <3>2, <3>3 DEF Leads
    <2>8. ASSUME clip'[q] # NoTransfer PROVE Leads(q, clip[q])'
      <3>1. PICK u : u = clip[q] /\ Leads(q, u)
        BY <2>1, <2>8 DEF PathInv
      <3>2. Leads(q, u)'
        BY <2>5, <3>1
      <3>3. QED
        BY <2>1, <3>1, <3>2 DEF Leads
    <2>9. QED
      BY <2>6, <2>7, <2>8
  <1>4. ASSUME NEW r \in Receiver, NEW s \in Sender, Save(r, s) PROVE PathInv'
    <2>1. hand[r][s].of \in Transfer
      BY <1>4 DEF Save, TypeOK, Idle
    <2>2. QED
      BY <1>4, <2>1, PathSave
  <1>5. ASSUME NEW r \in Receiver, NEW s \in Sender, Paste(r, s) PROVE PathInv'
    <2>1. /\ hand[r][s].at = "saved" /\ clip' = [clip EXCEPT ![r] = hand[r][s].of]
          /\ hand' = [hand EXCEPT ![r][s] = Idle] /\ UNCHANGED <<disk, obtained>>
      BY <1>5 DEF Paste
    <2>2. \A q \in Receiver, v \in Sender : hand'[q][v] = hand[q][v] \/ hand'[q][v] = Idle
      BY <1>1, <2>1
    <2>3. \A q \in Receiver : clip'[q] = clip[q] \/ (q = r /\ clip'[q] = hand[r][s].of)
      BY <1>1, <2>1
    <2>4. QED
      BY <2>1, <2>2, <2>3 DEF PathInv, Leads, Idle
  <1>6. QED
    BY <1>2, <1>3, <1>4, <1>5 DEF Next, Progress, Plaster, Server, SetExecuted, SetRefused, SetLost,
      Callback, ReadOptions, SetArgument, Invoke, Operation, Expire, Announce, Elapse, Quit, Handle,
      Refuse, Miss, vars, receiverVars

(***************************************************************************)
(* The path on the pasteboard leads to the file it was pasted for, unless  *)
(* a second file was fetched under the same name: the thread saves before  *)
(* it pastes (TSPlasterController.m:708, 605), whatever the threads of     *)
(* other senders do in between.                                            *)
(***************************************************************************)
THEOREM PathLeadsToItsFile == Spec => []PathLeadsToFile
  <1>1. Init => PathInv
    BY DEF Init, PathInv, Idle
  <1>2. Spec => []PathInv
    BY <1>1, PathStep, TypeCorrect, PTL DEF Spec
  <1>3. PathInv => PathLeadsToFile
    BY DEF PathInv, Leads, PathLeadsToFile
  <1>4. QED
    BY <1>2, <1>3, PTL

=============================================================================
