---------------------------- MODULE FileTransfer -----------------------------
(***************************************************************************)
(* The transfer of a copied file by the macOS client: plaster:,            *)
(* rcSetWithOptions, handlePlasterNotificationForFileWithOptions: and      *)
(* handleFileNotificationPacket:.                                          *)
(*                                                                         *)
(*   - The sender puts the options of the transfer into the only slot of   *)
(*     the handler table and stores the file under a key of its own with   *)
(*     an asynchronous SET.                                                *)
(*   - The callback of the SET reads the slot again, passes what it finds  *)
(*     to the one invocation of the handler, and the handler queues an     *)
(*     operation which sets the expiry of the key, then notifies.          *)
(*   - A receiver parses the notification, fetches the key with a blocking *)
(*     GET, saves the file under its name and pastes its path.             *)
(*                                                                         *)
(* Callbacks and operations run on threads of their own; a receiver has a  *)
(* thread for each sender it has subscribed to.                            *)
(***************************************************************************)
EXTENDS Naturals, Sequences, FiniteSets

CONSTANTS
  Sender, Receiver, Transfer,
  From,      \* From[t], who sends t
  Name,      \* Name[t], the name of the file, split at each "#"
  Value,     \* Value[n], integerValue of a part of a name
  Mode,      \* Mode[r], "pasteboard" or "file"
  Limit,     \* the longest file that may be sent, in megabytes
  NoTransfer,
  Allowed,   \* what may happen to a transfer, see Strain
  MaxStrain  \* bound: how much of it happens in one behaviour

(***************************************************************************)
(* What may happen to a transfer:                                          *)
(*   overlap   another one is started before its callback has run          *)
(*   error     the server answers its SET with an error                    *)
(*   outage    a command about it fails with its connection                *)
(*   quit      its sender ends                                             *)
(*   late      its key expires before everyone has fetched it              *)
(*   grown     the file grows between the check of its size and the read   *)
(***************************************************************************)
Strain == {"overlap", "error", "outage", "quit", "late", "grown"}

Part == UNION {{Name[t][i] : i \in 1..Len(Name[t])} : t \in Transfer}

\* A client both sends and receives; its two halves are two names here.
ASSUME TransferAssumption ==
  /\ Sender \cap Receiver = {}
  /\ IsFiniteSet(Transfer)
  /\ From \in [Transfer -> Sender]
  /\ Name \in [Transfer -> Seq(Part) \ {<<>>}]
  /\ Value \in [Part -> Nat]
  /\ Mode \in [Receiver -> {"pasteboard", "file"}]
  /\ Limit \in Nat
  /\ NoTransfer \notin Transfer
  /\ Allowed \subseteq Strain /\ MaxStrain \in Nat

VARIABLES
  up,        \* the clients that run
  slot,      \* slot[s], "set-options" in the handler table of s
  arg,       \* arg[s], the argument of the invocation of s
  pc,        \* pc[t], how far the SET and its callback are
  got,       \* got[t], what the callback of t has read from the slot
  op,        \* op[t], the operation queued by the callback of t
  size,      \* size[t], the length announced
  key,       \* key[t], the key of t on the server
  inbox,     \* inbox[r][s], notifications by s that r has not taken yet
  hand,      \* hand[r][s], what the thread of r for s is at
  disk,      \* disk[r][n], whose contents the file named n on r has
  clip,      \* clip[r], the path pasted last and by which notification
  strain,    \* history: what happened to which transfer
  obtained,  \* history: what r has fetched
  blame      \* history: blame[r], the notification r fell over

senderVars == <<slot, arg, pc, got, op, size>>
receiverVars == <<hand, disk, clip, obtained, blame>>
vars == <<up, senderVars, key, inbox, receiverVars, strain>>

Phase == {"idle", "sent", "stored", "refused", "reading", "armed", "done", "lost"}
Maybe == Transfer \cup {NoTransfer}
NoOperation == [of |-> NoTransfer, at |-> "none"]
Idle == [of |-> NoTransfer, at |-> "idle"]

TypeOK ==
  /\ up \subseteq Sender \cup Receiver
  /\ slot \in [Sender -> Maybe]
  /\ arg \in [Sender -> Maybe]
  /\ pc \in [Transfer -> Phase]
  /\ got \in [Transfer -> Maybe]
  /\ op \in [Transfer -> {NoOperation} \cup [of : Transfer, at : {"queued", "expired", "done"}]]
  /\ size \in [Transfer -> Nat]
  /\ key \in [Transfer -> {"absent", "kept", "expiring", "gone"}]
  /\ inbox \in [Receiver -> [Sender -> Seq(Transfer)]]
  /\ hand \in [Receiver -> [Sender -> {Idle} \cup [of : Transfer, at : {"fetched", "saved"}]]]
  /\ disk \in [Receiver -> [Part -> Maybe]]
  /\ clip \in [Receiver -> Maybe]
  /\ strain \subseteq Transfer \X Strain
  /\ obtained \in [Receiver -> SUBSET Transfer]
  /\ blame \in [Receiver -> Maybe]

Init ==
  /\ up = Sender \cup Receiver
  /\ slot = [s \in Sender |-> NoTransfer]
  /\ arg = [s \in Sender |-> NoTransfer]
  /\ pc = [t \in Transfer |-> "idle"]
  /\ got = [t \in Transfer |-> NoTransfer]
  /\ op = [t \in Transfer |-> NoOperation]
  /\ size = [t \in Transfer |-> 0]
  /\ key = [t \in Transfer |-> "absent"]
  /\ inbox = [r \in Receiver |-> [s \in Sender |-> <<>>]]
  /\ hand = [r \in Receiver |-> [s \in Sender |-> Idle]]
  /\ disk = [r \in Receiver |-> [n \in Part |-> NoTransfer]]
  /\ clip = [r \in Receiver |-> NoTransfer]
  /\ strain = {}
  /\ obtained = [r \in Receiver |-> {}]
  /\ blame = [r \in Receiver |-> NoTransfer]

-----------------------------------------------------------------------------

\* h happens to every transfer of T: the environment allows it, and the
\* history remembers it.
Strained(T, h) ==
  /\ strain' = strain \cup (T \X {h})
  /\ T # {} => h \in Allowed /\ Cardinality(strain') <= MaxStrain

Suffers(t, H) == \E h \in H : <<t, h>> \in strain

(***************************************************************************)
(* The sender: plaster: on the thread of the timer.                        *)
(***************************************************************************)

\* Transfers of s whose callback has not queued its operation yet.
Unannounced(s) ==
  {t \in Transfer : From[t] = s /\ pc[t] \notin {"idle", "done", "lost"}}

\* The SET is handed to a connection of its own.  One that is not made is lost in a step
\* of its own (SetLost): the result never tells the caller.
setByteValue(t) == pc' = [pc EXCEPT ![t] = "sent"]

\* Mutant: options that are in the slot already are kept.
PlasterKeeping(t) ==
  LET s == From[t] IN
  /\ s \in up /\ pc[t] = "idle"
  /\ slot' = [slot EXCEPT ![s] = IF @ = NoTransfer THEN t ELSE @]
  /\ size' = [size EXCEPT ![t] = Limit]
  /\ setByteValue(t)
  /\ Strained(IF Unannounced(s) = {} THEN {} ELSE Unannounced(s) \cup {t}, "overlap")
  /\ UNCHANGED <<up, arg, got, op, key, inbox, receiverVars>>

\* The size is checked first and the file read afterwards; what is announced
\* are whole megabytes, rounded up.
Plaster(t) ==
  LET s == From[t] IN
  /\ s \in up /\ pc[t] = "idle"
  /\ slot' = [slot EXCEPT ![s] = t]
  /\ \/ /\ size' = [size EXCEPT ![t] = Limit]
        /\ Strained(IF Unannounced(s) = {} THEN {} ELSE Unannounced(s) \cup {t}, "overlap")
     \/ /\ size' = [size EXCEPT ![t] = Limit + 1]
        /\ Unannounced(s) = {}
        /\ Strained({t}, "grown")
  /\ setByteValue(t)
  /\ UNCHANGED <<up, arg, got, op, key, inbox, receiverVars>>

(***************************************************************************)
(* The server and the connection of the SET.                               *)
(***************************************************************************)

SetExecuted(t) ==
  /\ pc[t] = "sent"
  /\ pc' = [pc EXCEPT ![t] = "stored"]
  /\ key' = [key EXCEPT ![t] = "kept"]
  /\ UNCHANGED <<up, slot, arg, got, op, size, inbox, receiverVars, strain>>

SetRefused(t) ==
  /\ pc[t] = "sent"
  /\ pc' = [pc EXCEPT ![t] = "refused"]
  /\ Strained({t}, "error")
  /\ UNCHANGED <<up, slot, arg, got, op, size, key, inbox, receiverVars>>

\* The callback gets NULL and does nothing, whether the SET was executed or not.
SetLost(t) ==
  /\ pc[t] \in {"sent", "stored"}
  /\ pc' = [pc EXCEPT ![t] = "lost"]
  /\ Strained({t}, "outage")
  /\ UNCHANGED <<up, slot, arg, got, op, size, key, inbox, receiverVars>>

(***************************************************************************)
(* rcSetWithOptions, on the thread of the connection: an error is a reply  *)
(* like any other.                                                         *)
(***************************************************************************)

ReadOptions(t) ==
  /\ From[t] \in up /\ pc[t] \in {"stored", "refused"}
  /\ pc' = [pc EXCEPT ![t] = "reading"]
  /\ got' = [got EXCEPT ![t] = slot[From[t]]]
  /\ UNCHANGED <<up, slot, arg, op, size, key, inbox, receiverVars, strain>>

\* Transfers of s whose notification is not out yet.
Unfinished(s) ==
  {t \in Transfer : From[t] = s /\ pc[t] \notin {"idle", "lost"} /\ op[t].at # "done"}

Ends(s) == up' = up \ {s} /\ Strained(Unfinished(s), "quit")

\* The table is the only owner of the options beside the invocation: when they
\* have been replaced since, the callback uses a freed object, and may get away
\* with it.
SetArgument(t) ==
  LET s == From[t] IN
  /\ s \in up /\ pc[t] = "reading"
  /\ \/ /\ pc' = [pc EXCEPT ![t] = "armed"]
        /\ arg' = [arg EXCEPT ![s] = got[t]]
        /\ UNCHANGED <<up, strain>>
     \/ /\ got[t] \notin {slot[s], arg[s]}
        /\ Ends(s)
        /\ UNCHANGED <<pc, arg>>
  /\ UNCHANGED <<slot, got, op, size, key, inbox, receiverVars>>

\* Mutant: the handler is invoked before its argument is set.
InvokeBlank(t) ==
  LET s == From[t] IN
  /\ s \in up /\ pc[t] = "reading"
  /\ pc' = [pc EXCEPT ![t] = "done"]
  /\ op' = [op EXCEPT ![t] = [of |-> arg[s], at |-> "queued"]]
  /\ UNCHANGED <<up, slot, arg, got, size, key, inbox, receiverVars, strain>>

Invoke(t) ==
  LET s == From[t] IN
  /\ s \in up /\ pc[t] = "armed"
  /\ pc' = [pc EXCEPT ![t] = "done"]
  /\ op' = [op EXCEPT ![t] = [of |-> arg[s], at |-> "queued"]]
  /\ UNCHANGED <<up, slot, arg, got, size, key, inbox, receiverVars, strain>>

(***************************************************************************)
(* The operation: a blocking EXPIRE, whose result nobody looks at, then    *)
(* the notification.                                                       *)
(***************************************************************************)

\* Mutant: the expiry is set for another key.
ExpireElse(t) ==
  /\ From[t] \in up /\ op[t].at = "queued"
  /\ op' = [op EXCEPT ![t].at = "expired"]
  /\ UNCHANGED <<up, slot, arg, pc, got, size, key, inbox, receiverVars, strain>>

Expire(t) ==
  LET o == op[t].of IN
  /\ From[t] \in up /\ op[t].at = "queued"
  /\ op' = [op EXCEPT ![t].at = "expired"]
  /\ \/ /\ key' = [key EXCEPT ![o] = IF @ = "kept" THEN "expiring" ELSE @]
        /\ UNCHANGED strain
     \/ /\ Strained({o}, "outage")
        /\ UNCHANGED key
  /\ UNCHANGED <<up, slot, arg, pc, got, size, inbox, receiverVars>>

\* Mutant: a notification replaces the one before it.
AnnounceLatest(t) ==
  LET o == op[t].of  s == From[t] IN
  /\ s \in up /\ op[t].at = "expired"
  /\ op' = [op EXCEPT ![t].at = "done"]
  /\ inbox' = [r \in Receiver |-> [inbox[r] EXCEPT ![s] = <<o>>]]
  /\ UNCHANGED <<up, slot, arg, pc, got, size, key, receiverVars, strain>>

Announce(t) ==
  LET o == op[t].of  s == From[t] IN
  /\ s \in up /\ op[t].at = "expired"
  /\ op' = [op EXCEPT ![t].at = "done"]
  /\ \/ /\ inbox' = [r \in Receiver |->
                       IF r \in up THEN [inbox[r] EXCEPT ![s] = Append(@, o)] ELSE inbox[r]]
        /\ UNCHANGED strain
     \/ /\ Strained({o}, "outage")
        /\ UNCHANGED inbox
  /\ UNCHANGED <<up, slot, arg, pc, got, size, key, receiverVars>>

\* To quit with nothing under way is to start nothing more.
Quit(s) ==
  /\ s \in up /\ Unfinished(s) # {}
  /\ Ends(s)
  /\ UNCHANGED <<senderVars, key, inbox, receiverVars>>

(***************************************************************************)
(* The key is deleted TSPlasterRedisKeyExpiry seconds after the EXPIRE.    *)
(***************************************************************************)

Awaited(t) ==
  \/ \E u \in Transfer : op[u].of = t /\ op[u].at \in {"queued", "expired"} /\ From[u] \in up
  \/ \E r \in Receiver, s \in Sender :
       r \in up /\ \E i \in 1..Len(inbox[r][s]) : inbox[r][s][i] = t

Elapse(t) ==
  /\ key[t] = "expiring"
  /\ key' = [key EXCEPT ![t] = "gone"]
  /\ Strained(IF Awaited(t) THEN {t} ELSE {}, "late")
  /\ UNCHANGED <<up, senderVars, inbox, receiverVars>>

-----------------------------------------------------------------------------
(***************************************************************************)
(* A receiver: handlePlasterInWithData: and handleFileNotificationPacket:, *)
(* on the thread of its subscription to s.  The notification is            *)
(* "FILE:<id>#<name>#<length>", split again at each "#".                   *)
(***************************************************************************)

SavedAs(t) == Name[t][1]

LengthIn(t) == IF Len(Name[t]) = 1 THEN size[t] ELSE Value[Name[t][2]]

Pending(r, s) == r \in up /\ hand[r][s].at = "idle" /\ inbox[r][s] # <<>>

Taken(r, s) == inbox' = [inbox EXCEPT ![r][s] = Tail(@)]

\* The process of r ends: strlen(NULL), fileURLWithPath:nil.
Falls(r, t) ==
  /\ up' = up \ {r}
  /\ blame' = [blame EXCEPT ![r] = t]

\* Mutant: a file of the greatest length is refused.
RefuseLongest(r, s) ==
  /\ Pending(r, s)
  /\ LengthIn(Head(inbox[r][s])) >= Limit
  /\ Taken(r, s)
  /\ IF Mode[r] = "pasteboard" THEN Falls(r, Head(inbox[r][s])) ELSE UNCHANGED <<up, blame>>
  /\ UNCHANGED <<senderVars, key, hand, disk, clip, obtained, strain>>

\* Too long: no path.  In pasteboard mode a URL is made of it all the same.
Refuse(r, s) ==
  /\ Pending(r, s)
  /\ LengthIn(Head(inbox[r][s])) > Limit
  /\ Taken(r, s)
  /\ IF Mode[r] = "pasteboard" THEN Falls(r, Head(inbox[r][s])) ELSE UNCHANGED <<up, blame>>
  /\ UNCHANGED <<senderVars, key, hand, disk, clip, obtained, strain>>

\* Mutant: the path is pasted without waiting for the file.
FetchAndPaste(r, s) ==
  /\ Pending(r, s)
  /\ LET t == Head(inbox[r][s]) IN
     /\ LengthIn(t) <= Limit
     /\ Taken(r, s)
     /\ key[t] \in {"kept", "expiring"}
     /\ hand' = [hand EXCEPT ![r][s] = [of |-> t, at |-> "saved"]]
     /\ obtained' = [obtained EXCEPT ![r] = @ \cup {t}]
  /\ UNCHANGED <<up, senderVars, key, disk, clip, blame, strain>>

Fetch(r, s) ==
  /\ Pending(r, s)
  /\ LET t == Head(inbox[r][s]) IN
     /\ LengthIn(t) <= Limit
     /\ Taken(r, s)
     /\ key[t] \in {"kept", "expiring"}
     /\ hand' = [hand EXCEPT ![r][s] = [of |-> t, at |-> "fetched"]]
     /\ obtained' = [obtained EXCEPT ![r] = @ \cup {t}]
  /\ UNCHANGED <<up, senderVars, key, disk, clip, blame, strain>>

\* No such key, or a GET that fails: nil goes to dictionaryFromJSON.
Miss(r, s) ==
  /\ Pending(r, s)
  /\ LET t == Head(inbox[r][s]) IN
     /\ LengthIn(t) <= Limit
     /\ Taken(r, s)
     /\ Falls(r, t)
     /\ IF key[t] \in {"absent", "gone"} THEN UNCHANGED strain ELSE Strained({t}, "outage")
  /\ UNCHANGED <<senderVars, key, hand, disk, clip, obtained>>

\* The file is written over any other of the same name.
Save(r, s) ==
  LET t == hand[r][s].of IN
  /\ r \in up /\ hand[r][s].at = "fetched"
  /\ disk' = [disk EXCEPT ![r][SavedAs(t)] = t]
  /\ hand' = [hand EXCEPT ![r][s] = IF Mode[r] = "pasteboard" THEN [@ EXCEPT !.at = "saved"]
                                     ELSE Idle]
  /\ UNCHANGED <<up, senderVars, key, inbox, clip, obtained, blame, strain>>

Paste(r, s) ==
  /\ r \in up /\ hand[r][s].at = "saved"
  /\ clip' = [clip EXCEPT ![r] = hand[r][s].of]
  /\ hand' = [hand EXCEPT ![r][s] = Idle]
  /\ UNCHANGED <<up, senderVars, key, inbox, disk, obtained, blame, strain>>

-----------------------------------------------------------------------------

Server(t) == SetExecuted(t) \/ SetRefused(t) \/ SetLost(t)

Callback(t) == ReadOptions(t) \/ SetArgument(t) \/ Invoke(t)

Operation(t) == Expire(t) \/ Announce(t)

Handle(r, s) == Refuse(r, s) \/ Fetch(r, s) \/ Miss(r, s) \/ Save(r, s) \/ Paste(r, s)

Progress ==
  \/ \E t \in Transfer : Server(t) \/ Callback(t) \/ Operation(t) \/ Elapse(t)
  \/ \E r \in Receiver, s \in Sender : Handle(r, s)

Next ==
  \/ Progress
  \/ \E t \in Transfer : Plaster(t)
  \/ \E s \in Sender : Quit(s)

Spec == Init /\ [][Next]_vars

(***************************************************************************)
(* As long as the server has to answer, a queue or a thread holds work, or *)
(* an expiry runs, something of it happens.  Nobody has to copy a file or  *)
(* to quit.                                                                *)
(***************************************************************************)
Fairness == WF_vars(Progress)

FairSpec == Spec /\ Fairness

-----------------------------------------------------------------------------

(***************************************************************************)
(* The operation queued by the callback of a SET is about the file of that *)
(* SET, unless another transfer of the same sender was started before the  *)
(* callback had run: "set-options" is one slot for all of them             *)
(* (TSPlasterController.m:402, TSRedisController.m:110).                   *)
(***************************************************************************)
AnnouncesItsOwn ==
  \A t \in Transfer :
    op[t].at # "none" /\ op[t].of # t
      => Suffers(t, {"overlap"}) /\ Suffers(op[t].of, {"overlap"}) /\ From[op[t].of] = From[t]

Pursued(t) ==
  From[t] \in up /\ (pc[t] \in {"stored", "reading", "armed"} \/ op[t].at = "queued")

(***************************************************************************)
(* "The content key will expire in 10 minutes" (TSPlasterController.m:801):*)
(* a key without an expiry has an operation to come which sets it, unless  *)
(* transfers overlapped, a connection failed, or the sender ended first.   *)
(***************************************************************************)
KeptHasACause ==
  \A t \in Transfer :
    key[t] = "kept" => Pursued(t) \/ Suffers(t, {"overlap", "outage", "quit"})

Ambiguous(t) == Len(Name[t]) > 1

(***************************************************************************)
(* A receiver falls over a notification only if its key could not be read, *)
(* the file had grown past the limit, or the name holds a "#": a file of   *)
(* exactly 100 MB is let through on both sides.                            *)
(***************************************************************************)
FallsHaveACause ==
  \A r \in Receiver :
    r \notin up =>
      \/ Suffers(blame[r], {"late", "outage", "error", "overlap", "grown"})
      \/ Ambiguous(blame[r])

(***************************************************************************)
(* The path on the pasteboard leads to the file whose notification pasted  *)
(* it, unless another file of the same name was fetched too, where a name  *)
(* ends at its first "#" (TSPlasterController.m:687).                      *)
(***************************************************************************)
PathLeadsToFile ==
  \A r \in Receiver :
    clip[r] # NoTransfer =>
      \/ disk[r][SavedAs(clip[r])] = clip[r]
      \/ \E u \in obtained[r] \ {clip[r]} :
           Name[u] = Name[clip[r]] \/ Ambiguous(u) \/ Ambiguous(clip[r])

(***************************************************************************)
(* A file that was copied reaches every receiver that keeps running, if    *)
(* nothing happens to its transfer.                                        *)
(***************************************************************************)
FileArrives ==
  \A t \in Transfer, r \in Receiver :
    pc[t] = "sent" ~> \/ t \in obtained[r] \/ r \notin up
                     \/ Suffers(t, Strain) \/ LengthIn(t) > Limit

(***************************************************************************)
(* No file stays on the server for good, with the same exceptions as in    *)
(* KeptHasACause.                                                          *)
(***************************************************************************)
KeysExpire ==
  \A t \in Transfer :
    key[t] = "kept" ~> key[t] = "gone" \/ Suffers(t, {"overlap", "outage", "quit"})

(***************************************************************************)
(* A transfer that nothing happens to gets to its end at both sides: the   *)
(* file at the receivers, the key at its expiry.                           *)
(***************************************************************************)
TransfersComplete == FileArrives /\ KeysExpire

=============================================================================
