----------------------- MODULE PasteboardMonitorProofs -----------------------
(***************************************************************************)
(* Proofs about PasteboardMonitor, for any number of devices and any       *)
(* bounds: a pasted item does not echo, what was copied at rest stays      *)
(* private, and a copy made when nothing is under way ends everywhere.     *)
(***************************************************************************)
EXTENDS PasteboardMonitor, TLAPS

USE MonitorBounds

-----------------------------------------------------------------------------

(***************************************************************************)
(* What the calls to the pasteboard do.                                    *)
(***************************************************************************)

LEMMA ClearedBoard ==
  ASSUME NEW process \in {"user", "plaster"}
  PROVE  /\ Cleared(process) \in Pasteboard
         /\ EntriesOf(Cleared(process)) = {}
  <1>1. <<>> \in Seq(Entry) /\ DOMAIN <<>> = {}
    OBVIOUS
  <1>2. QED
    BY <1>1 DEF Cleared, Pasteboard, EntriesOf

\* A write adds its entry or is refused, and never removes one.
LEMMA WrittenBoard ==
  ASSUME NEW board \in Pasteboard, NEW process, NEW e \in Entry
  PROVE  /\ Written(board, process, e) \in Pasteboard
         /\ EntriesOf(board) \subseteq EntriesOf(Written(board, process, e))
         /\ EntriesOf(Written(board, process, e)) \subseteq EntriesOf(board) \cup {e}
  <1>1. CASE board.owner # process
    BY <1>1 DEF Written
  <1>2. CASE board.owner = process
    <2> DEFINE s == board.entries
               w == Written(board, process, e)
    <2>1. s \in Seq(Entry)
      BY DEF Pasteboard
    <2>2. w = [board EXCEPT !.entries = Append(s, e)]
      BY <1>2 DEF Written
    <2>3. w \in Pasteboard /\ w.entries = Append(s, e)
      <3>1. Append(s, e) \in Seq(Entry)
        BY <2>1
      <3>2. w = [owner |-> board.owner, entries |-> Append(s, e)]
        BY <2>2 DEF Pasteboard
      <3>3. board.owner \in {"user", "plaster"}
        BY DEF Pasteboard
      <3> HIDE DEF w, s
      <3>4. QED
        BY <3>1, <3>2, <3>3 DEF Pasteboard
    <2>4. /\ \A k \in DOMAIN s : k \in DOMAIN Append(s, e) /\ Append(s, e)[k] = s[k]
          /\ \A k \in DOMAIN Append(s, e) : Append(s, e)[k] = e \/ k \in DOMAIN s
      BY <2>1
    <2>5. QED
      BY <2>3, <2>4 DEF EntriesOf
  <1>3. QED
    BY <1>1, <1>2

\* The entries of a pasteboard are entries, its first one among them.
LEMMA BoardEntries ==
  ASSUME NEW board \in Pasteboard
  PROVE  /\ EntriesOf(board) \in SUBSET Entry
         /\ board.entries # <<>> => Head(board.entries) \in EntriesOf(board)
  <1>1. board.entries \in Seq(Entry)
    BY DEF Pasteboard
  <1>2. QED
    BY <1>1 DEF EntriesOf

-----------------------------------------------------------------------------

(***************************************************************************)
(* Type correctness.                                                       *)
(***************************************************************************)

\* Strengthening of the type invariant: a handler that has been called finds an
\* argument, and one about to write has an item.
Armed ==
  \A c, d \in Client :
    /\ handler[c][d].at = "called" => slot[c] # None
    /\ handler[c][d].at = "paste" => handler[c][d].item # None

LEMMA TypeInvariant == Spec => [](TypeOK /\ Armed)
  <1>1. Init => TypeOK /\ Armed
    <2> SUFFICES ASSUME Init PROVE TypeOK /\ Armed
      OBVIOUS
    <2>1. pb \in [Client -> Pasteboard]
      BY ClearedBoard DEF Init
    <2>2. handler \in [Client -> [Client -> Handling]]
      BY DEF Init, Handling, Unused, None
    <2>3. inbox \in [Client -> [Client -> Seq(Item)]]
      BY DEF Init
    <2>4. tick \in [Client -> [Timer -> Stage]]
      BY DEF Init, Stage
    <2>5. QED
      BY <2>1, <2>2, <2>3, <2>4 DEF Init, TypeOK, Armed, Unused, None
  <1>2. TypeOK /\ Armed /\ [Next]_vars => (TypeOK /\ Armed)'
    <2> SUFFICES ASSUME TypeOK, Armed, [Next]_vars
                 PROVE  TypeOK' /\ Armed'
      OBVIOUS
    <2> USE DEF session, network, handling, history
    <2>1. ASSUME NEW c \in Client, Start(c) PROVE TypeOK' /\ Armed'
      BY <2>1 DEF Start, TypeOK, Armed, Timer
    <2>2. ASSUME NEW c \in Client, Stop(c) PROVE TypeOK' /\ Armed'
      BY <2>2 DEF Stop, TypeOK, Armed
    <2>3. ASSUME NEW c \in Client, CopyClear(c) PROVE TypeOK' /\ Armed'
      <3>1. pb' \in [Client -> Pasteboard]
        BY <2>3, ClearedBoard DEF CopyClear, TypeOK
      <3>2. origin' \in Seq(Client) /\ Len(origin') = copies' /\ copies' \in 0..MaxCopy
        BY <2>3 DEF CopyClear, TypeOK
      <3>3. copies + 1 \in Item
        BY <2>3 DEF CopyClear, TypeOK, Item
      <3>4. QED
        BY <2>3, <3>1, <3>2, <3>3 DEF CopyClear, TypeOK, Armed
    <2>4. ASSUME NEW c \in Client, CopyWrite(c) PROVE TypeOK' /\ Armed'
      <3>1. copying[c] \in Item
        BY <2>4 DEF CopyWrite, TypeOK
      <3>2. [item |-> copying[c], peer |-> FALSE] \in Entry
        BY <3>1 DEF Entry
      <3>3. pb' \in [Client -> Pasteboard]
        BY <2>4, <3>2, WrittenBoard DEF CopyWrite, TypeOK
      <3>4. hidden' \in SUBSET Item
        BY <2>4, <3>1 DEF CopyWrite, TypeOK
      <3>5. QED
        BY <2>4, <3>3, <3>4 DEF CopyWrite, TypeOK, Armed
    <2>5. ASSUME NEW c \in Client, FirstTick(c) PROVE TypeOK' /\ Armed'
      <3>1. pb' \in [Client -> Pasteboard]
        BY <2>5, ClearedBoard DEF FirstTick, TypeOK
      <3>2. QED
        BY <2>5, <3>1 DEF FirstTick, TypeOK, Armed
    <2>6. ASSUME NEW c \in Client, TickCount(c) PROVE TypeOK' /\ Armed'
      <3>1. timer[c] \in Timer
        BY <2>6 DEF TickCount, MayTick, TypeOK
      <3>2. tick' \in [Client -> [Timer -> Stage]]
        BY <2>6, <3>1 DEF TickCount, TypeOK, Stage
      <3>3. QED
        BY <2>6, <3>2 DEF TickCount, TypeOK, Armed
    <2>7. ASSUME NEW c \in Client, NEW t \in Timer, TickLook(c, t)
          PROVE  TypeOK' /\ Armed'
      <3>1. tick' \in [Client -> [Timer -> Stage]]
        BY <2>7 DEF TickLook, TypeOK, Stage
      <3>2. QED
        BY <2>7, <3>1 DEF TickLook, TypeOK, Armed
    <2>8. ASSUME NEW c \in Client, NEW t \in Timer, TickRead(c, t)
          PROVE  TypeOK' /\ Armed'
      <3>1. tick' \in [Client -> [Timer -> Stage]]
        BY <2>8 DEF TickRead, TypeOK, Stage
      <3>2. wire' \in SUBSET Paste /\ out' \in SUBSET (Client \X Item)
        <4>1. CASE pb[c].entries = <<>>
          BY <2>8, <4>1 DEF TickRead, TypeOK
        <4>2. CASE pb[c].entries # <<>>
          <5> DEFINE i == Head(pb[c].entries).item
          <5>1. pb[c] \in Pasteboard
            BY DEF TypeOK
          <5>2. i \in Item
            BY <4>2, <5>1, BoardEntries DEF Entry
          <5>3. wire' = wire \cup {[from |-> c, item |-> i]} /\ out' = out \cup {<<c, i>>}
            BY <2>8, <4>2 DEF TickRead
          <5> HIDE DEF i
          <5>4. QED
            BY <5>2, <5>3 DEF TypeOK, Paste
        <4>3. QED
          BY <4>1, <4>2
      <3>3. QED
        BY <2>8, <3>1, <3>2 DEF TickRead, TypeOK, Armed
    <2>9. ASSUME NEW m \in wire, ServerPublish(m) PROVE TypeOK' /\ Armed'
      <3>1. m \in Paste
        BY DEF TypeOK
      <3>2. m.from \in Client /\ m.item \in Item
        BY <3>1 DEF Paste
      <3>3. inbox' \in [Client -> [Client -> Seq(Item)]]
        BY <2>9, <3>2 DEF ServerPublish, TypeOK
      <3>4. QED
        BY <2>9, <3>3 DEF ServerPublish, TypeOK, Armed
    <2>10. ASSUME NEW c \in Client, ServerUnsubscribe(c) PROVE TypeOK' /\ Armed'
      BY <2>10 DEF ServerUnsubscribe, TypeOK, Armed
    <2>11. ASSUME NEW c \in Client, NEW d \in Client, Receive(c, d)
           PROVE  TypeOK' /\ Armed'
      <3>1. inbox[c][d] \in Seq(Item) /\ inbox[c][d] # <<>>
        BY <2>11 DEF Receive, TypeOK
      <3>2. Head(inbox[c][d]) \in Item /\ Tail(inbox[c][d]) \in Seq(Item)
        BY <3>1
      <3>3. slot' \in [Client -> Item \cup {None}] /\ slot'[c] # None
        BY <2>11, <3>2 DEF Receive, TypeOK, Item, None
      <3>4. inbox' \in [Client -> [Client -> Seq(Item)]]
        BY <2>11, <3>2 DEF Receive, TypeOK
      <3>5. handler' \in [Client -> [Client -> Handling]]
        <4>1. [at |-> "called", item |-> None] \in Handling
          BY DEF Handling
        <4>2. QED
          BY <2>11, <4>1 DEF Receive, TypeOK
      <3>6. Armed'
        BY <2>11, <3>3 DEF Receive, TypeOK, Armed, Handling
      <3>7. QED
        BY <2>11, <3>3, <3>4, <3>5, <3>6 DEF Receive, TypeOK
    <2>12. ASSUME NEW c \in Client, NEW d \in Client, HandleClear(c, d)
           PROVE  TypeOK' /\ Armed'
      <3>1. pb' \in [Client -> Pasteboard]
        BY <2>12, ClearedBoard DEF HandleClear, TypeOK
      <3>2. handler' \in [Client -> [Client -> Handling]]
        BY <2>12 DEF HandleClear, TypeOK, Handling
      <3>3. Armed'
        BY <2>12 DEF HandleClear, TypeOK, Armed, Handling
      <3>4. QED
        BY <2>12, <3>1, <3>2, <3>3 DEF HandleClear, TypeOK
    <2>13. ASSUME NEW c \in Client, NEW d \in Client, HandleWrite(c, d)
           PROVE  TypeOK' /\ Armed'
      <3>1. handler[c][d].item \in Item
        BY <2>13 DEF HandleWrite, Armed, TypeOK, Handling
      <3>2. [item |-> handler[c][d].item, peer |-> TRUE] \in Entry
        BY <3>1 DEF Entry
      <3>3. pb' \in [Client -> Pasteboard]
        BY <2>13, <3>2, WrittenBoard DEF HandleWrite, TypeOK
      <3>4. handler' \in [Client -> [Client -> Handling]]
        BY <2>13 DEF HandleWrite, TypeOK, Handling, Unused
      <3>5. Armed'
        BY <2>13 DEF HandleWrite, TypeOK, Armed, Unused
      <3>6. QED
        BY <2>13, <3>3, <3>4, <3>5 DEF HandleWrite, TypeOK
    <2>14. CASE UNCHANGED vars
      BY <2>14 DEF vars, TypeOK, Armed
    <2>15. QED
      BY <2>1, <2>2, <2>3, <2>4, <2>5, <2>6, <2>7, <2>8, <2>9, <2>10, <2>11, <2>12,
         <2>13, <2>14 DEF Next, Server, User, Monitor, Handle
  <1>3. QED
    BY <1>1, <1>2, PTL DEF Spec

\* The state keeps its shape: no write to a pasteboard lacks an item, whatever
\* the order of ticks, pastes, copies, starts and stops.
THEOREM TypeCorrect == Spec => []TypeOK
  BY TypeInvariant, PTL

-----------------------------------------------------------------------------

(***************************************************************************)
(* What the steps do to the entries of the pasteboards.                    *)
(***************************************************************************)

LEMMA HoldsCleared ==
  ASSUME TypeOK, NEW c \in Client, NEW process \in {"user", "plaster"},
         pb' = [pb EXCEPT ![c] = Cleared(process)]
  PROVE  \A d \in Client : Holds(d)' = IF d = c THEN {} ELSE Holds(d)
  BY ClearedBoard DEF TypeOK, Holds

LEMMA HoldsWritten ==
  ASSUME TypeOK, NEW c \in Client, NEW process, NEW e \in Entry,
         pb' = [pb EXCEPT ![c] = Written(@, process, e)]
  PROVE  /\ Holds(c)' \subseteq Holds(c) \cup {e}
         /\ \A d \in Client \ {c} : Holds(d)' = Holds(d)
  BY WrittenBoard DEF TypeOK, Holds

LEMMA HoldsEntries ==
  ASSUME TypeOK
  PROVE  \A c \in Client : \A e \in Holds(c) : e \in Entry /\ e.item \in Item
  <1>1. \A c \in Client : Holds(c) \in SUBSET Entry
    BY BoardEntries DEF TypeOK, Holds
  <1>2. QED
    BY <1>1 DEF Entry

-----------------------------------------------------------------------------

(***************************************************************************)
(* Whatever is on its way, or was pasted, has been published.              *)
(***************************************************************************)

Published(o, i) == \E x \in Client : <<x, i>> \in o

Circulating ==
  /\ \A m \in wire : Published(out, m.item)
  /\ \A c, d \in Client : \A k \in DOMAIN inbox[c][d] : Published(out, inbox[c][d][k])
  /\ \A c \in Client : slot[c] # None => Published(out, slot[c])
  /\ \A c, d \in Client : handler[c][d].item # None => Published(out, handler[c][d].item)
  /\ \A c \in Client : \A e \in Holds(c) : e.peer => Published(out, e.item)

LEMMA CirculatingKept ==
  ASSUME TypeOK, Armed, Circulating, [Next]_vars
  PROVE  Circulating'
  <1> USE DEF session, network, handling, history
  <1>1. \A i : Published(out, i) => Published(out', i)
    <2>1. out \subseteq out'
      BY DEF Next, Server, User, Monitor, Handle, Start, Stop, CopyClear, CopyWrite, FirstTick,
             TickCount, TickLook, TickRead, ServerPublish, ServerUnsubscribe, Receive,
             HandleClear, HandleWrite, vars
    <2>2. QED
      BY <2>1 DEF Published
  <1>2. ASSUME UNCHANGED <<pb, wire, inbox, slot, handler>> PROVE Circulating'
    BY <1>1, <1>2 DEF Circulating, Holds
  <1>3. ASSUME NEW c \in Client, CopyClear(c) PROVE Circulating'
    <2>1. \A d \in Client : Holds(d)' \subseteq Holds(d)
      BY <1>3, HoldsCleared DEF CopyClear
    <2>2. QED
      BY <1>1, <1>3, <2>1 DEF CopyClear, Circulating
  <1>4. ASSUME NEW c \in Client, CopyWrite(c) PROVE Circulating'
    <2> DEFINE e == [item |-> copying[c], peer |-> FALSE]
    <2>1. e \in Entry /\ ~e.peer
      BY <1>4 DEF CopyWrite, TypeOK, Entry
    <2>2. pb' = [pb EXCEPT ![c] = Written(@, "user", e)]
      BY <1>4 DEF CopyWrite
    <2> HIDE DEF e
    <2>3. \A d \in Client : Holds(d)' \subseteq Holds(d) \cup {e}
      BY <2>1, <2>2, HoldsWritten
    <2>4. QED
      BY <1>1, <1>4, <2>1, <2>3 DEF CopyWrite, Circulating
  <1>5. ASSUME NEW c \in Client, FirstTick(c) PROVE Circulating'
    <2>1. \A d \in Client : Holds(d)' \subseteq Holds(d)
      BY <1>5, HoldsCleared DEF FirstTick
    <2>2. QED
      BY <1>1, <1>5, <2>1 DEF FirstTick, Circulating
  <1>6. ASSUME NEW c \in Client, NEW t \in Timer, TickRead(c, t) PROVE Circulating'
    <2>1. \A m \in wire' : Published(out', m.item)
      <3>1. CASE pb[c].entries = <<>>
        BY <1>1, <1>6, <3>1 DEF TickRead, Circulating
      <3>2. CASE pb[c].entries # <<>>
        <4> DEFINE i == Head(pb[c].entries).item
        <4>1. wire' = wire \cup {[from |-> c, item |-> i]} /\ out' = out \cup {<<c, i>>}
          BY <1>6, <3>2 DEF TickRead
        <4> HIDE DEF i
        <4>2. Published(out', i)
          BY <4>1 DEF Published
        <4>3. \A m \in wire' : m \in wire \/ m.item = i
          BY <4>1
        <4>4. QED
          BY <1>1, <4>2, <4>3 DEF Circulating
      <3>3. QED
        BY <3>1, <3>2
    <2>2. QED
      BY <1>1, <1>6, <2>1 DEF TickRead, Circulating, Holds
  <1>7. ASSUME NEW m \in wire, ServerPublish(m) PROVE Circulating'
    <2>1. m.from \in Client /\ m.item \in Item /\ Published(out', m.item)
      BY <1>1 DEF TypeOK, Paste, Circulating
    <2>2. \A c, d \in Client : \A k \in DOMAIN inbox'[c][d] : Published(out', inbox'[c][d][k])
      <3> SUFFICES ASSUME NEW c \in Client, NEW d \in Client, NEW k \in DOMAIN inbox'[c][d]
                   PROVE  Published(out', inbox'[c][d][k])
        OBVIOUS
      <3>1. inbox[c][d] \in Seq(Item)
        BY DEF TypeOK
      <3>2. inbox'[c][d] = inbox[c][d] \/ inbox'[c][d] = Append(inbox[c][d], m.item)
        BY <1>7, <2>1 DEF ServerPublish, TypeOK
      <3>3. inbox'[c][d][k] = m.item \/ (k \in DOMAIN inbox[c][d] /\ inbox'[c][d][k] = inbox[c][d][k])
        BY <2>1, <3>1, <3>2
      <3>4. QED
        BY <1>1, <2>1, <3>3 DEF Circulating
    <2>3. QED
      BY <1>1, <1>7, <2>2 DEF ServerPublish, Circulating, Holds
  <1>8. ASSUME NEW c \in Client, NEW d \in Client, Receive(c, d) PROVE Circulating'
    <2>1. inbox[c][d] \in Seq(Item) /\ inbox[c][d] # <<>>
      BY <1>8 DEF Receive, TypeOK
    <2>2. /\ 1 \in DOMAIN inbox[c][d] /\ Head(inbox[c][d]) = inbox[c][d][1]
          /\ \A k \in DOMAIN Tail(inbox[c][d]) :
               k + 1 \in DOMAIN inbox[c][d] /\ Tail(inbox[c][d])[k] = inbox[c][d][k + 1]
      BY <2>1
    <2>3. \A x, y \in Client : \A k \in DOMAIN inbox'[x][y] : Published(out', inbox'[x][y][k])
      <3> SUFFICES ASSUME NEW x \in Client, NEW y \in Client, NEW k \in DOMAIN inbox'[x][y]
                   PROVE  Published(out', inbox'[x][y][k])
        OBVIOUS
      <3>1. CASE x = c /\ y = d
        <4>1. inbox'[x][y] = Tail(inbox[c][d])
          BY <1>8, <3>1 DEF Receive, TypeOK
        <4>2. QED
          BY <1>1, <2>2, <4>1 DEF Circulating
      <3>2. CASE ~(x = c /\ y = d)
        <4>1. inbox'[x][y] = inbox[x][y]
          BY <1>8, <3>2 DEF Receive, TypeOK
        <4>2. QED
          BY <1>1, <4>1 DEF Circulating
      <3>3. QED
        BY <3>1, <3>2
    <2>4. \A x \in Client : slot'[x] # None => Published(out', slot'[x])
      BY <1>1, <1>8, <2>2 DEF Receive, Circulating, TypeOK
    <2>5. \A x, y \in Client : handler'[x][y].item # None => Published(out', handler'[x][y].item)
      BY <1>1, <1>8 DEF Receive, Circulating, TypeOK
    <2>6. QED
      BY <1>1, <1>8, <2>3, <2>4, <2>5 DEF Receive, Circulating, Holds
  <1>9. ASSUME NEW c \in Client, NEW d \in Client, HandleClear(c, d) PROVE Circulating'
    <2>1. \A x \in Client : Holds(x)' \subseteq Holds(x)
      BY <1>9, HoldsCleared DEF HandleClear
    <2>2. \A x, y \in Client : handler'[x][y].item # None => Published(out', handler'[x][y].item)
      BY <1>1, <1>9 DEF HandleClear, Circulating, TypeOK
    <2>3. QED
      BY <1>1, <1>9, <2>1, <2>2 DEF HandleClear, Circulating
  <1>10. ASSUME NEW c \in Client, NEW d \in Client, HandleWrite(c, d) PROVE Circulating'
    <2> DEFINE e == [item |-> handler[c][d].item, peer |-> TRUE]
    <2>1. handler[c][d].item \in Item /\ handler[c][d].item # None
      BY <1>10 DEF HandleWrite, Armed, TypeOK, Handling
    <2>2. e \in Entry /\ e.item = handler[c][d].item
      BY <2>1 DEF Entry
    <2>3. pb' = [pb EXCEPT ![c] = Written(@, "plaster", e)]
      BY <1>10 DEF HandleWrite
    <2> HIDE DEF e
    <2>4. \A x \in Client : Holds(x)' \subseteq Holds(x) \cup {e}
      BY <2>2, <2>3, HoldsWritten
    <2>5. Published(out', e.item)
      BY <1>1, <2>1, <2>2 DEF Circulating
    <2>6. \A x, y \in Client : handler'[x][y].item # None => Published(out', handler'[x][y].item)
      BY <1>1, <1>10 DEF HandleWrite, Circulating, TypeOK, Unused
    <2>7. QED
      BY <1>1, <1>10, <2>4, <2>5, <2>6 DEF HandleWrite, Circulating
  <1>11. QED
    BY <1>2, <1>3, <1>4, <1>5, <1>6, <1>7, <1>8, <1>9, <1>10
       DEF Next, Server, User, Monitor, Handle, Start, Stop, TickCount, TickLook,
           ServerUnsubscribe, vars

-----------------------------------------------------------------------------

(***************************************************************************)
(* Who copied what.  What lies on a pasteboard without the type of the     *)
(* peers was copied there, and an item about to be written is nowhere yet. *)
(***************************************************************************)

Copied ==
  /\ \A p \in out : p[2] \in 1..copies
  /\ \A c \in Client : \A e \in Holds(c) :
       ~e.peer => e.item \in 1..copies /\ origin[e.item] = c /\ e.item # copying[c]
  /\ \A c \in Client : copying[c] # None =>
       /\ copying[c] \in 1..copies
       /\ origin[copying[c]] = c
       /\ ~Published(out, copying[c])

LEMMA PublishedIsCopied ==
  ASSUME Copied, NEW i, Published(out, i)
  PROVE  i \in 1..copies
  <1>1. PICK x \in Client : <<x, i>> \in out
    BY DEF Published
  <1>2. <<x, i>>[2] \in 1..copies
    BY <1>1 DEF Copied
  <1>3. QED
    BY <1>2

LEMMA CopiedKept ==
  ASSUME TypeOK, Armed, Circulating, Copied, [Next]_vars
  PROVE  Copied'
  <1> USE DEF session, network, handling, history
  <1>1. ASSUME UNCHANGED <<pb, out, copies, origin, copying>> PROVE Copied'
    BY <1>1 DEF Copied, Holds
  <1>2. ASSUME NEW c \in Client, NEW process \in {"user", "plaster"},
               pb' = [pb EXCEPT ![c] = Cleared(process)],
               UNCHANGED <<out, copies, origin, copying>>
        PROVE  Copied'
    <2>1. \A d \in Client : Holds(d)' \subseteq Holds(d)
      BY <1>2, HoldsCleared
    <2>2. QED
      BY <1>2, <2>1 DEF Copied
  <1>3. ASSUME NEW c \in Client, CopyClear(c) PROVE Copied'
    <2>1. \A d \in Client : Holds(d)' = IF d = c THEN {} ELSE Holds(d)
      BY <1>3, HoldsCleared DEF CopyClear
    <2>2. /\ copies \in Nat /\ copies' = copies + 1 /\ out' = out
          /\ origin' = Append(origin, c) /\ origin \in Seq(Client) /\ Len(origin) = copies
          /\ copying' = [copying EXCEPT ![c] = copies + 1]
      BY <1>3 DEF CopyClear, TypeOK
    <2>3. origin'[copies + 1] = c /\ \A i \in 1..copies : origin'[i] = origin[i]
      BY <2>2
    <2>4. ~Published(out, copies + 1)
      BY <2>2, PublishedIsCopied
    <2>5. \A p \in out' : p[2] \in 1..copies'
      BY <2>2 DEF Copied
    <2>6. \A d \in Client : \A e \in Holds(d)' :
            ~e.peer => e.item \in 1..copies' /\ origin'[e.item] = d /\ e.item # copying'[d]
      <3>1. \A d \in Client : d # c => copying'[d] = copying[d]
        BY <2>2 DEF TypeOK
      <3>2. \A d \in Client : \A e \in Holds(d) :
              ~e.peer => e.item \in 1..copies /\ origin[e.item] = d /\ e.item # copying[d]
        BY DEF Copied
      <3>3. \A i \in 1..copies : i \in 1..copies'
        BY <2>2
      <3>4. QED
        BY <2>1, <2>2, <2>3, <3>1, <3>2, <3>3
    <2>7. \A d \in Client : copying'[d] # None =>
            copying'[d] \in 1..copies' /\ origin'[copying'[d]] = d /\ ~Published(out', copying'[d])
      <3>1. copying'[c] = copies + 1 /\ \A d \in Client : d # c => copying'[d] = copying[d]
        BY <2>2 DEF TypeOK
      <3>2. \A d \in Client : copying[d] # None =>
              copying[d] \in 1..copies /\ origin[copying[d]] = d /\ ~Published(out, copying[d])
        BY DEF Copied
      <3>3. copies + 1 \in 1..copies' /\ \A i \in 1..copies : i \in 1..copies'
        BY <2>2
      <3>4. QED
        BY <2>2, <2>3, <2>4, <3>1, <3>2, <3>3
    <2>8. QED
      BY <2>5, <2>6, <2>7 DEF Copied
  <1>4. ASSUME NEW c \in Client, CopyWrite(c) PROVE Copied'
    <2> DEFINE e == [item |-> copying[c], peer |-> FALSE]
    <2>1. e \in Entry /\ e.item = copying[c] /\ copying[c] # None /\ copying[c] \in Item
      BY <1>4 DEF CopyWrite, TypeOK, Entry
    <2>2. pb' = [pb EXCEPT ![c] = Written(@, "user", e)]
      BY <1>4 DEF CopyWrite
    <2> HIDE DEF e
    <2>3. /\ Holds(c)' \subseteq Holds(c) \cup {e}
          /\ \A d \in Client \ {c} : Holds(d)' = Holds(d)
      BY <2>1, <2>2, HoldsWritten
    <2>4. /\ out' = out /\ copies' = copies /\ origin' = origin
          /\ copying' = [copying EXCEPT ![c] = None]
      BY <1>4 DEF CopyWrite
    <2>5. \A d \in Client : \A f \in Holds(d) : f.item # None
      BY HoldsEntries DEF Item, None
    <2>6. \A d \in Client : \A f \in Holds(d)' :
            ~f.peer => f.item \in 1..copies' /\ origin'[f.item] = d /\ f.item # copying'[d]
      <3>1. copying'[c] = None /\ \A d \in Client : d # c => copying'[d] = copying[d]
        BY <2>4 DEF TypeOK
      <3>2. \A d \in Client : \A f \in Holds(d) :
              ~f.peer => f.item \in 1..copies /\ origin[f.item] = d /\ f.item # copying[d]
        BY DEF Copied
      <3>3. copying[c] \in 1..copies /\ origin[copying[c]] = c
        BY <2>1 DEF Copied
      <3>4. ASSUME NEW d \in Client, d # c, NEW f \in Holds(d)', ~f.peer
            PROVE  f.item \in 1..copies' /\ origin'[f.item] = d /\ f.item # copying'[d]
        BY <2>3, <2>4, <3>1, <3>2, <3>4
      <3>5. ASSUME NEW f \in Holds(c)', ~f.peer
            PROVE  f.item \in 1..copies' /\ origin'[f.item] = c /\ f.item # copying'[c]
        <4>1. CASE f = e
          BY <2>1, <2>4, <3>1, <3>3, <4>1
        <4>2. CASE f \in Holds(c)
          BY <2>4, <2>5, <3>1, <3>2, <3>5, <4>2
        <4>3. QED
          BY <2>3, <4>1, <4>2
      <3>6. QED
        BY <3>4, <3>5
    <2>7. copying'[c] = None /\ \A d \in Client : d # c => copying'[d] = copying[d]
      BY <2>4 DEF TypeOK
    <2>8. \A d \in Client : copying'[d] # None =>
            copying'[d] \in 1..copies' /\ origin'[copying'[d]] = d /\ ~Published(out', copying'[d])
      BY <2>4, <2>7 DEF Copied
    <2>9. \A p \in out' : p[2] \in 1..copies'
      BY <2>4 DEF Copied
    <2>10. QED
      BY <2>6, <2>8, <2>9 DEF Copied
  <1>5. ASSUME NEW c \in Client, NEW t \in Timer, TickRead(c, t) PROVE Copied'
    <2>1. CASE pb[c].entries = <<>>
      BY <1>1, <1>5, <2>1 DEF TickRead
    <2>2. CASE pb[c].entries # <<>>
      <3> DEFINE i == Head(pb[c].entries).item
      <3>1. PICK e \in Holds(c) : e.item = i
        BY <2>2, BoardEntries DEF TypeOK, Holds
      <3>2. out' = out \cup {<<c, i>>} /\ UNCHANGED <<pb, copies, origin, copying>>
        BY <1>5, <2>2 DEF TickRead
      <3> HIDE DEF i
      <3>3. i \in 1..copies
        BY <3>1, PublishedIsCopied DEF Copied, Circulating
      <3>4. \A d \in Client : copying[d] # None => copying[d] # i
        BY <3>1 DEF Copied, Circulating
      <3>5. \A d \in Client : copying[d] # None => ~Published(out', copying[d])
        BY <3>2, <3>4 DEF Copied, Published
      <3>6. \A p \in out' : p[2] \in 1..copies'
        BY <3>2, <3>3 DEF Copied
      <3>7. QED
        BY <3>2, <3>5, <3>6 DEF Copied, Holds
    <2>3. QED
      BY <2>1, <2>2
  <1>6. ASSUME NEW c \in Client, NEW d \in Client, HandleWrite(c, d) PROVE Copied'
    <2> DEFINE e == [item |-> handler[c][d].item, peer |-> TRUE]
    <2>1. e \in Entry /\ e.peer
      BY <1>6 DEF HandleWrite, Armed, TypeOK, Handling, Entry
    <2>2. pb' = [pb EXCEPT ![c] = Written(@, "plaster", e)]
      BY <1>6 DEF HandleWrite
    <2> HIDE DEF e
    <2>3. \A x \in Client : Holds(x)' \subseteq Holds(x) \cup {e}
      BY <2>1, <2>2, HoldsWritten
    <2>4. QED
      BY <1>6, <2>1, <2>3 DEF HandleWrite, Copied
  <1>7. ASSUME NEW c \in Client, FirstTick(c) PROVE Copied'
    BY <1>2, <1>7 DEF FirstTick
  <1>8. ASSUME NEW c \in Client, NEW d \in Client, HandleClear(c, d) PROVE Copied'
    BY <1>2, <1>8 DEF HandleClear
  <1>9. QED
    BY <1>1, <1>3, <1>4, <1>5, <1>6, <1>7, <1>8
       DEF Next, Server, User, Monitor, Handle, Start, Stop, TickCount, TickLook,
           ServerPublish, ServerUnsubscribe, Receive, vars

-----------------------------------------------------------------------------

(***************************************************************************)
(* What was copied at rest.  While it lies on its pasteboard no tick is    *)
(* under way there, and none can come before the first tick, which removes *)
(* it.                                                                     *)
(***************************************************************************)

Private ==
  /\ \A i \in hidden : i \in 1..copies /\ ~Published(out, i)
  /\ \A c \in Client : copying[c] \notin hidden
  /\ \A c \in Client : \A e \in Holds(c) :
       e.item \in hidden => ~Ticking(c) /\ (running[c] => started[c])

LEMMA PrivateKept ==
  ASSUME TypeOK, Armed, Circulating, Copied, Private, [Next]_vars
  PROVE  Private'
  <1> USE DEF session, network, handling, history
  <1>1. ASSUME UNCHANGED <<pb, out, copies, copying, hidden, tick, running, started>>
        PROVE  Private'
    BY <1>1 DEF Private, Holds, Ticking
  <1>2. ASSUME NEW c \in Client, Start(c) PROVE Private'
    BY <1>2 DEF Start, Private, Holds, Ticking, TypeOK
  <1>3. ASSUME NEW c \in Client, Stop(c) PROVE Private'
    BY <1>3 DEF Stop, Private, Holds, Ticking, TypeOK
  <1>4. ASSUME NEW c \in Client, CopyClear(c) PROVE Private'
    <2>1. \A d \in Client : Holds(d)' \subseteq Holds(d)
      BY <1>4, HoldsCleared DEF CopyClear
    <2>2. copies + 1 \notin hidden /\ 1..copies \subseteq 1..(copies + 1)
      BY DEF Private, TypeOK
    <2>3. QED
      BY <1>4, <2>1, <2>2 DEF CopyClear, Private, Ticking, TypeOK
  <1>5. ASSUME NEW c \in Client, CopyWrite(c) PROVE Private'
    <2> DEFINE e == [item |-> copying[c], peer |-> FALSE]
    <2>1. e \in Entry /\ e.item = copying[c] /\ copying[c] # None /\ copying[c] \in Item
      BY <1>5 DEF CopyWrite, TypeOK, Entry
    <2>2. pb' = [pb EXCEPT ![c] = Written(@, "user", e)]
      BY <1>5 DEF CopyWrite
    <2> HIDE DEF e
    <2>3. /\ Holds(c)' \subseteq Holds(c) \cup {e}
          /\ \A d \in Client \ {c} : Holds(d)' = Holds(d)
      BY <2>1, <2>2, HoldsWritten
    <2>4. /\ out' = out /\ copies' = copies /\ tick' = tick
          /\ running' = running /\ started' = started
          /\ copying' = [copying EXCEPT ![c] = None]
          /\ hidden' = hidden \/ (hidden' = hidden \cup {copying[c]} /\ ~running[c] /\ ~Ticking(c))
      BY <1>5 DEF CopyWrite
    <2>5. copying[c] \in 1..copies /\ ~Published(out, copying[c]) /\ copying[c] \notin hidden
      BY <2>1 DEF Copied, Private
    <2>6. \A i \in hidden' : i \in 1..copies' /\ ~Published(out', i)
      BY <2>4, <2>5 DEF Private
    <2>7. \A d \in Client : copying'[d] \notin hidden'
      <3>1. None \notin hidden'
        BY <2>4, <2>1 DEF Item, None, TypeOK
      <3>2. \A d \in Client : d # c /\ copying[d] # None => copying[d] # copying[c]
        BY <2>1 DEF Copied
      <3>3. QED
        BY <2>1, <2>4, <3>1, <3>2 DEF Private, TypeOK
    <2>8. \A d \in Client : \A f \in Holds(d) : d # c => f.item # copying[c]
      BY <2>1, <2>5 DEF Copied, Circulating
    <2>9. \A f \in Holds(c) : f.item # copying[c]
      BY <2>1, <2>5 DEF Copied, Circulating
    <2>10. \A d \in Client : Ticking(d)' = Ticking(d)
      BY <2>4 DEF Ticking
    <2>11. \A d \in Client : \A f \in Holds(d)' :
             f.item \in hidden' => ~Ticking(d)' /\ (running'[d] => started'[d])
      BY <2>1, <2>3, <2>4, <2>5, <2>8, <2>9, <2>10 DEF Private
    <2>12. QED
      BY <2>6, <2>7, <2>11 DEF Private
  <1>6. ASSUME NEW c \in Client, FirstTick(c) PROVE Private'
    <2>1. \A d \in Client : Holds(d)' = IF d = c THEN {} ELSE Holds(d)
      BY <1>6, HoldsCleared DEF FirstTick
    <2>2. QED
      BY <1>6, <2>1 DEF FirstTick, Private, Ticking, TypeOK
  <1>7. ASSUME NEW c \in Client, TickCount(c) PROVE Private'
    <2>1. \A e \in Holds(c) : e.item \notin hidden
      BY <1>7 DEF TickCount, MayTick, Peers, Private
    <2>2. \A d \in Client \ {c} : Ticking(d)' = Ticking(d)
      BY <1>7 DEF TickCount, Ticking, TypeOK
    <2>3. QED
      BY <1>7, <2>1, <2>2 DEF TickCount, Private, Holds
  <1>8. ASSUME NEW c \in Client, NEW t \in Timer, TickLook(c, t) PROVE Private'
    <2>1. \A d \in Client : Ticking(d)' => Ticking(d)
      BY <1>8 DEF TickLook, Ticking, TypeOK
    <2>2. QED
      BY <1>8, <2>1 DEF TickLook, Private, Holds
  <1>9. ASSUME NEW c \in Client, NEW t \in Timer, TickRead(c, t) PROVE Private'
    <2>1. Ticking(c)
      BY <1>9 DEF TickRead, Ticking
    <2>2. \A d \in Client : Ticking(d)' => Ticking(d)
      BY <1>9 DEF TickRead, Ticking, TypeOK
    <2>3. CASE pb[c].entries = <<>>
      BY <1>9, <2>2, <2>3 DEF TickRead, Private, Holds
    <2>4. CASE pb[c].entries # <<>>
      <3> DEFINE i == Head(pb[c].entries).item
      <3>1. PICK e \in Holds(c) : e.item = i
        BY <2>4, BoardEntries DEF TypeOK, Holds
      <3>2. /\ out' = out \cup {<<c, i>>}
            /\ UNCHANGED <<pb, copies, copying, hidden, running, started>>
        BY <1>9, <2>4 DEF TickRead
      <3> HIDE DEF i
      <3>3. i \notin hidden
        BY <2>1, <3>1 DEF Private
      <3>4. \A j \in hidden : ~Published(out', j)
        BY <3>2, <3>3 DEF Private, Published
      <3>5. QED
        BY <2>2, <3>2, <3>4 DEF Private, Holds
    <2>5. QED
      BY <2>3, <2>4
  <1>10. ASSUME NEW c \in Client, NEW d \in Client, HandleClear(c, d) PROVE Private'
    <2>1. \A x \in Client : Holds(x)' \subseteq Holds(x)
      BY <1>10, HoldsCleared DEF HandleClear
    <2>2. QED
      BY <1>10, <2>1 DEF HandleClear, Private, Ticking
  <1>11. ASSUME NEW c \in Client, NEW d \in Client, HandleWrite(c, d) PROVE Private'
    <2> DEFINE e == [item |-> handler[c][d].item, peer |-> TRUE]
    <2>1. handler[c][d].item \in Item /\ handler[c][d].item # None
      BY <1>11 DEF HandleWrite, Armed, TypeOK, Handling
    <2>2. e \in Entry /\ e.item = handler[c][d].item
      BY <2>1 DEF Entry
    <2>3. pb' = [pb EXCEPT ![c] = Written(@, "plaster", e)]
      BY <1>11 DEF HandleWrite
    <2> HIDE DEF e
    <2>4. \A x \in Client : Holds(x)' \subseteq Holds(x) \cup {e}
      BY <2>2, <2>3, HoldsWritten
    <2>5. e.item \notin hidden
      BY <2>1, <2>2 DEF Circulating, Private
    <2>6. QED
      BY <1>11, <2>4, <2>5 DEF HandleWrite, Private, Ticking
  <1>12. QED
    BY <1>1, <1>2, <1>3, <1>4, <1>5, <1>6, <1>7, <1>8, <1>9, <1>10, <1>11
       DEF Next, Server, User, Monitor, Handle, ServerPublish, ServerUnsubscribe, Receive, vars

-----------------------------------------------------------------------------

(***************************************************************************)
(* The check for a peer's paste.  A tick past the check finds nothing of a *)
(* peer, unless a paste has been written since.                            *)
(***************************************************************************)

Checked ==
  \A c \in Client \ caught : \A t \in Timer :
    tick[c][t] = "read" => \A e \in Holds(c) : ~e.peer

LEMMA CheckedKept ==
  ASSUME TypeOK, Armed, Checked, [Next]_vars
  PROVE  Checked'
  <1> USE DEF session, network, handling, history
  <1>1. ASSUME UNCHANGED <<pb, tick, caught>> PROVE Checked'
    BY <1>1 DEF Checked, Holds
  <1>2. ASSUME NEW c \in Client, NEW process \in {"user", "plaster"},
               pb' = [pb EXCEPT ![c] = Cleared(process)], UNCHANGED <<tick, caught>>
        PROVE  Checked'
    <2>1. \A d \in Client : Holds(d)' \subseteq Holds(d)
      BY <1>2, HoldsCleared
    <2>2. QED
      BY <1>2, <2>1 DEF Checked
  <1>3. ASSUME NEW c \in Client, CopyWrite(c) PROVE Checked'
    <2> DEFINE e == [item |-> copying[c], peer |-> FALSE]
    <2>1. e \in Entry /\ ~e.peer
      BY <1>3 DEF CopyWrite, TypeOK, Entry
    <2>2. pb' = [pb EXCEPT ![c] = Written(@, "user", e)]
      BY <1>3 DEF CopyWrite
    <2> HIDE DEF e
    <2>3. \A d \in Client : Holds(d)' \subseteq Holds(d) \cup {e}
      BY <2>1, <2>2, HoldsWritten
    <2>4. QED
      BY <1>3, <2>1, <2>3 DEF CopyWrite, Checked
  <1>4. ASSUME NEW c \in Client, TickCount(c) PROVE Checked'
    <2>1. \A d \in Client : \A t \in Timer : tick'[d][t] = "read" => tick[d][t] = "read"
      BY <1>4 DEF TickCount, TypeOK
    <2>2. QED
      BY <1>4, <2>1 DEF TickCount, Checked, Holds
  <1>5. ASSUME NEW c \in Client, NEW t \in Timer, TickLook(c, t) PROVE Checked'
    <2>1. \A d \in Client : \A u \in Timer :
            tick'[d][u] = "read" => tick[d][u] = "read" \/ (d = c /\ ~HoldsPeerType(c))
      BY <1>5 DEF TickLook, TypeOK
    <2>2. QED
      BY <1>5, <2>1 DEF TickLook, Checked, Holds, HoldsPeerType
  <1>6. ASSUME NEW c \in Client, NEW t \in Timer, TickRead(c, t) PROVE Checked'
    <2>1. \A d \in Client : \A u \in Timer : tick'[d][u] = "read" => tick[d][u] = "read"
      BY <1>6 DEF TickRead, TypeOK
    <2>2. QED
      BY <1>6, <2>1 DEF TickRead, Checked, Holds
  <1>7. ASSUME NEW c \in Client, NEW d \in Client, HandleWrite(c, d) PROVE Checked'
    <2> DEFINE e == [item |-> handler[c][d].item, peer |-> TRUE]
    <2>1. e \in Entry
      BY <1>7 DEF HandleWrite, Armed, TypeOK, Handling, Entry
    <2>2. pb' = [pb EXCEPT ![c] = Written(@, "plaster", e)]
      BY <1>7 DEF HandleWrite
    <2> HIDE DEF e
    <2>3. \A x \in Client \ {c} : Holds(x)' = Holds(x)
      BY <2>1, <2>2, HoldsWritten
    <2>4. c \in caught' \/ \A t \in Timer : tick'[c][t] # "read"
      BY <1>7 DEF HandleWrite
    <2>5. caught \subseteq caught' /\ tick' = tick
      BY <1>7 DEF HandleWrite
    <2>6. QED
      BY <2>3, <2>4, <2>5 DEF Checked
  <1>8. ASSUME NEW c \in Client, CopyClear(c) PROVE Checked'
    BY <1>2, <1>8 DEF CopyClear
  <1>9. ASSUME NEW c \in Client, FirstTick(c) PROVE Checked'
    BY <1>2, <1>9 DEF FirstTick
  <1>10. ASSUME NEW c \in Client, NEW d \in Client, HandleClear(c, d) PROVE Checked'
    BY <1>2, <1>10 DEF HandleClear
  <1>11. QED
    BY <1>1, <1>3, <1>4, <1>5, <1>6, <1>7, <1>8, <1>9, <1>10
       DEF Next, Server, User, Monitor, Handle, Start, Stop, ServerPublish,
           ServerUnsubscribe, Receive, vars

LEMMA NoEchoKept ==
  ASSUME TypeOK, Copied, Checked, NoEcho, [Next]_vars
  PROVE  NoEcho'
  <1> USE DEF session, network, handling, history
  <1>1. ASSUME out' = out, origin' = origin, caught \subseteq caught' PROVE NoEcho'
    BY <1>1 DEF NoEcho
  <1>2. ASSUME NEW c \in Client, CopyClear(c) PROVE NoEcho'
    <2>1. /\ out' = out /\ caught' = caught /\ origin' = Append(origin, c)
          /\ origin \in Seq(Client) /\ Len(origin) = copies
      BY <1>2 DEF CopyClear, TypeOK
    <2>2. \A i \in 1..copies : origin'[i] = origin[i]
      BY <2>1
    <2>3. QED
      BY <2>1, <2>2 DEF NoEcho, Copied
  <1>3. ASSUME NEW c \in Client, NEW t \in Timer, TickRead(c, t) PROVE NoEcho'
    <2>1. CASE pb[c].entries = <<>>
      BY <1>1, <1>3, <2>1 DEF TickRead
    <2>2. CASE pb[c].entries # <<>>
      <3> DEFINE i == Head(pb[c].entries).item
      <3>1. PICK e \in Holds(c) : e.item = i
        BY <2>2, BoardEntries DEF TypeOK, Holds
      <3>2. out' = out \cup {<<c, i>>} /\ origin' = origin /\ caught' = caught
        BY <1>3, <2>2 DEF TickRead
      <3>3. c \in caught \/ origin[i] = c
        BY <1>3, <3>1 DEF TickRead, Checked, Copied
      <3> HIDE DEF i
      <3>4. QED
        BY <3>2, <3>3 DEF NoEcho
    <2>3. QED
      BY <2>1, <2>2
  <1>4. QED
    BY <1>1, <1>2, <1>3
       DEF Next, Server, User, Monitor, Handle, Start, Stop, CopyWrite, FirstTick, TickCount,
           TickLook, ServerPublish, ServerUnsubscribe, Receive, HandleClear, HandleWrite, vars

-----------------------------------------------------------------------------

LEMMA MonitorInvariant == Spec => [](Circulating /\ Copied /\ Private /\ Checked /\ NoEcho)
  <1>1. Init => Circulating /\ Copied /\ Private /\ Checked /\ NoEcho
    <2> SUFFICES ASSUME Init PROVE Circulating /\ Copied /\ Private /\ Checked /\ NoEcho
      OBVIOUS
    <2>1. \A c \in Client : Holds(c) = {}
      BY ClearedBoard DEF Init, Holds
    <2>2. QED
      BY <2>1 DEF Init, Circulating, Copied, Private, Checked, NoEcho, Unused
  <1>2. /\ TypeOK /\ Armed
        /\ Circulating /\ Copied /\ Private /\ Checked /\ NoEcho
        /\ [Next]_vars
        => (Circulating /\ Copied /\ Private /\ Checked /\ NoEcho)'
    BY CirculatingKept, CopiedKept, PrivateKept, CheckedKept, NoEchoKept
  <1>3. QED
    BY <1>1, <1>2, TypeInvariant, PTL DEF Spec

\* What a client received it does not publish again, however ticks, pastes and
\* copies interleave, unless a paste is written between the check of a tick and
\* its reading.
THEOREM NoEchoEver == Spec => []NoEcho
  BY MonitorInvariant, PTL

\* What was copied while the client was at rest never leaves it.
THEOREM StaleIsPrivate == Spec => []StaleStaysPrivate
  <1>1. TypeOK /\ Private => StaleStaysPrivate
    <2> SUFFICES ASSUME TypeOK, Private, NEW p \in out, p[2] \in hidden PROVE FALSE
      BY DEF StaleStaysPrivate
    <2>1. p = <<p[1], p[2]>> /\ p[1] \in Client
      BY DEF TypeOK
    <2>2. QED
      BY <2>1 DEF Private, Published
  <1>2. QED
    BY <1>1, TypeInvariant, MonitorInvariant, PTL

-----------------------------------------------------------------------------

(***************************************************************************)
(* Clipboards agree.  A copy made when nothing is under way is first       *)
(* announced by its client alone; from then on nothing else is under way   *)
(* anywhere, and whoever does not hold it yet has it coming.               *)
(***************************************************************************)
Items(x) == {e.item : e \in Holds(x)}

\* o is about to publish i, nobody else does anything.
Announcing(o, i) ==
  /\ Peers(o) # {}
  /\ wire = {} /\ \A x, y \in Client : inbox[x][y] = <<>> /\ handler[x][y] = Unused
  /\ \A x \in Client \ {o} : copying[x] = None /\ ~Ticking(x) /\ (Peers(x) # {} => ~fresh[x])
  /\ \/ copying[o] = i /\ pb[o] = Cleared("user") /\ fresh[o] /\ ~Ticking(o)
     \/ /\ copying[o] = None /\ pb[o].entries = <<[item |-> i, peer |-> FALSE]>>
        /\ fresh[o] <=> ~Ticking(o)

\* What comes to x is i, and what x is about to paste is not refused.
Delivers(x, y, i) ==
  /\ \A k \in DOMAIN inbox[x][y] : inbox[x][y][k] = i
  /\ handler[x][y].at = "called" => slot[x] = i
  /\ handler[x][y].at = "paste" =>
       handler[x][y].item = i /\ pb[x].owner = "plaster" /\ Items(x) \subseteq {i}

Coming(x) ==
  \/ \E y \in Client : handler[x][y].at # "none" \/ inbox[x][y] # <<>>
  \/ \E m \in wire : m.from # x

\* i is on its way to everybody, and nothing else is; whoever may publish holds
\* nothing else.
Spreading(i) ==
  /\ \A x \in Client : copying[x] = None
  /\ \A m \in wire : m.item = i
  /\ \A x, y \in Client : Delivers(x, y, i)
  /\ \A x \in Client : Ticking(x) \/ (fresh[x] /\ Peers(x) # {}) => Items(x) \subseteq {i}
  /\ \A x \in Client : Peers(x) # {} => Items(x) = {i} \/ Coming(x)

\* The session has settled before: no first tick and no UNSUBSCRIBE is left.
Undisturbed == \A x \in Client : hears[x] = running[x] /\ (Peers(x) # {} => ~started[x])

AgreeInv ==
  latest # None =>
    /\ Undisturbed
    /\ (\E x \in Client : Peers(x) # {}) =>
         (\E o \in Client : Announcing(o, latest)) \/ Spreading(latest)

-----------------------------------------------------------------------------

\* A write by the process that cleared the pasteboard is not refused.
LEMMA WrittenByOwner ==
  ASSUME NEW board \in Pasteboard, NEW e \in Entry
  PROVE  /\ Written(board, board.owner, e).entries = Append(board.entries, e)
         /\ e \in EntriesOf(Written(board, board.owner, e))
  <1> DEFINE s == board.entries
             w == Written(board, board.owner, e)
  <1>1. s \in Seq(Entry)
    BY DEF Pasteboard
  <1>2. w = [board EXCEPT !.entries = Append(s, e)]
    BY DEF Written
  <1>3. w.entries = Append(s, e)
    BY <1>2 DEF Pasteboard
  <1>4. Len(s) + 1 \in DOMAIN Append(s, e) /\ Append(s, e)[Len(s) + 1] = e
    BY <1>1
  <1>5. QED
    BY <1>3, <1>4 DEF EntriesOf

LEMMA WrittenKeepsOwner ==
  ASSUME NEW board \in Pasteboard, NEW process, NEW e \in Entry
  PROVE  Written(board, process, e).owner = board.owner
  BY DEF Written, Pasteboard

\* A pasteboard with one entry.
LEMMA HoldsOne ==
  ASSUME NEW x \in Client, NEW e, pb[x].entries = <<e>>
  PROVE  Holds(x) = {e}
  <1>1. DOMAIN <<e>> = {1} /\ <<e>>[1] = e
    OBVIOUS
  <1>2. QED
    BY <1>1 DEF Holds, EntriesOf

\* The peers change with a start or a stop only.
LEMMA PeersSame ==
  ASSUME running' = running
  PROVE  \A x \in Client : Peers(x)' = Peers(x)
  BY DEF Peers

LEMMA AgreesAbout ==
  ASSUME NEW i, latest' = i, Undisturbed',
         (\E x \in Client : Peers(x)' # {}) => (\E o \in Client : Announcing(o, i)') \/ Spreading(i)'
  PROVE  AgreeInv'
  BY DEF AgreeInv, Announcing, Spreading, Delivers

LEMMA UndisturbedKept ==
  ASSUME Undisturbed, UNCHANGED <<running, started, hears>>
  PROVE  Undisturbed'
  BY PeersSame DEF Undisturbed

\* The copy that begins it.
LEMMA CopyAnnounces ==
  ASSUME Haste = FALSE, TypeOK, NEW c \in Client, CopyClear(c), running[c],
         NEW i, i = copies + 1
  PROVE  /\ latest' = i /\ Undisturbed'
         /\ (\E x \in Client : Peers(x)' # {}) => Announcing(c, i)'
  <1>1. Settled /\ latest' = i
    BY DEF CopyClear, MayBegin
  <1>2. /\ UNCHANGED <<running, started, hears, tick, wire, inbox, handler>>
        /\ copying' = [copying EXCEPT ![c] = i]
        /\ pb' = [pb EXCEPT ![c] = Cleared("user")]
        /\ fresh' = [fresh EXCEPT ![c] = TRUE]
    BY DEF CopyClear, session, network, handling
  <1>3. Undisturbed'
    BY <1>1, <1>2, PeersSame DEF Settled, Undisturbed
  <1>4. ASSUME NEW x \in Client, Peers(x)' # {} PROVE Announcing(c, i)'
    <2>1. \A y \in Client : Peers(y)' = Peers(y)
      BY <1>2, PeersSame
    <2>2. Peers(c)' # {}
      <3>1. Peers(x) # {}
        BY <1>4, <2>1
      <3>2. Peers(c) # {}
        BY <3>1 DEF Peers
      <3>3. QED
        BY <2>1, <3>2
    <2>3. wire' = {} /\ \A y, z \in Client : inbox'[y][z] = <<>> /\ handler'[y][z] = Unused
      BY <1>1, <1>2 DEF Settled
    <2>4. \A y \in Client : ~Ticking(y)'
      BY <1>1, <1>2 DEF Settled, Ticking
    <2>5. \A y \in Client \ {c} : copying'[y] = None /\ (Peers(y)' # {} => ~fresh'[y])
      BY <1>1, <1>2, <2>1 DEF Settled, TypeOK
    <2>6. copying'[c] = i /\ pb'[c] = Cleared("user") /\ fresh'[c]
      BY <1>2 DEF TypeOK
    <2>7. QED
      BY <2>2, <2>3, <2>4, <2>5, <2>6 DEF Announcing
  <1>5. QED
    BY <1>1, <1>3, <1>4

-----------------------------------------------------------------------------

(***************************************************************************)
(* While one client announces, only it moves.                              *)
(***************************************************************************)

\* o is left with its one entry, and has not published it.
LEMMA AnnouncingKept ==
  ASSUME NEW i, NEW o \in Client, Announcing(o, i),
         UNCHANGED <<running, wire, inbox, handler>>,
         \A x \in Client \ {o} : copying'[x] = copying[x] /\ fresh'[x] = fresh[x] /\ tick'[x] = tick[x],
         copying'[o] = None, pb'[o].entries = <<[item |-> i, peer |-> FALSE]>>,
         fresh'[o] <=> ~Ticking(o)'
  PROVE  Announcing(o, i)'
  <1>1. \A x \in Client : Peers(x)' = Peers(x)
    BY PeersSame
  <1>2. \A x \in Client \ {o} : Ticking(x)' <=> Ticking(x)
    BY DEF Ticking
  <1>3. QED
    BY <1>1, <1>2 DEF Announcing

LEMMA AnnouncingWrite ==
  ASSUME TypeOK, NEW i \in Item, NEW o \in Client, Announcing(o, i),
         NEW c \in Client, CopyWrite(c)
  PROVE  Announcing(o, i)'
  <1>1. c = o
    BY DEF Announcing, CopyWrite
  <1>2. copying[o] = i /\ pb[o] = Cleared("user") /\ fresh[o] /\ ~Ticking(o)
    BY <1>1 DEF Announcing, CopyWrite
  <1> DEFINE e == [item |-> i, peer |-> FALSE]
  <1>3. e \in Entry
    BY DEF Entry
  <1>4. pb' = [pb EXCEPT ![o] = Written(@, "user", e)]
    BY <1>1, <1>2 DEF CopyWrite
  <1>5. pb[o] \in Pasteboard /\ pb[o].owner = "user" /\ pb[o].entries = <<>>
    BY <1>2 DEF TypeOK, Cleared
  <1> HIDE DEF e
  <1>6. pb'[o] = Written(pb[o], "user", e)
    BY <1>4 DEF TypeOK
  <1>7. pb'[o].entries = <<e>>
    <2>1. pb'[o].entries = Append(pb[o].entries, e)
      BY <1>3, <1>5, <1>6, WrittenByOwner
    <2>2. Append(<<>>, e) = <<e>>
      OBVIOUS
    <2>3. QED
      BY <1>5, <2>1, <2>2
  <1>8. /\ UNCHANGED <<running, wire, inbox, handler, fresh, tick>>
        /\ copying' = [copying EXCEPT ![o] = None]
    BY <1>1 DEF CopyWrite, session, network, handling
  <1>9. fresh'[o] <=> ~Ticking(o)'
    BY <1>2, <1>8 DEF Ticking
  <1>10. /\ copying'[o] = None
         /\ \A x \in Client \ {o} : copying'[x] = copying[x] /\ fresh'[x] = fresh[x] /\ tick'[x] = tick[x]
    BY <1>8 DEF TypeOK
  <1>11. QED
    BY <1>7, <1>8, <1>9, <1>10, AnnouncingKept DEF e

LEMMA AnnouncingCount ==
  ASSUME TypeOK, NEW i \in Item, NEW o \in Client, Announcing(o, i),
         NEW c \in Client, TickCount(c), latest' # None
  PROVE  Announcing(o, i)' /\ latest' = latest
  <1>1. Peers(c) # {} /\ fresh[c] /\ tick[c][timer[c]] = "none" /\ timer[c] # None
    BY DEF TickCount, MayTick
  <1>2. c = o
    BY <1>1 DEF Announcing
  <1>3. copying[o] = None /\ latest' = latest
    BY <1>2 DEF TickCount
  <1>4. i # None
    BY DEF Item, None
  <1>5. pb[o].entries = <<[item |-> i, peer |-> FALSE]>>
    BY <1>3, <1>4 DEF Announcing
  <1>6. /\ UNCHANGED <<running, pb, copying, wire, inbox, handler>>
        /\ fresh' = [fresh EXCEPT ![o] = FALSE]
        /\ tick' = [tick EXCEPT ![o][timer[o]] = "look"]
    BY <1>2 DEF TickCount, session, network, handling
  <1>7. timer[o] \in Timer
    BY <1>1, <1>2 DEF TypeOK
  <1>8. tick'[o][timer[o]] = "look" /\ ~fresh'[o]
    BY <1>6, <1>7 DEF TypeOK
  <1>9. Ticking(o)'
    BY <1>7, <1>8 DEF Ticking
  <1>10. \A x \in Client \ {o} : copying'[x] = copying[x] /\ fresh'[x] = fresh[x] /\ tick'[x] = tick[x]
    BY <1>6 DEF TypeOK
  <1>11. QED
    BY <1>3, <1>5, <1>6, <1>8, <1>9, <1>10, AnnouncingKept

LEMMA AnnouncingLook ==
  ASSUME TypeOK, NEW i \in Item, NEW o \in Client, Announcing(o, i),
         NEW c \in Client, NEW t \in Timer, TickLook(c, t)
  PROVE  Announcing(o, i)'
  <1>1. Ticking(c)
    BY DEF TickLook, Ticking
  <1>2. c = o
    BY <1>1 DEF Announcing
  <1>3. /\ copying[o] = None /\ pb[o].entries = <<[item |-> i, peer |-> FALSE]>> /\ ~fresh[o]
    BY <1>1, <1>2 DEF Announcing
  <1>4. ~HoldsPeerType(o)
    BY <1>3, HoldsOne DEF HoldsPeerType
  <1>5. /\ tick' = [tick EXCEPT ![o][t] = "read"]
        /\ UNCHANGED <<running, pb, fresh, copying, wire, inbox, handler>>
    BY <1>2, <1>4 DEF TickLook, session, network, handling
  <1>6. tick'[o][t] = "read" /\ \A x \in Client \ {o} : tick'[x] = tick[x]
    BY <1>5 DEF TypeOK
  <1>7. Ticking(o)'
    BY <1>6 DEF Ticking
  <1>8. QED
    BY <1>3, <1>5, <1>6, <1>7, AnnouncingKept

\* The publication: from now on the others have it coming.
LEMMA AnnouncingRead ==
  ASSUME TypeOK, NEW i \in Item, NEW o \in Client, Announcing(o, i),
         NEW c \in Client, NEW t \in Timer, TickRead(c, t)
  PROVE  Spreading(i)'
  <1>1. Ticking(c)
    BY DEF TickRead, Ticking
  <1>2. c = o
    BY <1>1 DEF Announcing
  <1>3. copying[o] = None /\ pb[o].entries = <<[item |-> i, peer |-> FALSE]>>
    BY <1>1, <1>2 DEF Announcing
  <1> DEFINE n == [from |-> o, item |-> i]
  <1>4. wire' = {n}
    <2>1. pb[o].entries # <<>> /\ Head(pb[o].entries).item = i
      BY <1>3
    <2>2. wire = {}
      BY DEF Announcing
    <2>3. QED
      BY <1>2, <2>1, <2>2 DEF TickRead
  <1>5. n.from = o /\ n.item = i
    OBVIOUS
  <1> HIDE DEF n
  <1>6. /\ tick' = [tick EXCEPT ![o][t] = "none"]
        /\ UNCHANGED <<running, pb, fresh, copying, inbox, handler, slot>>
    BY <1>2 DEF TickRead, session, network, handling
  <1>7. \A x \in Client : Peers(x)' = Peers(x) /\ Items(x)' = Items(x)
    BY <1>6, PeersSame DEF Items, Holds
  <1>8. Items(o) = {i}
    BY <1>3, HoldsOne DEF Items
  <1>9. \A x \in Client : copying'[x] = None
    BY <1>3, <1>6 DEF Announcing
  <1>10. \A x, y \in Client : Delivers(x, y, i)'
    <2>1. \A x, y \in Client : inbox'[x][y] = <<>> /\ handler'[x][y] = Unused
      BY <1>6 DEF Announcing
    <2>2. DOMAIN <<>> = {} /\ Unused.at = "none"
      BY DEF Unused
    <2>3. QED
      BY <2>1, <2>2 DEF Delivers
  <1>11. ASSUME NEW x \in Client, Ticking(x)' \/ (fresh'[x] /\ Peers(x)' # {})
         PROVE  Items(x)' \subseteq {i}
    <2>1. CASE x = o
      BY <1>7, <1>8, <2>1
    <2>2. CASE x # o
      <3>1. tick'[x] = tick[x]
        BY <1>6, <2>2 DEF TypeOK
      <3>2. QED
        BY <1>6, <1>7, <1>11, <2>2, <3>1 DEF Announcing, Ticking
    <2>3. QED
      BY <2>1, <2>2
  <1>12. \A x \in Client : Items(x)' = {i} \/ Coming(x)'
    BY <1>4, <1>5, <1>7, <1>8 DEF Coming
  <1>13. QED
    BY <1>4, <1>5, <1>9, <1>10, <1>11, <1>12 DEF Spreading

\* Nothing else can happen: no paste is under way and nobody else ticks.
LEMMA AnnouncingAlone ==
  ASSUME Undisturbed, NEW i, NEW o \in Client, Announcing(o, i)
  PROVE  /\ \A c \in Client : ~FirstTick(c) /\ ~ServerUnsubscribe(c)
         /\ \A m \in wire : ~ServerPublish(m)
         /\ \A c, d \in Client : ~Handle(c, d)
  <1>1. Unused.at = "none"
    BY DEF Unused
  <1>2. QED
    BY <1>1 DEF Undisturbed, Announcing, FirstTick, MayTick, ServerUnsubscribe, ServerPublish,
                Handle, Receive, HandleClear, HandleWrite

-----------------------------------------------------------------------------

(***************************************************************************)
(* While i spreads, whatever moves carries i.                              *)
(***************************************************************************)

\* Nothing else can happen: nobody copies, and no start or stop is unfinished.
LEMMA SpreadingCalm ==
  ASSUME Undisturbed, NEW i, Spreading(i)
  PROVE  \A c \in Client : ~CopyWrite(c) /\ ~FirstTick(c) /\ ~ServerUnsubscribe(c)
  BY DEF Undisturbed, Spreading, CopyWrite, FirstTick, MayTick, ServerUnsubscribe

\* Steps of a tick that publish nothing.
LEMMA SpreadingTick ==
  ASSUME TypeOK, NEW i \in Item, Spreading(i),
         UNCHANGED <<running, pb, copying, wire, inbox, handler, slot>>,
         \A x \in Client : fresh'[x] => fresh[x],
         \A x \in Client : Ticking(x)' => Ticking(x) \/ (fresh[x] /\ Peers(x) # {})
  PROVE  Spreading(i)'
  <1>1. \A x \in Client : Peers(x)' = Peers(x) /\ Items(x)' = Items(x)
    BY PeersSame DEF Items, Holds
  <1>2. \A x, y \in Client : Delivers(x, y, i)'
    BY <1>1 DEF Spreading, Delivers
  <1>3. \A x \in Client : Coming(x) => Coming(x)'
    BY DEF Coming
  <1>4. QED
    BY <1>1, <1>2, <1>3 DEF Spreading

LEMMA SpreadingCount ==
  ASSUME TypeOK, NEW i \in Item, Spreading(i), NEW c \in Client, TickCount(c)
  PROVE  Spreading(i)' /\ latest' = latest
  <1>1. latest' = latest
    BY DEF Spreading, TickCount
  <1>2. /\ UNCHANGED <<running, pb, copying, wire, inbox, handler, slot>>
        /\ Peers(c) # {} /\ fresh[c]
        /\ fresh' = [fresh EXCEPT ![c] = FALSE]
        /\ \E t : tick' = [tick EXCEPT ![c][t] = "look"]
    BY DEF TickCount, MayTick, session, network, handling
  <1>3. /\ \A x \in Client : fresh'[x] => fresh[x]
        /\ \A x \in Client \ {c} : tick'[x] = tick[x]
    BY <1>2 DEF TypeOK
  <1>4. \A x \in Client : Ticking(x)' => Ticking(x) \/ (fresh[x] /\ Peers(x) # {})
    BY <1>2, <1>3 DEF Ticking
  <1>5. QED
    BY <1>1, <1>2, <1>3, <1>4, SpreadingTick

LEMMA SpreadingLook ==
  ASSUME TypeOK, NEW i \in Item, Spreading(i),
         NEW c \in Client, NEW t \in Timer, TickLook(c, t)
  PROVE  Spreading(i)'
  <1>1. /\ UNCHANGED <<running, pb, fresh, copying, wire, inbox, handler, slot>>
        /\ \E s : tick' = [tick EXCEPT ![c][t] = s]
    BY DEF TickLook, session, network, handling
  <1>2. Ticking(c) /\ \A x \in Client \ {c} : tick'[x] = tick[x]
    BY <1>1 DEF TickLook, Ticking, TypeOK
  <1>3. \A x \in Client : Ticking(x)' => Ticking(x)
    BY <1>2 DEF Ticking
  <1>4. QED
    BY <1>1, <1>3, SpreadingTick

LEMMA SpreadingRead ==
  ASSUME TypeOK, NEW i \in Item, Spreading(i),
         NEW c \in Client, NEW t \in Timer, TickRead(c, t)
  PROVE  Spreading(i)'
  <1>1. /\ UNCHANGED <<running, pb, fresh, copying, inbox, handler, slot>>
        /\ tick' = [tick EXCEPT ![c][t] = "none"]
    BY DEF TickRead, session, network, handling
  <1>2. \A m \in wire' : m \in wire \/ m.item = i
    <2>1. CASE pb[c].entries = <<>>
      BY <2>1 DEF TickRead
    <2>2. CASE pb[c].entries # <<>>
      <3>1. Head(pb[c].entries) \in Holds(c)
        BY <2>2, BoardEntries DEF TypeOK, Holds
      <3>2. Items(c) \subseteq {i}
        BY DEF TickRead, Ticking, Spreading
      <3>3. Head(pb[c].entries).item = i
        BY <3>1, <3>2 DEF Items
      <3>4. wire' = wire \cup {[from |-> c, item |-> Head(pb[c].entries).item]}
        BY <2>2 DEF TickRead
      <3>5. QED
        BY <3>3, <3>4
    <2>3. QED
      BY <2>1, <2>2
  <1>3. wire \subseteq wire'
    BY DEF TickRead
  <1>4. \A x \in Client : Peers(x)' = Peers(x) /\ Items(x)' = Items(x)
    BY <1>1, PeersSame DEF Items, Holds
  <1>5. \A x, y \in Client : Delivers(x, y, i)'
    BY <1>1, <1>4 DEF Spreading, Delivers
  <1>6. Ticking(c) /\ \A x \in Client \ {c} : tick'[x] = tick[x]
    BY <1>1 DEF TickRead, Ticking, TypeOK
  <1>7. \A x \in Client : Ticking(x)' => Ticking(x)
    BY <1>6 DEF Ticking
  <1>8. \A x \in Client : Coming(x) => Coming(x)'
    BY <1>1, <1>3 DEF Coming
  <1>9. QED
    BY <1>1, <1>2, <1>4, <1>5, <1>7, <1>8 DEF Spreading

\* The relay: what was on the wire for x is now delivered to x.
LEMMA SpreadingPublish ==
  ASSUME TypeOK, Undisturbed, NEW i \in Item, Spreading(i), NEW m \in wire, ServerPublish(m)
  PROVE  Spreading(i)'
  <1>1. UNCHANGED <<running, pb, fresh, tick, copying, handler, slot>> /\ wire' = wire \ {m}
    BY DEF ServerPublish, session, handling
  <1>2. m.from \in Client /\ m.item = i
    <2>1. m \in Paste
      BY DEF TypeOK
    <2>2. QED
      BY <2>1 DEF Paste, Spreading
  <1>3. \A x \in Client, y \in Client :
          inbox'[x][y] = IF x # y /\ y = m.from /\ hears[x] THEN Append(inbox[x][y], i)
                         ELSE inbox[x][y]
    <2>1. \A x \in Client : inbox'[x] = IF x # m.from /\ hears[x]
              THEN [inbox[x] EXCEPT ![m.from] = Append(@, i)] ELSE inbox[x]
      BY <1>2 DEF ServerPublish
    <2>2. \A x \in Client : DOMAIN inbox[x] = Client
      BY DEF TypeOK
    <2>3. QED
      BY <1>2, <2>1, <2>2, ZenonT(60)
  <1>4. \A x \in Client : Peers(x)' = Peers(x) /\ Items(x)' = Items(x) /\ (Ticking(x)' <=> Ticking(x))
    BY <1>1, PeersSame DEF Items, Holds, Ticking
  <1>5. \A x, y \in Client : \A k \in DOMAIN inbox'[x][y] : inbox'[x][y][k] = i
    <2> SUFFICES ASSUME NEW x \in Client, NEW y \in Client
                 PROVE  \A k \in DOMAIN inbox'[x][y] : inbox'[x][y][k] = i
      OBVIOUS
    <2> DEFINE q == inbox[x][y]
    <2>1. q \in Seq(Item) /\ \A k \in DOMAIN q : q[k] = i
      BY DEF TypeOK, Spreading, Delivers
    <2>2. \A k \in DOMAIN Append(q, i) : Append(q, i)[k] = i
      BY <2>1
    <2>3. QED
      BY <1>3, <2>1, <2>2
  <1>6. \A x, y \in Client : Delivers(x, y, i)'
    BY <1>1, <1>4, <1>5 DEF Spreading, Delivers
  <1>7. ASSUME NEW x \in Client, Peers(x) # {}, Coming(x) PROVE Coming(x)'
    <2>1. CASE \E y \in Client : handler[x][y].at # "none"
      BY <1>1, <2>1 DEF Coming
    <2>2. CASE \E y \in Client : inbox[x][y] # <<>>
      <3>1. PICK y \in Client : inbox[x][y] # <<>>
        BY <2>2
      <3>2. inbox[x][y] \in Seq(Item)
        BY DEF TypeOK
      <3>3. Append(inbox[x][y], i) # <<>>
        BY <3>2
      <3>4. inbox'[x][y] # <<>>
        BY <1>3, <3>1, <3>3
      <3>5. QED
        BY <3>4 DEF Coming
    <2>3. CASE \E n \in wire : n.from # x
      <3>1. PICK n \in wire : n.from # x
        BY <2>3
      <3>2. CASE n # m
        BY <1>1, <3>1, <3>2 DEF Coming
      <3>3. CASE n = m
        <4>1. hears[x]
          BY <1>7 DEF Undisturbed, Peers
        <4>2. inbox'[x][m.from] = Append(inbox[x][m.from], i)
          BY <1>2, <1>3, <3>1, <3>3, <4>1
        <4>3. inbox[x][m.from] \in Seq(Item)
          BY <1>2 DEF TypeOK
        <4>4. inbox'[x][m.from] # <<>>
          BY <4>2, <4>3
        <4>5. QED
          BY <1>2, <4>4 DEF Coming
      <3>4. QED
        BY <3>2, <3>3
    <2>4. QED
      BY <1>7, <2>1, <2>2, <2>3 DEF Coming
  <1>8. QED
    BY <1>1, <1>4, <1>6, <1>7 DEF Spreading

\* The three steps of a handler.
LEMMA SpreadingReceive ==
  ASSUME TypeOK, NEW i \in Item, Spreading(i), NEW c \in Client, NEW d \in Client, Receive(c, d)
  PROVE  Spreading(i)'
  <1>1. UNCHANGED <<running, pb, fresh, tick, copying, wire>>
    BY DEF Receive, session
  <1>2. inbox[c][d] \in Seq(Item) /\ inbox[c][d] # <<>> /\ \A k \in DOMAIN inbox[c][d] : inbox[c][d][k] = i
    BY DEF TypeOK, Receive, Spreading, Delivers
  <1>3. /\ Head(inbox[c][d]) = i
        /\ \A k \in DOMAIN Tail(inbox[c][d]) : Tail(inbox[c][d])[k] = i
    BY <1>2
  <1>4. /\ slot'[c] = i /\ \A x \in Client \ {c} : slot'[x] = slot[x]
        /\ inbox'[c][d] = Tail(inbox[c][d]) /\ handler'[c][d].at = "called"
        /\ \A x, y \in Client : <<x, y>> # <<c, d>> =>
             inbox'[x][y] = inbox[x][y] /\ handler'[x][y] = handler[x][y]
    BY <1>3 DEF Receive, TypeOK
  <1>5. \A x \in Client : Peers(x)' = Peers(x) /\ Items(x)' = Items(x) /\ (Ticking(x)' <=> Ticking(x))
    BY <1>1, PeersSame DEF Items, Holds, Ticking
  <1>6. \A x, y \in Client : Delivers(x, y, i)'
    <2> SUFFICES ASSUME NEW x \in Client, NEW y \in Client PROVE Delivers(x, y, i)'
      OBVIOUS
    <2>1. CASE <<x, y>> = <<c, d>>
      BY <1>3, <1>4, <2>1 DEF Delivers
    <2>2. CASE <<x, y>> # <<c, d>>
      BY <1>1, <1>4, <1>5, <2>2 DEF Spreading, Delivers
    <2>3. QED
      BY <2>1, <2>2
  <1>7. \A x \in Client : Coming(x) => Coming(x)'
    BY <1>1, <1>4 DEF Coming
  <1>8. QED
    BY <1>1, <1>5, <1>6, <1>7 DEF Spreading

LEMMA SpreadingClear ==
  ASSUME TypeOK, NEW i \in Item, Spreading(i), NEW c \in Client, NEW d \in Client, HandleClear(c, d)
  PROVE  Spreading(i)'
  <1>1. /\ UNCHANGED <<running, tick, copying, wire, inbox, slot>>
        /\ pb' = [pb EXCEPT ![c] = Cleared("plaster")]
    BY DEF HandleClear, session, network
  <1>2. slot[c] = i
    BY DEF HandleClear, Spreading, Delivers
  <1>3. /\ handler'[c][d].at = "paste" /\ handler'[c][d].item = i
        /\ \A x, y \in Client : <<x, y>> # <<c, d>> => handler'[x][y] = handler[x][y]
        /\ \A x \in Client \ {c} : pb'[x] = pb[x] /\ fresh'[x] = fresh[x]
        /\ pb'[c].owner = "plaster"
    BY <1>2 DEF HandleClear, TypeOK, Cleared
  <1>4. Items(c)' = {} /\ \A x \in Client \ {c} : Items(x)' = Items(x)
    <2>1. \A x \in Client : Holds(x)' = IF x = c THEN {} ELSE Holds(x)
      BY <1>1, HoldsCleared
    <2>2. QED
      BY <2>1 DEF Items
  <1>5. \A x \in Client : Peers(x)' = Peers(x) /\ (Ticking(x)' <=> Ticking(x))
    BY <1>1, PeersSame DEF Ticking
  <1>6. \A x, y \in Client : Delivers(x, y, i)'
    <2> SUFFICES ASSUME NEW x \in Client, NEW y \in Client PROVE Delivers(x, y, i)'
      OBVIOUS
    <2>1. CASE x = c
      BY <1>1, <1>3, <1>4, <2>1 DEF Spreading, Delivers
    <2>2. CASE x # c
      BY <1>1, <1>3, <1>4, <2>2 DEF Spreading, Delivers
    <2>3. QED
      BY <2>1, <2>2
  <1>7. \A x \in Client : Ticking(x)' \/ (fresh'[x] /\ Peers(x)' # {}) => Items(x)' \subseteq {i}
    BY <1>3, <1>4, <1>5 DEF Spreading
  <1>8. \A x \in Client : Peers(x)' # {} => Items(x)' = {i} \/ Coming(x)'
    <2>1. Coming(c)'
      BY <1>3 DEF Coming
    <2>2. \A x \in Client \ {c} : Coming(x) => Coming(x)'
      BY <1>1, <1>3 DEF Coming
    <2>3. QED
      BY <1>4, <1>5, <2>1, <2>2 DEF Spreading
  <1>9. QED
    BY <1>1, <1>6, <1>7, <1>8 DEF Spreading

LEMMA SpreadingWrite ==
  ASSUME TypeOK, NEW i \in Item, Spreading(i), NEW c \in Client, NEW d \in Client, HandleWrite(c, d)
  PROVE  Spreading(i)'
  <1> DEFINE e == [item |-> i, peer |-> TRUE]
  <1>1. /\ UNCHANGED <<running, fresh, tick, copying, wire, inbox, slot>>
        /\ handler' = [handler EXCEPT ![c][d] = Unused]
    BY DEF HandleWrite, session, network
  <1>2. handler[c][d].item = i /\ pb[c].owner = "plaster" /\ Items(c) \subseteq {i}
    BY DEF HandleWrite, Spreading, Delivers
  <1>3. pb' = [pb EXCEPT ![c] = Written(@, "plaster", e)]
    BY <1>2 DEF HandleWrite
  <1>4. e \in Entry /\ e.item = i
    BY DEF Entry
  <1> HIDE DEF e
  <1>5. pb[c] \in Pasteboard /\ pb'[c] = Written(pb[c], "plaster", e)
        /\ \A x \in Client \ {c} : pb'[x] = pb[x]
    BY <1>3 DEF TypeOK
  <1>6. pb'[c].owner = "plaster" /\ e \in Holds(c)'
    BY <1>2, <1>4, <1>5, WrittenByOwner, WrittenKeepsOwner DEF Holds
  <1>7. Holds(c)' \subseteq Holds(c) \cup {e} /\ \A x \in Client \ {c} : Holds(x)' = Holds(x)
    BY <1>3, <1>4, HoldsWritten
  <1>8. Items(c)' = {i} /\ \A x \in Client \ {c} : Items(x)' = Items(x)
    BY <1>2, <1>4, <1>6, <1>7 DEF Items
  <1>9. /\ handler'[c][d].at = "none"
        /\ \A x, y \in Client : <<x, y>> # <<c, d>> => handler'[x][y] = handler[x][y]
    BY <1>1 DEF TypeOK, Unused
  <1>10. \A x \in Client : Peers(x)' = Peers(x) /\ (Ticking(x)' <=> Ticking(x))
    BY <1>1, PeersSame DEF Ticking
  <1>11. \A x, y \in Client : Delivers(x, y, i)'
    <2> SUFFICES ASSUME NEW x \in Client, NEW y \in Client PROVE Delivers(x, y, i)'
      OBVIOUS
    <2>1. CASE x = c
      BY <1>1, <1>6, <1>8, <1>9, <2>1 DEF Spreading, Delivers
    <2>2. CASE x # c
      BY <1>1, <1>5, <1>8, <1>9, <2>2 DEF Spreading, Delivers
    <2>3. QED
      BY <2>1, <2>2
  <1>12. \A x \in Client : Peers(x)' # {} => Items(x)' = {i} \/ Coming(x)'
    <2>1. \A x \in Client \ {c} : Coming(x) => Coming(x)'
      BY <1>1, <1>9 DEF Coming
    <2>2. QED
      BY <1>8, <1>10, <2>1 DEF Spreading
  <1>13. QED
    BY <1>1, <1>8, <1>10, <1>11, <1>12 DEF Spreading

-----------------------------------------------------------------------------

\* The steps that are no user's beginning.
Works ==
  \/ Server
  \/ \E c \in Client : CopyWrite(c) \/ Monitor(c)
  \/ \E c, d \in Client : Handle(c, d)

\* They leave the session alone once it is undisturbed, and name no other item.
LEMMA WorksFrame ==
  ASSUME Undisturbed, Works
  PROVE  UNCHANGED <<running, started, hears>> /\ latest' \in {latest, None}
  <1> USE DEF session, network, handling, history
  <1>1. ASSUME NEW m \in wire, ServerPublish(m)
        PROVE  UNCHANGED <<running, started, hears>> /\ latest' \in {latest, None}
    BY <1>1 DEF ServerPublish
  <1>2. \A c \in Client : ~FirstTick(c) /\ ~ServerUnsubscribe(c)
    BY DEF Undisturbed, FirstTick, MayTick, ServerUnsubscribe
  <1>3. ASSUME NEW c \in Client, CopyWrite(c) \/ TickCount(c)
        PROVE  UNCHANGED <<running, started, hears>> /\ latest' \in {latest, None}
    BY <1>3 DEF CopyWrite, TickCount
  <1>4. ASSUME NEW c \in Client, NEW t \in Timer, TickLook(c, t) \/ TickRead(c, t)
        PROVE  UNCHANGED <<running, started, hears>> /\ latest' \in {latest, None}
    BY <1>4 DEF TickLook, TickRead
  <1>5. ASSUME NEW c \in Client, NEW d \in Client, Handle(c, d)
        PROVE  UNCHANGED <<running, started, hears>> /\ latest' \in {latest, None}
    BY <1>5 DEF Handle, Receive, HandleClear, HandleWrite
  <1>6. QED
    BY <1>1, <1>2, <1>3, <1>4, <1>5 DEF Works, Server, Monitor

LEMMA AnnouncingStep ==
  ASSUME TypeOK, Undisturbed, NEW i \in Item, NEW o \in Client, Announcing(o, i), Works,
         latest' # None
  PROVE  Announcing(o, i)' \/ Spreading(i)'
  <1>1. CASE \E c \in Client : CopyWrite(c)
    BY <1>1, AnnouncingWrite
  <1>2. CASE \E c \in Client : TickCount(c)
    BY <1>2, AnnouncingCount
  <1>3. CASE \E c \in Client, t \in Timer : TickLook(c, t)
    BY <1>3, AnnouncingLook
  <1>4. CASE \E c \in Client, t \in Timer : TickRead(c, t)
    BY <1>4, AnnouncingRead
  <1>5. QED
    BY <1>1, <1>2, <1>3, <1>4, AnnouncingAlone DEF Works, Server, Monitor

LEMMA SpreadingStep ==
  ASSUME TypeOK, Undisturbed, NEW i \in Item, Spreading(i), Works
  PROVE  Spreading(i)'
  <1>1. CASE \E c \in Client : TickCount(c)
    BY <1>1, SpreadingCount
  <1>2. CASE \E c \in Client, t \in Timer : TickLook(c, t) \/ TickRead(c, t)
    BY <1>2, SpreadingLook, SpreadingRead
  <1>3. CASE \E m \in wire : ServerPublish(m)
    BY <1>3, SpreadingPublish
  <1>4. CASE \E c, d \in Client : Handle(c, d)
    BY <1>4, SpreadingReceive, SpreadingClear, SpreadingWrite DEF Handle
  <1>5. QED
    BY <1>1, <1>2, <1>3, <1>4, SpreadingCalm DEF Works, Server, Monitor

LEMMA AgreeInvStep ==
  ASSUME Haste = FALSE, TypeOK, AgreeInv, [Next]_vars
  PROVE  AgreeInv'
  <1>1. ASSUME NEW c \in Client, CopyClear(c) PROVE AgreeInv'
    <2>1. CASE running[c]
      <3>1. PICK i \in Nat : i = copies + 1
        BY DEF TypeOK
      <3>2. latest' = i /\ Undisturbed'
        BY <1>1, <2>1, <3>1, CopyAnnounces
      <3>3. (\E x \in Client : Peers(x)' # {}) => Announcing(c, i)'
        BY <1>1, <2>1, <3>1, CopyAnnounces
      <3>4. QED
        BY <3>2, <3>3, AgreesAbout
    <2>2. CASE ~running[c]
      BY <1>1, <2>2 DEF CopyClear, AgreeInv
    <2>3. QED
      BY <2>1, <2>2
  <1>2. ASSUME NEW c \in Client, Start(c) \/ Stop(c) PROVE AgreeInv'
    BY <1>2 DEF Start, Stop, AgreeInv
  <1>3. CASE Works
    <2> SUFFICES ASSUME latest' # None PROVE AgreeInv'
      BY DEF AgreeInv
    <2>1. latest # None
      BY <1>3, WorksFrame DEF AgreeInv, Works, Server, Monitor, Handle, ServerPublish,
        ServerUnsubscribe, CopyWrite, FirstTick, TickCount, TickLook, TickRead, Receive,
        HandleClear, HandleWrite, history
    <2>2. PICK i \in Item : i = latest
      BY <2>1 DEF TypeOK
    <2>3. Undisturbed
      BY <2>1 DEF AgreeInv
    <2>4. latest' = i /\ UNCHANGED <<running, started, hears>>
      BY <1>3, <2>2, <2>3, WorksFrame
    <2>5. Undisturbed' /\ \A x \in Client : Peers(x)' = Peers(x)
      BY <2>3, <2>4, UndisturbedKept, PeersSame
    <2>6. ASSUME NEW x \in Client, Peers(x)' # {}
          PROVE  (\E o \in Client : Announcing(o, i)') \/ Spreading(i)'
      <3>1. (\E o \in Client : Announcing(o, i)) \/ Spreading(i)
        BY <2>1, <2>2, <2>5, <2>6 DEF AgreeInv
      <3>2. QED
        BY <1>3, <2>3, <3>1, AnnouncingStep, SpreadingStep
    <2>7. QED
      BY <2>4, <2>5, <2>6, AgreesAbout
  <1>4. CASE UNCHANGED vars
    <2> SUFFICES ASSUME latest # None PROVE AgreeInv'
      BY <1>4 DEF vars, history, AgreeInv
    <2> USE DEF vars, session, network, handling, history
    <2>1. PICK i : i = latest
      OBVIOUS
    <2>2. /\ UNCHANGED <<running, started, hears>> /\ latest' = i
          /\ UNCHANGED <<pb, fresh, copying, wire, inbox, handler, slot>>
      BY <1>4, <2>1
    <2>3. \A x \in Client : /\ Peers(x)' = Peers(x) /\ Items(x)' = Items(x)
                            /\ Ticking(x)' <=> Ticking(x)
      BY <1>4, PeersSame DEF Items, Holds, Ticking
    <2>4. \A o \in Client : Announcing(o, i) => Announcing(o, i)'
      BY <2>2, <2>3 DEF Announcing
    <2>5. Spreading(i) => Spreading(i)'
      BY <2>2, <2>3 DEF Spreading, Delivers, Coming
    <2>6. Undisturbed'
      BY <2>2, UndisturbedKept DEF AgreeInv
    <2>7. QED
      BY <2>1, <2>2, <2>3, <2>4, <2>5, <2>6, AgreesAbout DEF AgreeInv
  <1>5. QED
    BY <1>1, <1>2, <1>3, <1>4 DEF Next, User, Works

LEMMA AgreeInvariant == ASSUME Haste = FALSE PROVE Spec => []AgreeInv
  <1>1. Init => AgreeInv
    BY DEF Init, AgreeInv
  <1>2. AgreeInv /\ TypeOK /\ [Next]_vars => AgreeInv'
    BY AgreeInvStep
  <1>3. QED
    BY <1>1, <1>2, TypeCorrect, PTL DEF Spec

\* When all is done, what was announced has been published and has arrived.
LEMMA SettledClipboardsAgree ==
  ASSUME AgreeInv
  PROVE  ClipboardsAgree
  <1> SUFFICES ASSUME Settled, latest # None, NEW c \in Client, running[c], Peers(c) # {}
               PROVE  Items(c) = {latest}
    BY DEF ClipboardsAgree, Items
  <1>1. \A o \in Client : ~Announcing(o, latest)
    BY DEF Settled, Announcing
  <1>2. ~Coming(c)
    BY DEF Settled, Coming, Unused
  <1>3. QED
    BY <1>1, <1>2 DEF AgreeInv, Spreading

\* As long as users act only when nothing is under way, a copy ends on every
\* clipboard of the session and replaces what was there, although a paste that
\* falls into a tick is published once more by its receiver.
THEOREM ClipboardsAgreeWhenCalm ==
  ASSUME Haste = FALSE
  PROVE  Spec => []ClipboardsAgree
  <1>1. AgreeInv => ClipboardsAgree
    BY SettledClipboardsAgree
  <1>2. QED
    BY <1>1, AgreeInvariant, PTL

=============================================================================
