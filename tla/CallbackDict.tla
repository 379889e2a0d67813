---------------------------- MODULE CallbackDict ----------------------------
(***************************************************************************)
(* The hash table of dict.c, as async.c uses it: the channels a connection *)
(* is subscribed to.  All of them have the same callback, so an entry is   *)
(* its key.  A slot is its chain, the entry at its head first.             *)
(***************************************************************************)
EXTENDS Naturals, Sequences, SequencesExt

CONSTANTS
  Hash,                 \* the hash of a channel
  DICT_HT_INITIAL_SIZE  \* the slots of the first table, a power of two

ASSUME DictAssumption == DICT_HT_INITIAL_SIZE \in Nat \ {0}

Dict(table, used) == [table |-> table, used |-> used]

\* The number of slots: slot h is table[h + 1].
Size(ht) == Len(ht.table)

EmptyDict == Dict(<<>>, 0)

\* The entries in the order in which an iterator visits them.
Entries(ht) == FlattenSeq(ht.table)

Keys(ht) == ToSet(Entries(ht))

Slot(ht, key) == (Hash[key] % Size(ht)) + 1

-----------------------------------------------------------------------------

\* Every entry is moved to the head of its new chain, in the order of the old table.
dictExpand(ht, size) ==
  Dict([h \in 1..size |->
          Reverse(SelectSeq(Entries(ht), LAMBDA key : Hash[key] % size = h - 1))], ht.used)

Expanded(ht) ==
  CASE Size(ht) = 0 -> dictExpand(ht, DICT_HT_INITIAL_SIZE)
    [] Size(ht) > 0 /\ ht.used = Size(ht) -> dictExpand(ht, 2 * Size(ht))
    [] OTHER -> ht

dictFind(ht, key) == Size(ht) > 0 /\ Contains(ht.table[Slot(ht, key)], key)

\* dictReplace tries dictAdd, which expands the table before it looks for the
\* key; to replace a callback by the same one changes nothing.
dictReplace(ht, key) ==
  LET n == Expanded(ht) IN
  IF dictFind(n, key) THEN n
  ELSE Dict([n.table EXCEPT ![Slot(n, key)] = <<key>> \o @], n.used + 1)

dictDelete(ht, key) ==
  IF ~dictFind(ht, key) THEN ht
  ELSE Dict([ht.table EXCEPT ![Slot(ht, key)] = Remove(@, key)], ht.used - 1)

=============================================================================
