--------------------------- MODULE SessionRoster ----------------------------
(***************************************************************************)
(* What the registry of a session promises, without the protocol that      *)
(* keeps it: joining, leaving and cleaning up are single steps.  The       *)
(* roster lists everyone present, and is gone with the last entry.         *)
(***************************************************************************)
CONSTANTS
  Device,   \* who may take part
  Item,     \* the entries of a roster
  Owner(_), \* the device of an entry
  Gone      \* there is no roster

VARIABLES
  roster,   \* the entries listed, or Gone
  present   \* the entries of the devices that are in the session

rosterVars == <<roster, present>>

Listed == IF roster = Gone THEN {} ELSE roster

\* An empty roster is deleted, never left behind empty.
Keep(s) == IF s = {} THEN Gone ELSE s

RosterInit == roster = Gone /\ present = {}

Join(e) ==
  /\ \A p \in present : Owner(p) # Owner(e)
  /\ present' = present \cup {e}
  /\ roster' = Listed \cup {e}

Leave(e) ==
  /\ e \in present
  /\ present' = present \ {e}
  /\ roster' = Keep(Listed \ {e})

\* A device disappears and leaves its entry behind.
Vanish(e) ==
  /\ e \in present
  /\ present' = present \ {e}
  /\ UNCHANGED roster

\* A device that came back removes what it left behind.
Purge(d) ==
  /\ \A p \in present : Owner(p) # d
  /\ roster' = Keep({e \in Listed : Owner(e) # d})
  /\ UNCHANGED present

RosterNext ==
  \/ \E e \in Item : Join(e) \/ Leave(e) \/ Vanish(e)
  \/ \E d \in Device : Purge(d)

RosterSpec == RosterInit /\ [][RosterNext]_rosterVars

=============================================================================
