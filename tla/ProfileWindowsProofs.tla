------------------------ MODULE ProfileWindowsProofs ------------------------
(***************************************************************************)
(* Proofs about ProfileWindows, for any number of sessions, starts, edits  *)
(* and openings of the window, whatever is stored at launch and in         *)
(* whatever order a dictionary lists its keys.                             *)
(***************************************************************************)
EXTENDS ProfileWindows, SequenceTheorems, TLAPS

USE SavedAssumption, BoundsAssumption, NoKeyAssumption
USE DEF window_vars, menu_vars, past, bounds

-----------------------------------------------------------------------------

(***************************************************************************)
(* Lists without one of their elements, and the rows of a dictionary.      *)
(***************************************************************************)

LEMMA RemoveAtElements ==
  ASSUME NEW S, NEW s \in Seq(S), NEW i \in 1 .. Len(s)
  PROVE  /\ RemoveAt(s, i) \in Seq(S)
         /\ Len(RemoveAt(s, i)) = Len(s) - 1
         /\ \A j \in 1 .. Len(s) - 1 : RemoveAt(s, i)[j] = s[IF j < i THEN j ELSE j + 1]
  <1> DEFINE before == SubSeq(s, 1, i - 1)
             after  == SubSeq(s, i + 1, Len(s))
  <1>1. Len(s) \in Nat /\ i \in Nat
    OBVIOUS
  <1>2. /\ before \in Seq(S) /\ Len(before) = i - 1
        /\ \A j \in 1 .. i - 1 : before[j] = s[j]
    BY <1>1, SubSeqProperties
  <1>3. /\ after \in Seq(S) /\ Len(after) = Len(s) - i
        /\ \A j \in 1 .. Len(s) - i : after[j] = s[i + j]
    BY <1>1
  <1> HIDE DEF before, after
  <1>4. /\ before \o after \in Seq(S)
        /\ Len(before \o after) = Len(before) + Len(after)
        /\ \A j \in 1 .. Len(before) + Len(after) :
             (before \o after)[j] = IF j <= Len(before) THEN before[j] ELSE after[j - Len(before)]
    BY <1>2, <1>3, ConcatProperties
  <1>5. RemoveAt(s, i) = before \o after
    BY DEF RemoveAt, before, after
  <1>6. ASSUME NEW j \in 1 .. Len(s) - 1
        PROVE  (before \o after)[j] = s[IF j < i THEN j ELSE j + 1]
    <2>1. CASE j < i
      BY <1>1, <1>2, <1>3, <1>4, <2>1
    <2>2. CASE ~(j < i)
      <3>1. (before \o after)[j] = after[j - (i - 1)]
        BY <1>1, <1>2, <1>3, <1>4, <2>2
      <3>2. j - (i - 1) \in 1 .. Len(s) - i
        BY <1>1, <2>2
      <3>3. after[j - (i - 1)] = s[i + (j - (i - 1))] /\ i + (j - (i - 1)) = j + 1
        BY <1>1, <1>3, <3>2
      <3>4. QED
        BY <2>2, <3>1, <3>3
    <2>3. QED
      BY <2>1, <2>2
  <1>7. Len(before \o after) = Len(s) - 1
    BY <1>1, <1>2, <1>3, <1>4
  <1>8. QED
    BY <1>4, <1>5, <1>6, <1>7, Zenon

\* A list that names nothing twice loses just what is removed from it.
LEMMA RemoveAtSet ==
  ASSUME NEW S, NEW s \in Seq(S), NEW i \in 1 .. Len(s), IsInjective(s)
  PROVE  /\ ToSet(RemoveAt(s, i)) = ToSet(s) \ {s[i]}
         /\ IsInjective(RemoveAt(s, i))
  <1> DEFINE t == RemoveAt(s, i)
             from(j) == IF j < i THEN j ELSE j + 1
  <1>1. /\ Len(s) \in Nat /\ i \in Nat
        /\ DOMAIN s = 1 .. Len(s) /\ DOMAIN t = 1 .. Len(s) - 1
        /\ \A j \in DOMAIN t : t[j] = s[from(j)]
    <2>1. /\ t \in Seq(S) /\ Len(t) = Len(s) - 1
          /\ \A j \in 1 .. Len(s) - 1 : t[j] = s[from(j)]
      BY RemoveAtElements, Zenon
    <2>2. DOMAIN t = 1 .. Len(t) /\ DOMAIN s = 1 .. Len(s) /\ Len(s) \in Nat
      BY <2>1, LenProperties, Zenon
    <2>3. QED
      BY <2>1, <2>2
  <1>2. \A a, b \in DOMAIN s : s[a] = s[b] => a = b
    BY DEF IsInjective
  <1>3. \A j \in DOMAIN t : from(j) \in DOMAIN s \ {i}
    BY <1>1
  <1>4. \A a \in DOMAIN s \ {i} : \E j \in DOMAIN t : from(j) = a
    <2> SUFFICES ASSUME NEW a \in DOMAIN s, a # i PROVE \E j \in DOMAIN t : from(j) = a
      OBVIOUS
    <2>1. CASE a < i
      <3>1. a \in DOMAIN t /\ from(a) = a
        BY <1>1, <2>1
      <3>2. QED
        BY <3>1
    <2>2. CASE ~(a < i)
      <3>1. a - 1 \in DOMAIN t /\ from(a - 1) = a
        BY <1>1, <2>2
      <3>2. QED
        BY <3>1
    <2>3. QED
      BY <2>1, <2>2
  <1>5. \A a, b \in DOMAIN t : from(a) = from(b) => a = b
    BY <1>1
  <1> HIDE DEF t, from
  <1>6. IsInjective(t)
    BY <1>1, <1>2, <1>3, <1>5 DEF IsInjective
  <1>7. ToSet(t) \subseteq ToSet(s) \ {s[i]}
    BY <1>1, <1>2, <1>3 DEF ToSet
  <1>8. ToSet(s) \ {s[i]} \subseteq ToSet(t)
    BY <1>1, <1>4 DEF ToSet
  <1>9. QED
    BY <1>6, <1>7, <1>8 DEF t

\* The rows of the window are the keys of the dictionary, each once.
LEMMA RowsOfADictionary ==
  ASSUME NEW d \in Dictionary
  PROVE  /\ RowsOf(d) \in Seq(Keys) /\ IsInjective(RowsOf(d))
         /\ ToSet(RowsOf(d)) = DOMAIN d /\ DOMAIN d \subseteq Keys
         /\ \A k \in DOMAIN d : d[k] \in Profile
  BY OrderAssumption DEF Dictionary, RowsOf

-----------------------------------------------------------------------------

(***************************************************************************)
(* Type correctness.  The window needs more than its types: what follows   *)
(* from the order of its events.                                           *)
(***************************************************************************)

\* The window's table names no session twice and always has a selected row if it has
\* rows; the view then shows a profile, and holds it while the window is open.
WindowOK ==
  /\ window \in {"none", "closed", "behind", "key"}
  /\ rows \in Seq(Keys) /\ IsInjective(rows)
  /\ configs \in Seq(Profile) /\ Len(configs) = Len(rows)
  /\ profiles \in [ToSet(rows) -> Profile]
  /\ row \in 0 .. Len(rows) /\ (row = 0 => rows = <<>>)
  /\ view \in Held \cup {NoView} /\ (row # 0 => view \in Held)
  /\ row # 0 /\ window \in {"behind", "key"} => view.retained # 0
  /\ window = "none" => row = 0 /\ view = NoView

\* Only a session that was started can be saved, and it has a key.
MenuOK ==
  /\ key \in Keys \cup {NoKey}
  /\ session \in [key : Keys, profile : Profile] \cup {NoSession}
  /\ {running, saveAs, joining, naming} \subseteq BOOLEAN
  /\ fresh \in Keys \cup {NoKey}
  /\ saveAs \/ naming \/ running => session # NoSession
  /\ session # NoSession \/ fresh # NoKey => key # NoKey

PastOK ==
  /\ stored \in Dictionary
  /\ faulty \in BOOLEAN /\ mixed \subseteq Causes
  /\ deleted \subseteq Keys /\ promised \subseteq Keys
  /\ starts \in 0 .. MaxStarts /\ edits \in 0 .. MaxEdits /\ visits \in 0 .. MaxVisits

AllOK == WindowOK /\ MenuOK /\ PastOK

LEMMA AllOKImpliesTypeOK == AllOK => TypeOK
  BY DEF AllOK, WindowOK, MenuOK, PastOK, TypeOK

LEMMA UntitledIsTyped ==
  ASSUME NEW k \in Keys
  PROVE  Untitled(k) \in Profile
  BY DEF Untitled, Profile, Stamp

\* A dictionary is a function from a set of keys to profiles.
LEMMA DictionaryIs ==
  ASSUME NEW S \in SUBSET Keys, NEW d \in [S -> Profile]
  PROVE  d \in Dictionary
  BY DEF Dictionary

LEMMA InitIsTyped == Init => AllOK
  <1> SUFFICES ASSUME Init PROVE AllOK
    OBVIOUS
  <1>1. WindowOK
    <2>1. /\ <<>> \in Seq(Keys) /\ <<>> \in Seq(Profile) /\ Len(<<>>) = 0
          /\ IsInjective(<<>>) /\ ToSet(<<>>) = {}
      BY DEF IsInjective, ToSet
    <2>2. <<>> \in [{} -> Profile]
      OBVIOUS
    <2>3. QED
      BY <2>1, <2>2 DEF Init, WindowOK
  <1>2. MenuOK
    BY DEF Init, MenuOK, NoSession
  <1>3. PastOK
    <2>1. stored \in [Saved -> Profile]
      BY UntitledIsTyped DEF Init
    <2>2. stored \in Dictionary
      BY <2>1, DictionaryIs
    <2>3. 0 \in 0 .. MaxStarts /\ 0 \in 0 .. MaxEdits /\ 0 \in 0 .. MaxVisits
      OBVIOUS
    <2>4. /\ faulty = FALSE /\ mixed = {} /\ deleted = {} /\ promised = Saved
          /\ starts = 0 /\ edits = 0 /\ visits = 0
      BY DEF Init
    <2>5. QED
      BY <2>2, <2>3, <2>4 DEF PastOK
  <1>4. QED
    BY <1>1, <1>2, <1>3 DEF AllOK

\* What the view hands out is a profile, and what it is configured with it shows.
LEMMA ViewsAreTyped ==
  /\ \A v \in Held : Handed(v) \in Profile
  /\ \A p \in Profile, n \in {1, 2} :
       Configured(p, n) \in Held /\ Configured(p, n).retained = n
  <1>1. \A v \in Held : Handed(v) \in Profile
    BY DEF Handed, Held, Profile
  <1>2. ASSUME NEW p \in Profile, NEW n \in {1, 2}
        PROVE  Configured(p, n) \in Held /\ Configured(p, n).retained = n
    <2>1. p.settings \in Stamp /\ p.name \in Stamp /\ n \in 0 .. 2
      BY DEF Profile
    <2>2. QED
      BY <2>1 DEF Configured, Held
  <1>3. QED
    BY <1>1, <1>2

\* The row that is selected after the table was filled anew.
LEMMA ReselectIsTyped ==
  ASSUME NEW n \in Nat, row \in Nat, Reselect(n)
  PROVE  row' \in 0 .. n /\ (row' = 0 => n = 0)
  BY DEF Reselect

\* The view follows the selected row.
LEMMA ViewFollowsRow ==
  ASSUME configs' \in Seq(Profile), row' \in 0 .. Len(configs'),
         NEW v, ConfigureWithRow(v)
  PROVE  /\ row' = 0 => view' = v
         /\ row' # 0 => \E n \in {1, 2} : view' = Configured(configs'[row'], n)
  BY DEF ConfigureWithRow

\* Filling the window leaves it well-formed, and with the keys of the dictionary.
LEMMA ReloadIsTyped ==
  ASSUME WindowOK, PastOK, NEW d \in Dictionary, NEW v \in Held \cup {NoView},
         row # 0 => v \in Held, ReloadAndConfigure(d, v)
  PROVE  /\ WindowOK'
         /\ window' = "key" /\ rows' = RowsOf(d) /\ ToSet(rows') = DOMAIN d
         /\ \A i \in DOMAIN rows' : configs'[i] = profiles'[rows'[i]]
         /\ faulty' \in BOOLEAN /\ deleted' = {} /\ visits' \in 0 .. MaxVisits
  <1> DEFINE capture == v.held /\ row \in 1 .. Len(RowsOf(d))
             owner   == IF capture THEN {RowsOf(d)[row]} ELSE {}
  <1>1. /\ rows' = RowsOf(d) /\ window' = "key" /\ deleted' = {}
        /\ faulty' = (capture /\ v.retained = 0)
        /\ visits < MaxVisits /\ visits' = visits + 1
        /\ profiles' = [k \in DOMAIN d |-> IF k \in owner THEN Handed(v) ELSE d[k]]
        /\ configs' = [i \in DOMAIN rows' |-> profiles'[rows'[i]]]
        /\ Reselect(Len(rows'))
        /\ ConfigureWithRow(v)
    BY DEF ReloadAndConfigure
  <1>2. /\ rows' \in Seq(Keys) /\ IsInjective(rows') /\ ToSet(rows') = DOMAIN d
        /\ \A k \in DOMAIN d : d[k] \in Profile
    BY <1>1, RowsOfADictionary
  <1>3. \A k \in owner : Handed(v) \in Profile
    BY ViewsAreTyped DEF WindowOK
  <1> HIDE DEF owner, capture
  <1>4. profiles' \in [ToSet(rows') -> Profile]
    BY <1>1, <1>2, <1>3
  <1>5. \A i \in DOMAIN rows' : rows'[i] \in ToSet(rows')
    BY DEF ToSet
  <1>6. DOMAIN rows' = 1 .. Len(rows') /\ Len(rows') \in Nat
    BY <1>2
  <1>7. configs' \in [1 .. Len(rows') -> Profile]
    BY <1>1, <1>4, <1>5, <1>6
  <1>8. configs' \in Seq(Profile) /\ Len(configs') = Len(rows')
    BY <1>6, <1>7
  <1>9. row' \in 0 .. Len(rows') /\ (row' = 0 => rows' = <<>>)
    <2>1. row' \in 0 .. Len(rows') /\ (row' = 0 => Len(rows') = 0)
      BY <1>1, <1>6, ReselectIsTyped DEF WindowOK
    <2>2. QED
      BY <1>2, <2>1, EmptySeq
  <1>10. /\ view' \in Held \cup {NoView}
         /\ row' # 0 => view' \in Held /\ view'.retained # 0
    <2>1. CASE row' = 0
      BY <1>1, <1>8, <1>9, <2>1, ViewFollowsRow
    <2>2. CASE row' # 0
      <3>1. PICK n \in {1, 2} : view' = Configured(configs'[row'], n)
        BY <1>1, <1>8, <1>9, <2>2, ViewFollowsRow
      <3>2. configs'[row'] \in Profile
        BY <1>7, <1>9, <2>2
      <3>3. QED
        BY <3>1, <3>2, ViewsAreTyped
    <2>3. QED
      BY <2>1, <2>2
  <1>11. \A i \in DOMAIN rows' : configs'[i] = profiles'[rows'[i]]
    BY <1>1
  <1>12. faulty' \in BOOLEAN
    BY <1>1 DEF capture
  <1>13. visits' \in 0 .. MaxVisits
    BY <1>1 DEF PastOK
  <1>14. WindowOK'
    BY <1>1, <1>2, <1>4, <1>8, <1>9, <1>10 DEF WindowOK
  <1>15. QED
    BY <1>1, <1>2, <1>11, <1>12, <1>13, <1>14

\* A row's profile can be replaced: the table still has a profile for each row.
LEMMA ReplacedIsTyped ==
  ASSUME WindowOK, NEW r \in DOMAIN rows, NEW p \in Profile
  PROVE  /\ r \in 1 .. Len(rows) /\ r \in DOMAIN configs
         /\ rows[r] \in Keys /\ rows[r] \in DOMAIN profiles
         /\ [configs EXCEPT ![r] = p] \in Seq(Profile)
         /\ Len([configs EXCEPT ![r] = p]) = Len(rows)
         /\ [profiles EXCEPT ![rows[r]] = p] \in [ToSet(rows) -> Profile]
  <1>1. r \in 1 .. Len(rows) /\ r \in DOMAIN configs /\ rows[r] \in Keys
    BY DEF WindowOK
  <1>2. rows[r] \in ToSet(rows)
    BY DEF ToSet
  <1>3. [configs EXCEPT ![r] = p] \in Seq(Profile) /\ Len([configs EXCEPT ![r] = p]) = Len(rows)
    BY <1>1, ExceptSeq DEF WindowOK
  <1>4. QED
    BY <1>1, <1>2, <1>3 DEF WindowOK

\* What the view shows can be registered with the selected row.
LEMMA RegisteredIsTyped ==
  ASSUME WindowOK, row # 0, RegisterConfiguration(row)
  PROVE  /\ row \in DOMAIN rows /\ Handed(view) \in Profile
         /\ configs' \in Seq(Profile) /\ Len(configs') = Len(rows)
         /\ profiles' \in [ToSet(rows) -> Profile]
  <1>1. row \in DOMAIN rows /\ view \in Held
    BY DEF WindowOK
  <1>2. Handed(view) \in Profile
    BY <1>1, ViewsAreTyped
  <1>3. QED
    BY <1>1, <1>2, ReplacedIsTyped DEF RegisterConfiguration

\* An edited view is a view that holds what it held.
LEMMA EditedIsTyped ==
  ASSUME WindowOK, row # 0, NEW e \in 0 .. MaxEdits
  PROVE  LET v == [view EXCEPT !.fields = [for |-> rows[row], edit |-> e]]
         IN  v \in Held /\ v.retained = view.retained /\ v.held
               /\ v.fields.for = rows[row] /\ v.name = view.name
  <1>1. view \in Held /\ row \in DOMAIN rows
    BY DEF WindowOK
  <1>2. [for |-> rows[row], edit |-> e] \in Stamp
    BY <1>1 DEF WindowOK, Stamp
  <1>3. QED
    BY <1>1, <1>2 DEF Held

LEMMA PreferencesAreTyped ==
  ASSUME AllOK, ~faulty, Preferences
  PROVE  AllOK'
  <1> USE DEF AllOK
  <1>1. ASSUME NEW v \in Held \cup {NoView}, row # 0 => v \in Held,
               ReloadAndConfigure(stored, v), mixed' = mixed \cup Moved(stored),
               edits' \in 0 .. MaxEdits,
               UNCHANGED <<stored, menu_vars, promised, starts>>
        PROVE  AllOK'
    <2>1. WindowOK' /\ faulty' \in BOOLEAN /\ deleted' = {} /\ visits' \in 0 .. MaxVisits
      BY <1>1, ReloadIsTyped DEF PastOK
    <2>2. MenuOK'
      BY <1>1 DEF MenuOK
    <2>3. Moved(stored) \subseteq Causes
      BY DEF Moved, Causes
    <2>4. PastOK'
      BY <1>1, <2>1, <2>3 DEF PastOK
    <2>5. QED
      BY <2>1, <2>2, <2>4
  <1>2. ASSUME ShowPreferences PROVE AllOK'
    BY <1>1, <1>2 DEF ShowPreferences, WindowOK, PastOK
  <1>3. ASSUME LoseKey PROVE AllOK'
    BY <1>3 DEF LoseKey, WindowOK, MenuOK, PastOK
  <1>4. ASSUME WindowDidBecomeKey PROVE AllOK'
    BY <1>1, <1>4 DEF WindowDidBecomeKey, WindowOK, PastOK
  <1>5. ASSUME EditView PROVE AllOK'
    <2>1. edits' \in 0 .. MaxEdits
      BY <1>5 DEF EditView, PastOK
    <2>2. view' \in Held /\ view'.retained = view.retained
      BY <1>5, <2>1, EditedIsTyped DEF EditView
    <2>3. WindowOK'
      BY <1>5, <2>2 DEF EditView, WindowOK
    <2>4. MenuOK' /\ PastOK'
      BY <1>5, <2>1 DEF EditView, MenuOK, PastOK
    <2>5. QED
      BY <2>3, <2>4
  <1>6. ASSUME Browse PROVE AllOK'
    <2> DEFINE v == [view EXCEPT !.fields = [for |-> rows[row], edit |-> edits']]
    <2>1. edits' \in 0 .. MaxEdits
      BY <1>6 DEF Browse, PastOK
    <2>2. v \in Held
      BY <1>6, <2>1, EditedIsTyped DEF Browse
    <2>3. ReloadAndConfigure(stored, v)
      BY <1>6 DEF Browse
    <2> HIDE DEF v
    <2>4. QED
      BY <1>1, <1>6, <2>1, <2>2, <2>3 DEF Browse
  <1>7. ASSUME NEW r \in DOMAIN rows, Rename(r) PROVE AllOK'
    <2> DEFINE n == [for |-> rows[r], edit |-> edits']
    <2>1. edits' \in 0 .. MaxEdits
      BY <1>7 DEF Rename, PastOK
    <2>2. r \in DOMAIN configs /\ configs[r] \in Profile /\ n \in Stamp
      BY <2>1 DEF WindowOK, Stamp
    <2> HIDE DEF n
    <2>3. [configs[r] EXCEPT !.name = n] \in Profile
      BY <2>2 DEF Profile
    <2>4. /\ configs' = [configs EXCEPT ![r] = [configs[r] EXCEPT !.name = n]]
          /\ profiles' = [profiles EXCEPT ![rows[r]] = configs'[r]]
          /\ view' = IF r = row THEN [view EXCEPT !.name = configs'[r].name] ELSE view
      BY <1>7, <2>2 DEF Rename, n
    <2>5. configs'[r] = [configs[r] EXCEPT !.name = n] /\ configs'[r].name = n
      BY <2>2, <2>3, <2>4 DEF Profile
    <2>6. /\ configs' \in Seq(Profile) /\ Len(configs') = Len(rows)
          /\ profiles' \in [ToSet(rows) -> Profile]
      BY <2>3, <2>4, <2>5, ReplacedIsTyped
    <2>7. \/ view' = view
          \/ row # 0 /\ view' \in Held /\ view'.retained = view.retained
      <3>1. CASE r = row
        <4>1. row # 0 /\ view \in Held
          BY <3>1 DEF WindowOK
        <4>2. view' = [view EXCEPT !.name = n]
          BY <2>4, <2>5, <3>1
        <4>3. QED
          BY <2>2, <4>1, <4>2 DEF Held
      <3>2. CASE r # row
        BY <2>4, <3>2
      <3>3. QED
        BY <3>1, <3>2
    <2>8. WindowOK'
      BY <1>7, <2>6, <2>7 DEF Rename, WindowOK
    <2>9. QED
      BY <1>7, <2>1, <2>8 DEF Rename, MenuOK, PastOK
  <1>8. ASSUME NEW r \in DOMAIN rows, SelectRow(r) PROVE AllOK'
    <2>1. row # 0 /\ r \in 1 .. Len(rows)
      BY DEF WindowOK
    <2>2. /\ configs' \in Seq(Profile) /\ Len(configs') = Len(rows)
          /\ profiles' \in [ToSet(rows) -> Profile]
      BY <1>8, <2>1, RegisteredIsTyped DEF SelectRow
    <2>3. configs'[r] \in Profile
      BY <2>1, <2>2
    <2>4. view' \in Held /\ view'.retained = 1
      BY <1>8, <2>3, ViewsAreTyped DEF SelectRow
    <2>5. WindowOK'
      BY <1>8, <2>1, <2>2, <2>4 DEF SelectRow, WindowOK
    <2>6. QED
      BY <1>8, <2>5 DEF SelectRow, MenuOK, PastOK
  <1>9. ASSUME DeleteProfile PROVE AllOK'
    <2>1. row \in 1 .. Len(rows) /\ Len(rows) \in Nat /\ Len(configs) = Len(rows)
      BY <1>9 DEF DeleteProfile, WindowOK
    <2>2. /\ rows' \in Seq(Keys) /\ IsInjective(rows') /\ Len(rows') = Len(rows) - 1
          /\ ToSet(rows') = ToSet(rows) \ {rows[row]}
      BY <1>9, <2>1, RemoveAtElements, RemoveAtSet DEF DeleteProfile, WindowOK
    <2>3. configs' \in Seq(Profile) /\ Len(configs') = Len(rows')
      BY <1>9, <2>1, <2>2, RemoveAtElements DEF DeleteProfile, WindowOK
    <2>4. profiles' \in [ToSet(rows') -> Profile]
      BY <1>9, <2>2 DEF DeleteProfile, WindowOK
    <2>5. row' \in 0 .. Len(rows') /\ (row' = 0 => rows' = <<>>)
      <3>1. row' \in 0 .. Len(rows') /\ (row' = 0 => Len(rows') = 0)
        BY <1>9, <2>1, <2>2, ReselectIsTyped DEF DeleteProfile
      <3>2. QED
        BY <2>2, <3>1, EmptySeq
    <2>6. view' \in Held /\ (row' # 0 => view'.retained # 0)
      <3>1. ConfigureWithRow(view) /\ view \in Held
        BY <1>9 DEF DeleteProfile, WindowOK
      <3>2. CASE row' = 0
        BY <2>3, <2>5, <3>1, <3>2, ViewFollowsRow
      <3>3. CASE row' # 0
        <4>1. PICK n \in {1, 2} : view' = Configured(configs'[row'], n)
          BY <2>3, <2>5, <3>1, <3>3, ViewFollowsRow
        <4>2. configs'[row'] \in Profile
          BY <2>3, <2>5, <3>3
        <4>3. QED
          BY <4>1, <4>2, ViewsAreTyped
      <3>4. QED
        BY <3>2, <3>3
    <2>7. WindowOK'
      BY <1>9, <2>2, <2>3, <2>4, <2>5, <2>6 DEF DeleteProfile, WindowOK
    <2>8. rows[row] \in Keys
      BY <2>1 DEF WindowOK
    <2>9. QED
      BY <1>9, <2>7, <2>8 DEF DeleteProfile, MenuOK, PastOK
  <1>10. ASSUME CancelPreferences PROVE AllOK'
    BY <1>10 DEF CancelPreferences, WindowOK, MenuOK, PastOK
  <1>11. ASSUME SaveAndClosePreferences PROVE AllOK'
    <2>1. /\ configs' \in Seq(Profile) /\ Len(configs') = Len(rows)
          /\ profiles' \in [ToSet(rows) -> Profile]
      BY <1>11, RegisteredIsTyped DEF SaveAndClosePreferences, WindowOK
    <2>2. view' \in Held \cup {NoView} /\ (row # 0 => view' \in Held)
      <3>1. CASE row = 0
        BY <1>11, <3>1 DEF SaveAndClosePreferences, WindowOK
      <3>2. CASE row # 0
        <4>1. view \in Held /\ view.retained # 0 /\ view' = Released(view)
          BY <1>11, <3>2 DEF SaveAndClosePreferences, WindowOK
        <4>2. view.retained - 1 \in 0 .. 2
          BY <4>1 DEF Held
        <4>3. QED
          BY <4>1, <4>2 DEF Released, Held
      <3>3. QED
        BY <3>1, <3>2
    <2>3. WindowOK'
      BY <1>11, <2>1, <2>2 DEF SaveAndClosePreferences, WindowOK
    <2>4. ToSet(rows) \subseteq Keys
      BY DEF WindowOK, ToSet
    <2>5. stored' \in Dictionary
      BY <1>11, <2>1, <2>4, DictionaryIs DEF SaveAndClosePreferences
    <2>6. MenuOK' /\ PastOK'
      BY <1>11, <2>5 DEF SaveAndClosePreferences, MenuOK, PastOK, Causes
    <2>7. QED
      BY <2>3, <2>6
  <1>12. QED
    BY <1>2, <1>3, <1>4, <1>5, <1>6, <1>7, <1>8, <1>9, <1>10, <1>11 DEF Preferences

\* A session that was started has a key and a profile.
Session == [key : Keys, profile : Profile]

LEMMA SessionIsNotNone == NoSession \notin Session
  BY DEF Session, NoSession

LEMMA StartIsTyped ==
  ASSUME AllOK, NEW k \in Keys, NEW p \in Profile, Start(k, p)
  PROVE  /\ session' \in Session /\ session' = [key |-> k, profile |-> p]
         /\ running' = TRUE /\ saveAs' \in BOOLEAN /\ starts' \in 0 .. MaxStarts
  BY DEF Start, Session, AllOK, PastOK

\* What is stored of a profile that is saved under a name.
LEMMA SavedIsTyped ==
  ASSUME AllOK, SaveProfile
  PROVE  /\ key \in Keys /\ session \in Session /\ edits' \in 0 .. MaxEdits
         /\ \E p \in Profile :
              /\ p.name = [for |-> key, edit |-> edits'] /\ p.settings = session.profile.settings
              /\ stored' = [k \in DOMAIN stored \cup {key} |-> IF k = key THEN p ELSE stored[k]]
              /\ session' = [key |-> session.key, profile |-> p]
         /\ stored' \in Dictionary /\ session' \in Session
  <1> DEFINE n == [for |-> key, edit |-> edits + 1]
             p == [name |-> n, settings |-> session.profile.settings]
  <1>1. key \in Keys /\ session \in Session
    BY DEF SaveProfile, AllOK, MenuOK, Session
  <1>2. edits' = edits + 1 /\ edits' \in 0 .. MaxEdits
    BY DEF SaveProfile, AllOK, PastOK
  <1>3. session.profile \in Profile /\ session.profile.settings \in Stamp
    BY <1>1 DEF Session, Profile
  <1>4. n \in Stamp
    BY <1>1, <1>2 DEF Stamp
  <1>5. /\ stored' = [k \in DOMAIN stored \cup {key} |-> IF k = key THEN p ELSE stored[k]]
        /\ session' = [session EXCEPT !.profile = p]
    BY DEF SaveProfile
  <1> HIDE DEF n
  <1>6. p \in Profile /\ p.name = n /\ p.settings = session.profile.settings
    BY <1>3, <1>4 DEF Profile
  <1> HIDE DEF p
  <1>7. session' = [key |-> session.key, profile |-> p] /\ session' \in Session
    BY <1>1, <1>5, <1>6 DEF Session
  <1>8. DOMAIN stored \subseteq Keys /\ \A k \in DOMAIN stored : stored[k] \in Profile
    BY RowsOfADictionary DEF AllOK, PastOK
  <1>9. stored' \in [DOMAIN stored \cup {key} -> Profile] /\ DOMAIN stored \cup {key} \in SUBSET Keys
    BY <1>1, <1>5, <1>6, <1>8
  <1>10. stored' \in Dictionary
    BY <1>9, DictionaryIs
  <1>11. n = [for |-> key, edit |-> edits']
    BY <1>2 DEF n
  <1>12. QED
    BY <1>1, <1>2, <1>5, <1>6, <1>7, <1>10, <1>11

LEMMA MenuIsTyped ==
  ASSUME AllOK, ~faulty, Menu
  PROVE  AllOK'
  <1> USE DEF AllOK
  <1>1. ASSUME UNCHANGED window_vars PROVE WindowOK'
    BY <1>1 DEF WindowOK
  <1>2. ASSUME NEW k \in Keys, NEW p \in Profile, key' = k, Start(k, p)
        PROVE  \A f \in Keys \cup {NoKey} :
                 joining' \in BOOLEAN /\ naming' \in BOOLEAN /\ fresh' = f => MenuOK'
    BY <1>2, StartIsTyped, SessionIsNotNone DEF MenuOK, Session
  <1>3. ASSUME NEW k \in Keys, StartPlasterWithProfile(k) PROVE AllOK'
    <2>1. stored[k] \in Profile
      BY <1>3, RowsOfADictionary DEF StartPlasterWithProfile, ProfilesMenu, PastOK
    <2>2. MenuOK'
      BY <1>2, <1>3, <2>1 DEF StartPlasterWithProfile, MenuOK
    <2>3. starts' \in 0 .. MaxStarts
      BY <1>3, <2>1, StartIsTyped DEF StartPlasterWithProfile
    <2>4. PastOK'
      BY <1>3, <2>3 DEF StartPlasterWithProfile, PastOK
    <2>5. QED
      BY <1>1, <1>3, <2>2, <2>4 DEF StartPlasterWithProfile
  <1>4. ASSUME Stop PROVE AllOK'
    BY <1>1, <1>4 DEF Stop, MenuOK, PastOK
  <1>5. ASSUME ShowJoinPanel PROVE AllOK'
    BY <1>1, <1>5 DEF ShowJoinPanel, MenuOK, PastOK
  <1>6. ASSUME CancelJoinSession PROVE AllOK'
    BY <1>1, <1>6 DEF CancelJoinSession, MenuOK, PastOK
  <1>7. ASSUME NEW k \in Keys, JoinSession(k) PROVE AllOK'
    <2>1. MenuOK'
      BY <1>2, <1>7, UntitledIsTyped DEF JoinSession, MenuOK
    <2>2. starts' \in 0 .. MaxStarts
      BY <1>7, UntitledIsTyped, StartIsTyped DEF JoinSession
    <2>3. PastOK'
      BY <1>7, <2>2 DEF JoinSession, PastOK
    <2>4. QED
      BY <1>1, <1>7, <2>1, <2>3 DEF JoinSession
  <1>8. ASSUME NEW k \in Keys, FreshSession(k) PROVE AllOK'
    BY <1>1, <1>8 DEF FreshSession, MenuOK, PastOK
  <1>9. ASSUME StartFreshSession PROVE AllOK'
    <2>1. key \in Keys /\ fresh \in Keys
      BY <1>9 DEF StartFreshSession, MenuOK
    <2>2. Untitled(fresh) \in Profile /\ Start(key, Untitled(fresh))
      BY <1>9, <2>1, UntitledIsTyped DEF StartFreshSession
    <2>3. MenuOK'
      BY <1>2, <1>9, <2>1, <2>2 DEF StartFreshSession, MenuOK
    <2>4. starts' \in 0 .. MaxStarts
      BY <2>1, <2>2, StartIsTyped
    <2>5. PastOK'
      BY <1>9, <2>4 DEF StartFreshSession, PastOK, Causes
    <2>6. QED
      BY <1>1, <1>9, <2>3, <2>5 DEF StartFreshSession
  <1>10. ASSUME ShowSavePanel PROVE AllOK'
    BY <1>1, <1>10 DEF ShowSavePanel, MenuOK, PastOK
  <1>11. ASSUME CancelSaveProfile PROVE AllOK'
    BY <1>1, <1>11 DEF CancelSaveProfile, MenuOK, PastOK
  <1>12. ASSUME SaveProfile PROVE AllOK'
    <2>1. /\ key \in Keys /\ stored' \in Dictionary /\ session' \in Session
          /\ edits' \in 0 .. MaxEdits
      BY <1>12, SavedIsTyped
    <2>2. MenuOK'
      BY <1>12, <2>1, SessionIsNotNone DEF SaveProfile, MenuOK, Session
    <2>3. /\ WindowOK' /\ mixed' \subseteq Causes
          /\ faulty' \in BOOLEAN /\ deleted' \subseteq Keys /\ visits' \in 0 .. MaxVisits
      <3> DEFINE panel == IF key # session.key THEN {"panel"} ELSE {}
      <3>1. panel \subseteq Causes /\ Moved(stored) \subseteq Causes /\ "early" \in Causes
        BY DEF Moved, Causes
      <3>2. CASE mixed' = mixed \cup panel /\ UNCHANGED <<window_vars, faulty, deleted, visits>>
        <4>1. WindowOK'
          BY <1>1, <3>2
        <4>2. QED
          BY <3>1, <3>2, <4>1 DEF PastOK
      <3>3. CASE /\ ReloadAndConfigure(stored, view)
                 /\ mixed' = mixed \cup panel \cup Moved(stored) \cup {"early"}
        <4>1. WindowOK' /\ faulty' \in BOOLEAN /\ deleted' = {} /\ visits' \in 0 .. MaxVisits
          BY <3>3, ReloadIsTyped DEF WindowOK, PastOK
        <4>2. QED
          BY <3>1, <3>3, <4>1 DEF PastOK
      <3>4. QED
        BY <1>12, <3>2, <3>3 DEF SaveProfile
    <2>4. PastOK'
      BY <1>12, <2>1, <2>3 DEF SaveProfile, PastOK
    <2>5. QED
      BY <2>2, <2>3, <2>4
  <1>13. QED
    BY <1>3, <1>4, <1>5, <1>6, <1>7, <1>8, <1>9, <1>10, <1>11, <1>12 DEF Menu

LEMMA AllStaysOK == Spec => []AllOK
  <1>1. AllOK /\ [Next]_vars => AllOK'
    <2> SUFFICES ASSUME AllOK, [Next]_vars PROVE AllOK'
      OBVIOUS
    <2>1. ASSUME Next PROVE AllOK'
      BY <2>1, PreferencesAreTyped, MenuIsTyped DEF Next
    <2>2. ASSUME UNCHANGED vars PROVE AllOK'
      BY <2>2 DEF vars, AllOK, WindowOK, MenuOK, PastOK
    <2>3. QED
      BY <2>1, <2>2
  <1>2. QED
    BY <1>1, InitIsTyped, PTL DEF Spec

\* In every reachable state the variables of the delegate and of the preferences window
\* have their types: its table, its configurations and its dictionary name the same
\* sessions.
THEOREM TypeCorrect == Spec => []TypeOK
  BY AllStaysOK, AllOKImpliesTypeOK, PTL

-----------------------------------------------------------------------------

(***************************************************************************)
(* No profile gets lost.  The window replaces the stored dictionary by its *)
(* own, so what matters is what its rows name while it is open: it is      *)
(* filled anew whenever it becomes key, and no profile is saved by the     *)
(* delegate while it is key.                                               *)
(***************************************************************************)

\* Inductive: every profile that was saved and is not deleted in the open window has a row.
Complete ==
  \/ "early" \in mixed
  \/ /\ promised \subseteq DOMAIN stored
     /\ window = "key" => promised \ deleted \subseteq ToSet(rows)

LEMMA PreferencesAreComplete ==
  ASSUME AllOK, Complete, Preferences
  PROVE  Complete'
  <1>1. CASE "early" \in mixed
    BY <1>1 DEF Complete, Preferences, ShowPreferences, LoseKey, WindowDidBecomeKey, EditView,
          Browse, DeleteProfile, Rename, SelectRow, CancelPreferences, SaveAndClosePreferences
  <1>2. CASE "early" \notin mixed
    <2> USE <1>2
    <2>1. ASSUME NEW v \in Held \cup {NoView}, row # 0 => v \in Held,
                 ReloadAndConfigure(stored, v), UNCHANGED <<stored, promised>>
          PROVE  Complete'
      BY <2>1, ReloadIsTyped DEF Complete, AllOK, PastOK
    <2>2. ASSUME ShowPreferences PROVE Complete'
      BY <2>1, <2>2 DEF ShowPreferences, AllOK, WindowOK
    <2>3. ASSUME LoseKey PROVE Complete'
      BY <2>3 DEF LoseKey, Complete
    <2>4. ASSUME WindowDidBecomeKey PROVE Complete'
      BY <2>1, <2>4 DEF WindowDidBecomeKey, AllOK, WindowOK
    <2>5. ASSUME EditView PROVE Complete'
      BY <2>5 DEF EditView, Complete
    <2>6. ASSUME Browse PROVE Complete'
      <3> DEFINE v == [view EXCEPT !.fields = [for |-> rows[row], edit |-> edits']]
      <3>1. edits' \in 0 .. MaxEdits /\ row # 0
        BY <2>6 DEF Browse, AllOK, PastOK
      <3>2. v \in Held
        BY <3>1, EditedIsTyped DEF AllOK
      <3>3. ReloadAndConfigure(stored, v) /\ UNCHANGED <<stored, promised>>
        BY <2>6 DEF Browse
      <3> HIDE DEF v
      <3>4. QED
        BY <2>1, <3>2, <3>3
    <2>7. ASSUME NEW r \in DOMAIN rows, Rename(r) \/ SelectRow(r) PROVE Complete'
      BY <2>7 DEF Rename, SelectRow, Complete
    <2>8. ASSUME DeleteProfile PROVE Complete'
      <3>1. ToSet(rows') = ToSet(rows) \ {rows[row]}
        BY <2>8, RemoveAtSet DEF DeleteProfile, AllOK, WindowOK
      <3>2. QED
        BY <2>8, <3>1 DEF DeleteProfile, Complete
    <2>9. ASSUME CancelPreferences PROVE Complete'
      BY <2>9 DEF CancelPreferences, Complete
    <2>10. ASSUME SaveAndClosePreferences PROVE Complete'
      <3>1. DOMAIN profiles' = ToSet(rows)
        BY <2>10, RegisteredIsTyped DEF SaveAndClosePreferences, AllOK, WindowOK
      <3>2. QED
        BY <2>10, <3>1 DEF SaveAndClosePreferences, Complete
    <2>11. QED
      BY <2>2, <2>3, <2>4, <2>5, <2>6, <2>7, <2>8, <2>9, <2>10 DEF Preferences
  <1>3. QED
    BY <1>1, <1>2

LEMMA MenuIsComplete ==
  ASSUME AllOK, Complete, Menu
  PROVE  Complete'
  <1>1. ASSUME SaveProfile PROVE Complete'
    <2>1. DOMAIN stored' = DOMAIN stored \cup {key} /\ promised' = promised \cup {key}
      BY <1>1 DEF SaveProfile
    <2>2. "early" \in mixed' \/ (UNCHANGED window /\ mixed \subseteq mixed')
      BY <1>1 DEF SaveProfile
    <2>3. window # "key" /\ mixed \subseteq mixed'
      BY <1>1 DEF SaveProfile
    <2>4. QED
      BY <2>1, <2>2, <2>3 DEF Complete
  <1>2. CASE UNCHANGED <<stored, promised, deleted, window_vars>> /\ mixed \subseteq mixed'
    BY <1>2 DEF Complete
  <1>3. QED
    BY <1>1, <1>2 DEF Menu, StartPlasterWithProfile, JoinSession, FreshSession, Stop,
          ShowJoinPanel, CancelJoinSession, StartFreshSession, ShowSavePanel, CancelSaveProfile

\* saveProfile: and saveAndClosePreferences: each replace the dictionary of profiles as a
\* whole: none of them loses a profile that was saved and that its user has not deleted,
\* unless the window became key while a profile was being saved.
THEOREM NoProfileIsLost == Spec => []ProfilesPersist
  <1>1. Init => Complete
    BY DEF Init, Complete
  <1>2. AllOK /\ Complete /\ [Next]_vars => Complete'
    <2> SUFFICES ASSUME AllOK, Complete, [Next]_vars PROVE Complete'
      OBVIOUS
    <2>1. ASSUME Next PROVE Complete'
      BY <2>1, PreferencesAreComplete, MenuIsComplete DEF Next
    <2>2. ASSUME UNCHANGED vars PROVE Complete'
      BY <2>2 DEF vars, Complete
    <2>3. QED
      BY <2>1, <2>2
  <1>3. Complete => ProfilesPersist
    BY DEF Complete, ProfilesPersist
  <1>4. QED
    BY <1>1, <1>2, <1>3, AllStaysOK, PTL DEF Spec

-----------------------------------------------------------------------------

(***************************************************************************)
(* The view uses a dictionary that was freed only after it let go of one   *)
(* that it had handed out to be saved.                                     *)
(***************************************************************************)

\* Inductive: a view that retains nothing was configured before profiles were saved.
LetGo ==
  /\ view.held /\ view.retained = 0 => "saved" \in mixed
  /\ FaultHasACause

\* Filling the window lets go of nothing.
LEMMA ReloadLetsGoOfNothing ==
  ASSUME AllOK, NEW v \in Held \cup {NoView}, row # 0 => v \in Held,
         v.held /\ v.retained = 0 => "saved" \in mixed,
         ReloadAndConfigure(stored, v), mixed \subseteq mixed'
  PROVE  LetGo'
  <1>1. WindowOK'
    BY ReloadIsTyped DEF AllOK, PastOK
  <1>2. faulty' => v.held /\ v.retained = 0
    BY DEF ReloadAndConfigure
  <1>3. row' = 0 => view' = v
    BY DEF ReloadAndConfigure, ConfigureWithRow
  <1>4. row' # 0 => view'.retained # 0
    BY <1>1 DEF WindowOK, ReloadAndConfigure
  <1>5. QED
    BY <1>2, <1>3, <1>4 DEF LetGo, FaultHasACause

LEMMA StepsLetGo ==
  ASSUME AllOK, LetGo, Next
  PROVE  LetGo'
  <1>1. ASSUME SaveAndClosePreferences PROVE LetGo'
    BY <1>1 DEF SaveAndClosePreferences, LetGo, FaultHasACause
  <1>2. ASSUME Browse PROVE LetGo'
    <2> DEFINE v == [view EXCEPT !.fields = [for |-> rows[row], edit |-> edits']]
    <2>1. edits' \in 0 .. MaxEdits /\ row # 0
      BY <1>2 DEF Browse, AllOK, PastOK
    <2>2. v \in Held /\ v.retained = view.retained /\ view \in Held
      BY <2>1, EditedIsTyped DEF AllOK, WindowOK
    <2>3. ReloadAndConfigure(stored, v) /\ mixed \subseteq mixed'
      BY <1>2 DEF Browse
    <2> HIDE DEF v
    <2>4. view.held
      BY <2>2 DEF Held
    <2>5. QED
      BY <2>2, <2>3, <2>4, ReloadLetsGoOfNothing DEF LetGo
  <1>3. ASSUME ReloadAndConfigure(stored, view), mixed \subseteq mixed' PROVE LetGo'
    BY <1>3, ReloadLetsGoOfNothing DEF LetGo, AllOK, WindowOK
  <1>4. ASSUME row' # 0, view'.retained # 0, UNCHANGED <<faulty, mixed>> PROVE LetGo'
    BY <1>4 DEF LetGo, FaultHasACause
  <1>5. ASSUME DeleteProfile PROVE LetGo'
    <2>1. AllOK' /\ row # 0 /\ window' = "key"
      BY <1>5, PreferencesAreTyped DEF DeleteProfile, Next, Preferences
    <2>2. row' = 0 => view' = view
      BY <1>5 DEF DeleteProfile, ConfigureWithRow
    <2>3. row' # 0 => view'.retained # 0
      BY <2>1 DEF AllOK, WindowOK
    <2>4. QED
      BY <1>5, <2>2, <2>3 DEF DeleteProfile, LetGo, FaultHasACause
  <1>6. ASSUME EditView \/ \E r \in DOMAIN rows : Rename(r) \/ SelectRow(r) PROVE LetGo'
    <2>1. AllOK' /\ window' = "key" /\ UNCHANGED <<faulty, mixed>> /\ row' # 0
      <3>1. AllOK'
        BY <1>6, PreferencesAreTyped DEF Next, Preferences
      <3>2. window' = "key" /\ UNCHANGED <<faulty, mixed>>
        BY <1>6 DEF EditView, Rename, SelectRow
      <3>3. row' # 0
        BY <1>6 DEF EditView, Rename, SelectRow, AllOK, WindowOK
      <3>4. QED
        BY <3>1, <3>2, <3>3
    <2>2. QED
      BY <1>4, <2>1 DEF AllOK, WindowOK
  <1>7. ASSUME UNCHANGED <<view, faulty>>, mixed \subseteq mixed' PROVE LetGo'
    BY <1>7 DEF LetGo, FaultHasACause
  <1>8. ASSUME Preferences PROVE LetGo'
    BY <1>1, <1>2, <1>3, <1>5, <1>6, <1>7, <1>8
       DEF Preferences, ShowPreferences, WindowDidBecomeKey, LoseKey, CancelPreferences
  <1>9. ASSUME Menu PROVE LetGo'
    <2>1. ASSUME SaveProfile PROVE LetGo'
      BY <1>3, <1>7, <2>1 DEF SaveProfile
    <2>2. QED
      BY <1>7, <1>9, <2>1 DEF Menu, StartPlasterWithProfile, JoinSession, FreshSession, Stop,
            ShowJoinPanel, CancelJoinSession, StartFreshSession, ShowSavePanel, CancelSaveProfile
  <1>10. QED
    BY <1>8, <1>9 DEF Next

\* reloadAndConfigure makes the view hand out the dictionary it holds by name.  That one
\* has been freed only if the window has saved profiles before.
THEOREM FaultsComeFromSaving == Spec => []FaultHasACause
  <1>1. Init => LetGo
    BY DEF Init, LetGo, FaultHasACause, NoView
  <1>2. AllOK /\ LetGo /\ [Next]_vars => LetGo'
    <2> SUFFICES ASSUME AllOK, LetGo, [Next]_vars PROVE LetGo'
      OBVIOUS
    <2>1. ASSUME UNCHANGED vars PROVE LetGo'
      BY <2>1 DEF vars, LetGo, FaultHasACause
    <2>2. QED
      BY <2>1, StepsLetGo
  <1>3. LetGo => FaultHasACause
    BY DEF LetGo
  <1>4. QED
    BY <1>1, <1>2, <1>3, AllStaysOK, PTL DEF Spec

-----------------------------------------------------------------------------

(***************************************************************************)
(* A session keeps the profile it was given.  The view shows the profile   *)
(* of the selected row, and writes it back there: it is the owner's as     *)
(* long as the rows stay where they are.                                   *)
(***************************************************************************)

Their(p, k) == p.name.for = k /\ p.settings.for = k

WindowIsTheirs ==
  /\ \A k \in DOMAIN profiles : Their(profiles[k], k)
  /\ \A i \in DOMAIN rows : Their(configs[i], rows[i])
  /\ row # 0 => Their(Handed(view), rows[row])

StoreIsTheirs == \A k \in DOMAIN stored : Their(stored[k], k)

SessionIsItsOwn == session # NoSession => session.profile.settings.for = session.key

Mixed == mixed \cap {"moved", "panel"} # {}

\* Inductive: what the window shows and holds is its sessions' too.
Own == Mixed \/ (WindowIsTheirs /\ StoreIsTheirs /\ SessionIsItsOwn)

\* A view shows what it was configured with.
LEMMA ConfiguredShows ==
  ASSUME NEW p \in Profile, NEW n
  PROVE  Handed(Configured(p, n)) = p
  BY DEF Handed, Configured, Profile

\* If its rows stay, filling the window keeps what it shows with its owners.
LEMMA ReloadKeepsOwners ==
  ASSUME AllOK, StoreIsTheirs, NEW v \in Held \cup {NoView},
         row # 0 => v \in Held /\ Their(Handed(v), rows[row]),
         ReloadAndConfigure(stored, v), Moved(stored) = {}
  PROVE  WindowIsTheirs'
  <1> DEFINE capture == v.held /\ row \in 1 .. Len(RowsOf(stored))
             owner   == IF capture THEN {RowsOf(stored)[row]} ELSE {}
  <1>1. /\ WindowOK' /\ rows' = RowsOf(stored) /\ ToSet(rows') = DOMAIN stored
        /\ \A i \in DOMAIN rows' : configs'[i] = profiles'[rows'[i]]
    BY ReloadIsTyped DEF AllOK, PastOK
  <1>2. profiles' = [k \in DOMAIN stored |-> IF k \in owner THEN Handed(v) ELSE stored[k]]
    BY DEF ReloadAndConfigure
  <1>3. \A k \in owner : Their(Handed(v), k)
    <2> SUFFICES ASSUME capture PROVE Their(Handed(v), RowsOf(stored)[row])
      OBVIOUS
    <2>1. row # 0
      BY DEF AllOK, WindowOK
    <2>2. window # "none"
      BY <2>1 DEF AllOK, WindowOK
    <2>3. RowsOf(stored) = rows
      BY <2>2 DEF Moved
    <2>4. QED
      BY <2>1, <2>3
  <1> HIDE DEF owner, capture
  <1>4. \A k \in DOMAIN profiles' : Their(profiles'[k], k)
    BY <1>2, <1>3 DEF StoreIsTheirs
  <1>5. DOMAIN profiles' = ToSet(rows')
    BY <1>1 DEF WindowOK
  <1>6. \A i \in DOMAIN rows' : rows'[i] \in DOMAIN profiles'
    BY <1>5 DEF ToSet
  <1>7. \A i \in DOMAIN rows' : Their(configs'[i], rows'[i])
    BY <1>1, <1>4, <1>6
  <1>8. ASSUME row' # 0 PROVE Their(Handed(view'), rows'[row'])
    <2>1. row' \in DOMAIN rows' /\ configs' \in Seq(Profile) /\ row' \in 1 .. Len(configs')
      BY <1>1, <1>8 DEF WindowOK
    <2>2. PICK n \in {1, 2} : view' = Configured(configs'[row'], n)
      BY <1>8, <2>1, ViewFollowsRow DEF ReloadAndConfigure
    <2>3. Handed(view') = configs'[row']
      BY <2>1, <2>2, ConfiguredShows
    <2>4. QED
      BY <1>7, <2>1, <2>3
  <1>9. QED
    BY <1>4, <1>7, <1>8 DEF WindowIsTheirs

\* Replacing a row's profile by another one of its session keeps the others' as they are.
LEMMA ReplacedIsTheirs ==
  ASSUME WindowOK, WindowIsTheirs, NEW r \in DOMAIN rows, NEW p \in Profile, Their(p, rows[r])
  PROVE  /\ \A k \in DOMAIN profiles : Their([profiles EXCEPT ![rows[r]] = p][k], k)
         /\ \A i \in DOMAIN rows : Their([configs EXCEPT ![r] = p][i], rows[i])
  <1>1. DOMAIN configs = DOMAIN rows
    BY DEF WindowOK
  <1>2. QED
    BY <1>1 DEF WindowOK, WindowIsTheirs

LEMMA RegisteredIsTheirs ==
  ASSUME WindowOK, WindowIsTheirs, row # 0, RegisterConfiguration(row)
  PROVE  /\ \A k \in DOMAIN profiles' : Their(profiles'[k], k)
         /\ \A i \in DOMAIN rows : Their(configs'[i], rows[i])
  <1>1. row \in DOMAIN rows /\ Handed(view) \in Profile
    BY RegisteredIsTyped
  <1>2. Their(Handed(view), rows[row])
    BY DEF WindowIsTheirs
  <1>3. DOMAIN profiles' = DOMAIN profiles
    BY DEF RegisterConfiguration
  <1>4. QED
    BY <1>1, <1>2, <1>3, ReplacedIsTheirs DEF RegisterConfiguration

LEMMA PreferencesAreTheirOwn ==
  ASSUME AllOK, AllOK', ~Mixed, ~Mixed', Own, Preferences
  PROVE  Own'
  <1>0. /\ WindowIsTheirs /\ StoreIsTheirs /\ SessionIsItsOwn
        /\ WindowOK /\ WindowOK'
    BY DEF Own, AllOK
  <1>1. SessionIsItsOwn'
    BY <1>0 DEF SessionIsItsOwn, Preferences, ShowPreferences, LoseKey, WindowDidBecomeKey,
          EditView, Browse, Rename, SelectRow, DeleteProfile, CancelPreferences,
          SaveAndClosePreferences
  <1>2. ASSUME NEW v \in Held \cup {NoView},
               row # 0 => v \in Held /\ Their(Handed(v), rows[row]),
               ReloadAndConfigure(stored, v), mixed' = mixed \cup Moved(stored), UNCHANGED stored
        PROVE  Own'
    <2>1. Moved(stored) = {}
      BY <1>2 DEF Mixed, Moved
    <2>2. WindowIsTheirs'
      BY <1>0, <1>2, <2>1, ReloadKeepsOwners
    <2>3. QED
      BY <1>0, <1>1, <1>2, <2>2 DEF Own, StoreIsTheirs
  <1>3. view \in Held \cup {NoView} /\ (row # 0 => view \in Held /\ Their(Handed(view), rows[row]))
    BY <1>0 DEF WindowOK, WindowIsTheirs
  <1>4. ASSUME NEW e \in 0 .. MaxEdits, row # 0
        PROVE  LET v == [view EXCEPT !.fields = [for |-> rows[row], edit |-> e]]
               IN  v \in Held /\ Their(Handed(v), rows[row])
    BY <1>0, <1>3, <1>4, EditedIsTyped DEF Their, Handed
  <1>5. edits' \in 0 .. MaxEdits
    BY DEF AllOK, PastOK
  <1>6. ASSUME ShowPreferences \/ WindowDidBecomeKey PROVE Own'
    BY <1>2, <1>3, <1>6 DEF ShowPreferences, WindowDidBecomeKey
  <1>7. ASSUME LoseKey \/ CancelPreferences PROVE Own'
    BY <1>0, <1>7 DEF LoseKey, CancelPreferences, Own, WindowIsTheirs, StoreIsTheirs,
          SessionIsItsOwn
  <1>8. ASSUME EditView PROVE Own'
    <2>1. Their(Handed(view'), rows[row])
      BY <1>4, <1>5, <1>8 DEF EditView
    <2>2. WindowIsTheirs'
      BY <1>0, <1>8, <2>1 DEF EditView, WindowIsTheirs
    <2>3. QED
      BY <1>0, <1>1, <1>8, <2>2 DEF EditView, Own, StoreIsTheirs
  <1>9. ASSUME Browse PROVE Own'
    <2> DEFINE v == [view EXCEPT !.fields = [for |-> rows[row], edit |-> edits']]
    <2>1. v \in Held /\ Their(Handed(v), rows[row])
      BY <1>4, <1>5, <1>9 DEF Browse
    <2>2. ReloadAndConfigure(stored, v) /\ mixed' = mixed \cup Moved(stored) /\ UNCHANGED stored
      BY <1>9 DEF Browse
    <2> HIDE DEF v
    <2>3. QED
      BY <1>2, <2>1, <2>2
  <1>10. ASSUME NEW r \in DOMAIN rows, Rename(r) PROVE Own'
    <2> DEFINE n == [for |-> rows[r], edit |-> edits']
    <2>1. r \in DOMAIN configs /\ configs[r] \in Profile /\ n \in Stamp /\ n.for = rows[r]
      BY <1>0, <1>5 DEF WindowOK, Stamp
    <2> HIDE DEF n
    <2>2. [configs[r] EXCEPT !.name = n] \in Profile
      BY <2>1 DEF Profile
    <2>3. Their([configs[r] EXCEPT !.name = n], rows[r])
      BY <1>0, <2>1 DEF WindowIsTheirs, Their, Profile
    <2>4. /\ configs' = [configs EXCEPT ![r] = [configs[r] EXCEPT !.name = n]]
          /\ profiles' = [profiles EXCEPT ![rows[r]] = configs'[r]]
          /\ view' = IF r = row THEN [view EXCEPT !.name = configs'[r].name] ELSE view
          /\ UNCHANGED <<rows, row, stored>>
      BY <1>10, <2>1 DEF Rename, n
    <2>5. configs'[r] = [configs[r] EXCEPT !.name = n] /\ configs'[r].name = n
      BY <2>1, <2>2, <2>4 DEF Profile
    <2>6. DOMAIN profiles' = DOMAIN profiles
      BY <2>4
    <2>7. /\ \A k \in DOMAIN profiles' : Their(profiles'[k], k)
          /\ \A i \in DOMAIN rows : Their(configs'[i], rows[i])
      BY <1>0, <2>2, <2>3, <2>4, <2>5, <2>6, ReplacedIsTheirs
    <2>8. ASSUME row # 0 PROVE Their(Handed(view'), rows[row])
      <3>1. CASE r = row
        <4>1. view' = [view EXCEPT !.name = n] /\ view \in Held
          BY <1>3, <2>4, <2>5, <2>8, <3>1
        <4>2. view'.fields = view.fields /\ view'.name = n
          BY <2>1, <4>1 DEF Held
        <4>3. Handed(view').name = n /\ Handed(view').settings = Handed(view).settings
          BY <4>2 DEF Handed
        <4>4. QED
          BY <1>3, <2>1, <2>8, <3>1, <4>3 DEF Their
      <3>2. CASE r # row
        BY <1>3, <2>4, <2>8, <3>2
      <3>3. QED
        BY <3>1, <3>2
    <2>9. QED
      BY <1>0, <1>1, <2>4, <2>7, <2>8 DEF Own, WindowIsTheirs, StoreIsTheirs
  <1>11. ASSUME NEW r \in DOMAIN rows, SelectRow(r) PROVE Own'
    <2>1. row # 0 /\ r \in DOMAIN configs'
      BY <1>0, <1>11 DEF WindowOK, SelectRow
    <2>2. /\ \A k \in DOMAIN profiles' : Their(profiles'[k], k)
          /\ \A i \in DOMAIN rows : Their(configs'[i], rows[i])
      BY <1>0, <1>11, <2>1, RegisteredIsTheirs DEF SelectRow
    <2>3. Handed(view') = configs'[r]
      BY <1>0, <1>11, <2>1, ConfiguredShows DEF SelectRow, WindowOK
    <2>4. WindowIsTheirs'
      BY <1>11, <2>2, <2>3 DEF SelectRow, WindowIsTheirs
    <2>5. QED
      BY <1>0, <1>1, <1>11, <2>4 DEF SelectRow, Own, StoreIsTheirs
  <1>12. ASSUME DeleteProfile PROVE Own'
    <2>1. /\ row \in 1 .. Len(rows) /\ Len(rows) \in Nat /\ Len(configs) = Len(rows)
          /\ rows' = RemoveAt(rows, row) /\ configs' = RemoveAt(configs, row)
      BY <1>0, <1>12 DEF DeleteProfile, WindowOK
    <2>2. /\ Len(rows') = Len(rows) - 1 /\ DOMAIN rows' = 1 .. Len(rows) - 1
          /\ \A j \in 1 .. Len(rows) - 1 : rows'[j] = rows[IF j < row THEN j ELSE j + 1]
      <3>1. /\ rows' \in Seq(Keys) /\ Len(rows') = Len(rows) - 1
            /\ \A j \in 1 .. Len(rows) - 1 : rows'[j] = rows[IF j < row THEN j ELSE j + 1]
        BY <1>0, <2>1, RemoveAtElements DEF WindowOK
      <3>2. QED
        BY <3>1
    <2>3. \A j \in 1 .. Len(rows) - 1 : configs'[j] = configs[IF j < row THEN j ELSE j + 1]
      BY <1>0, <2>1, RemoveAtElements, SMTT(60) DEF WindowOK
    <2>4. ASSUME NEW j \in DOMAIN rows' PROVE Their(configs'[j], rows'[j])
      <3> DEFINE f == IF j < row THEN j ELSE j + 1
      <3>1. f \in DOMAIN rows
        BY <1>0, <2>1, <2>2 DEF WindowOK
      <3>2. configs'[j] = configs[f] /\ rows'[j] = rows[f]
        BY <2>2, <2>3
      <3> HIDE DEF f
      <3>3. QED
        BY <1>0, <3>1, <3>2 DEF WindowIsTheirs
    <2>5. \A k \in DOMAIN profiles' : Their(profiles'[k], k)
      BY <1>0, <1>12 DEF DeleteProfile, WindowIsTheirs
    <2>6. ASSUME row' # 0 PROVE Their(Handed(view'), rows'[row'])
      <3>1. row' \in DOMAIN rows' /\ configs' \in Seq(Profile) /\ row' \in 1 .. Len(configs')
        BY <1>0, <2>6 DEF WindowOK
      <3>2. PICK n \in {1, 2} : view' = Configured(configs'[row'], n)
        BY <1>12, <2>6, <3>1, ViewFollowsRow DEF DeleteProfile
      <3>3. Handed(view') = configs'[row']
        BY <3>1, <3>2, ConfiguredShows
      <3>4. QED
        BY <2>4, <3>1, <3>3
    <2>7. QED
      BY <1>0, <1>1, <1>12, <2>4, <2>5, <2>6 DEF DeleteProfile, Own, WindowIsTheirs, StoreIsTheirs
  <1>13. ASSUME SaveAndClosePreferences PROVE Own'
    <2>1. /\ \A k \in DOMAIN profiles' : Their(profiles'[k], k)
          /\ \A i \in DOMAIN rows : Their(configs'[i], rows[i])
      BY <1>0, <1>13, RegisteredIsTheirs DEF SaveAndClosePreferences, WindowIsTheirs
    <2>2. row # 0 => Handed(view') = Handed(view)
      <3> SUFFICES ASSUME row # 0 PROVE Handed(view') = Handed(view)
        OBVIOUS
      <3>1. view \in Held /\ view' = Released(view)
        BY <1>3, <1>13 DEF SaveAndClosePreferences
      <3>2. QED
        BY <3>1 DEF Released, Handed, Held
    <2>3. WindowIsTheirs'
      BY <1>0, <1>13, <2>1, <2>2 DEF SaveAndClosePreferences, WindowIsTheirs
    <2>4. StoreIsTheirs'
      BY <1>13, <2>1 DEF SaveAndClosePreferences, StoreIsTheirs
    <2>5. QED
      BY <1>1, <2>3, <2>4 DEF Own
  <1>14. QED
    BY <1>6, <1>7, <1>8, <1>9, <1>10, <1>11, <1>12, <1>13 DEF Preferences

LEMMA MenuIsItsOwn ==
  ASSUME AllOK, AllOK', ~Mixed, ~Mixed', Own, Menu
  PROVE  Own'
  <1>0. /\ WindowIsTheirs /\ StoreIsTheirs /\ SessionIsItsOwn
    BY DEF Own
  <1>1. ASSUME UNCHANGED window_vars PROVE WindowIsTheirs'
    BY <1>0, <1>1 DEF WindowIsTheirs
  <1>2. ASSUME NEW k \in Keys, NEW p \in Profile, Start(k, p), p.settings.for = k
        PROVE  SessionIsItsOwn'
    <2>1. session' = [key |-> k, profile |-> p]
      BY <1>2 DEF Start
    <2>2. session'.key = k /\ session'.profile = p
      BY <2>1
    <2>3. QED
      BY <1>2, <2>2 DEF SessionIsItsOwn
  <1>3. ASSUME NEW k \in Keys, StartPlasterWithProfile(k) PROVE Own'
    <2>1. k \in DOMAIN stored /\ stored[k] \in Profile
      BY <1>3, RowsOfADictionary DEF StartPlasterWithProfile, ProfilesMenu, AllOK, PastOK
    <2>2. SessionIsItsOwn'
      BY <1>0, <1>2, <1>3, <2>1 DEF StartPlasterWithProfile, StoreIsTheirs, Their
    <2>3. QED
      BY <1>0, <1>1, <1>3, <2>2 DEF StartPlasterWithProfile, Own, StoreIsTheirs
  <1>4. ASSUME NEW k \in Keys, JoinSession(k) PROVE Own'
    <2>1. Untitled(k) \in Profile /\ Untitled(k).settings.for = k
      BY UntitledIsTyped DEF Untitled
    <2>2. SessionIsItsOwn'
      BY <1>2, <1>4, <2>1 DEF JoinSession
    <2>3. QED
      BY <1>0, <1>1, <1>4, <2>2 DEF JoinSession, Own, StoreIsTheirs
  <1>5. ASSUME StartFreshSession PROVE Own'
    <2>1. key = fresh
      BY <1>5 DEF StartFreshSession, Mixed
    <2>2. key \in Keys /\ Start(key, Untitled(key))
      BY <1>5, <2>1 DEF StartFreshSession, AllOK, MenuOK
    <2>3. Untitled(key) \in Profile /\ Untitled(key).settings.for = key
      BY <2>2, UntitledIsTyped DEF Untitled
    <2>4. SessionIsItsOwn'
      BY <1>2, <2>2, <2>3
    <2>5. QED
      BY <1>0, <1>1, <1>5, <2>4 DEF StartFreshSession, Own, StoreIsTheirs
  <1>6. ASSUME SaveProfile PROVE Own'
    <2>1. key = session.key
      BY <1>6 DEF SaveProfile, Mixed
    <2>2. PICK p \in Profile :
            /\ p.name = [for |-> key, edit |-> edits'] /\ p.settings = session.profile.settings
            /\ stored' = [k \in DOMAIN stored \cup {key} |-> IF k = key THEN p ELSE stored[k]]
            /\ session' = [key |-> session.key, profile |-> p]
      BY <1>6, SavedIsTyped
    <2>3. session # NoSession
      BY <1>6 DEF SaveProfile, AllOK, MenuOK
    <2>4. p.name.for = key /\ p.settings.for = key
      BY <1>0, <2>1, <2>2, <2>3 DEF SessionIsItsOwn
    <2>5. StoreIsTheirs' /\ SessionIsItsOwn'
      <3>1. \A k \in DOMAIN stored' : Their(stored'[k], k)
        BY <1>0, <2>2, <2>4 DEF StoreIsTheirs, Their
      <3>2. session'.profile.settings.for = session'.key
        BY <2>1, <2>2, <2>4
      <3>3. QED
        BY <3>1, <3>2 DEF StoreIsTheirs, SessionIsItsOwn
    <2>6. WindowIsTheirs'
      <3>1. CASE UNCHANGED window_vars
        BY <1>1, <3>1
      <3>2. CASE ReloadAndConfigure(stored, view) /\ Moved(stored) \subseteq mixed'
        <4>1. Moved(stored) = {}
          BY <3>2 DEF Mixed, Moved
        <4>2. view \in Held \cup {NoView}
          BY DEF AllOK, WindowOK
        <4>3. row # 0 => view \in Held /\ Their(Handed(view), rows[row])
          BY <1>0 DEF AllOK, WindowOK, WindowIsTheirs
        <4>4. QED
          BY <1>0, <3>2, <4>1, <4>2, <4>3, ReloadKeepsOwners
      <3>3. QED
        BY <1>6, <3>1, <3>2 DEF SaveProfile
    <2>7. QED
      BY <2>5, <2>6 DEF Own
  <1>7. ASSUME UNCHANGED <<stored, window_vars, session>> PROVE Own'
    BY <1>0, <1>7 DEF Own, WindowIsTheirs, StoreIsTheirs, SessionIsItsOwn
  <1>8. QED
    BY <1>3, <1>4, <1>5, <1>6, <1>7 DEF Menu, FreshSession, Stop, ShowJoinPanel,
          CancelJoinSession, ShowSavePanel, CancelSaveProfile

\* Whatever is edited, renamed, deleted, cancelled, reloaded and saved, in the window and
\* by the delegate, a stored profile says what its own session was given, and so does the
\* profile of the session that runs.
THEOREM ProfilesStayWithTheirOwners == Spec => []ProfilesAreTheirOwn
  <1>1. Init => Own
    <2> SUFFICES ASSUME Init PROVE Own
      OBVIOUS
    <2>1. StoreIsTheirs
      BY DEF Init, StoreIsTheirs, Their, Untitled
    <2>2. WindowIsTheirs /\ SessionIsItsOwn
      BY DEF Init, WindowIsTheirs, SessionIsItsOwn
    <2>3. QED
      BY <2>1, <2>2 DEF Own
  <1>2. AllOK /\ AllOK' /\ Own /\ [Next]_vars => Own'
    <2> SUFFICES ASSUME AllOK, AllOK', Own, [Next]_vars, ~Mixed' PROVE Own'
      BY DEF Own
    <2>1. mixed \subseteq mixed'
      <3>1. CASE Preferences
        BY <3>1 DEF Preferences, ShowPreferences, LoseKey, WindowDidBecomeKey, EditView, Browse,
              Rename, SelectRow, DeleteProfile, CancelPreferences, SaveAndClosePreferences
      <3>2. CASE SaveProfile
        BY <3>2 DEF SaveProfile
      <3>3. CASE Menu /\ ~SaveProfile
        BY <3>3 DEF Menu, StartPlasterWithProfile, JoinSession, FreshSession, Stop,
              ShowJoinPanel, CancelJoinSession, StartFreshSession, ShowSavePanel,
              CancelSaveProfile
      <3>4. CASE UNCHANGED vars
        BY <3>4 DEF vars
      <3>5. QED
        BY <3>1, <3>2, <3>3, <3>4 DEF Next
    <2>2. ~Mixed
      BY <2>1 DEF Mixed
    <2>3. CASE UNCHANGED vars
      BY <2>3 DEF vars, Own, Mixed, WindowIsTheirs, StoreIsTheirs, SessionIsItsOwn
    <2>4. QED
      BY <2>2, <2>3, PreferencesAreTheirOwn, MenuIsItsOwn DEF Next
  <1>3. AllOK /\ Own => ProfilesAreTheirOwn
    BY DEF Own, AllOK, MenuOK, StoreIsTheirs, SessionIsItsOwn, Their, Mixed, ProfilesAreTheirOwn
  <1>4. QED
    BY <1>1, <1>2, <1>3, AllStaysOK, PTL DEF Spec

=============================================================================
