--------------------------- MODULE ProfileWindows ---------------------------
(***************************************************************************)
(* The profiles of the macOS client: the user defaults they are stored in, *)
(* the delegate's menu and panels that start sessions and save their       *)
(* profiles (TSAppDelegate.m), and the preferences window that edits them  *)
(* (TSClientPreferenceController.m) through the configuration view         *)
(* (TSProfileConfigurationViewController.m).  Everything runs on the main  *)
(* thread; an action is one event.  Sessions themselves are                *)
(* PlasterSession's.                                                       *)
(*                                                                         *)
(* What a profile says is a name and settings.  Both are stamps that tell  *)
(* for which session the user gave them, and which edit of it they are.    *)
(***************************************************************************)
EXTENDS Naturals, SequencesExt

CONSTANTS
  Keys,         \* session keys
  allKeys,      \* the order in which a dictionary lists its keys, whatever it is
  Saved,        \* the profiles stored at launch
  MaxStarts,    \* bound: starts of a session
  MaxEdits,     \* bound: edits, renamings and saves under a name
  MaxVisits,    \* bound: times the preferences window becomes key
  NoKey

ASSUME OrderAssumption ==
  \A S \in SUBSET Keys :
    allKeys[S] \in Seq(Keys) /\ ToSet(allKeys[S]) = S /\ IsInjective(allKeys[S])
ASSUME SavedAssumption == Saved \subseteq Keys
ASSUME BoundsAssumption == {MaxStarts, MaxEdits, MaxVisits} \subseteq Nat
ASSUME NoKeyAssumption == NoKey \notin Keys

Stamp == [for : Keys, edit : 0 .. MaxEdits]
Profile == [name : Stamp, settings : Stamp]

\* The profile newProfileWithName: makes for a session.
Untitled(k) == [name     |-> [for |-> k, edit |-> 0],
                settings |-> [for |-> k, edit |-> 0]]

VARIABLES
  stored,   \* the user defaults: session keys to profiles
  window,   \* preferences window: "none" (never loaded), "closed", "behind", "key"
  rows,     \* _sessionKeys, the rows of its table
  configs,  \* _profileConfigurations, one per row
  profiles, \* _profiles
  row,      \* the selected row, 0 if the table is empty
  view,     \* configuration view: its fields, the dictionary it holds by name, and
            \* how often it has retained that
  key,      \* the delegate's session key
  session,  \* the controller's key and profile
  running,
  saveAs,   \* is "Save Session As..." enabled?
  joining,  \* the panels: is the one that joins a session open?
  fresh,    \*   the session the one that starts a new session was opened for
  naming,   \*   is the one that saves a profile open?
  faulty,   \* a dictionary was used after it was freed
  mixed,    \* history: what has come between the profiles and their owners
  deleted,  \* history: profiles deleted in the window since it was filled
  promised, \* history: profiles that were saved and not deleted
  starts, edits, visits

window_vars == <<window, rows, configs, profiles, row, view>>
menu_vars   == <<key, session, running, saveAs, joining, fresh, naming>>
past        == <<faulty, mixed, deleted, promised>>
bounds      == <<starts, edits, visits>>
vars == <<stored, window_vars, menu_vars, past, bounds>>

NoView == [held |-> FALSE]
Held   == [held : {TRUE}, fields : Stamp, name : Stamp, retained : 0 .. 2]
NoSession == [key |-> NoKey]

\* "moved": the window was filled with other rows than it showed; "early": it was filled
\* while a profile was being saved; "panel": a panel was used for another session than
\* the one it was opened for; "saved": profiles were saved in the window.
Causes == {"moved", "early", "panel", "saved"}

Dictionary == UNION {[S -> Profile] : S \in SUBSET Keys}

TypeOK ==
  /\ stored \in Dictionary
  /\ window \in {"none", "closed", "behind", "key"}
  /\ rows \in Seq(Keys) /\ configs \in Seq(Profile) /\ Len(configs) = Len(rows)
  /\ profiles \in [ToSet(rows) -> Profile]
  /\ row \in 0 .. Len(rows)
  /\ view \in Held \cup {NoView}
  /\ key \in Keys \cup {NoKey}
  /\ session \in [key : Keys, profile : Profile] \cup {NoSession}
  /\ {running, saveAs, joining, naming, faulty} \subseteq BOOLEAN
  /\ fresh \in Keys \cup {NoKey}
  /\ mixed \subseteq Causes
  /\ deleted \subseteq Keys /\ promised \subseteq Keys
  /\ starts \in 0 .. MaxStarts /\ edits \in 0 .. MaxEdits /\ visits \in 0 .. MaxVisits

Init ==
  /\ stored = [k \in Saved |-> Untitled(k)]
  /\ window = "none" /\ rows = <<>> /\ configs = <<>> /\ profiles = <<>>
  /\ row = 0 /\ view = NoView
  /\ key = NoKey /\ session = NoSession /\ running = FALSE
  /\ saveAs = FALSE /\ joining = FALSE /\ fresh = NoKey /\ naming = FALSE
  /\ faulty = FALSE /\ mixed = {} /\ deleted = {} /\ promised = Saved
  /\ starts = 0 /\ edits = 0 /\ visits = 0

-----------------------------------------------------------------------------
\* The preferences window.

\* Mutant: the view does not retain the dictionary it is configured with.
ConfiguredUnretained(p, n) ==
  [held |-> TRUE, fields |-> p.settings, name |-> p.name, retained |-> n - 1]

\* The configuration view lets go of the dictionary it hands out, and gets to hold the
\* one it is configured with.
Handed(v)   == [name |-> v.name, settings |-> v.fields]
Released(v) == [v EXCEPT !.retained = @ - 1]
Configured(p, n) == [held |-> TRUE, fields |-> p.settings, name |-> p.name, retained |-> n]

\* The table keeps its selected row as long as there is such a row, and always has one.
\* If it has to select another, it may configure the view with it a second time.
Reselect(n) ==
  \/ n = 0 /\ row' = 0
  \/ row \in 1 .. n /\ row' = row
  \/ n # 0 /\ row = 0 /\ row' = 1
  \/ n # 0 /\ row > n /\ row' \in 1 .. n

ConfigureWithRow(v) ==
  \/ row' = 0 /\ view' = v
  \/ /\ row' # 0
     /\ \E n \in {1} \cup (IF row' = row THEN {} ELSE {2}) :
          view' = Configured(configs'[row'], n)

RowsOf(d) == allKeys[DOMAIN d]

\* The window gets filled with the dictionary d.  What the view shows goes to the row
\* that is selected, whichever profile that is now.
ReloadAndConfigure(d, v) ==
  LET rs      == RowsOf(d)
      capture == v.held /\ row \in 1 .. Len(rs)
      owner   == IF capture THEN {rs[row]} ELSE {}
  IN /\ visits < MaxVisits /\ visits' = visits + 1
     /\ window' = "key"
     /\ faulty' = (capture /\ v.retained = 0)
     /\ rows' = rs
     /\ profiles' = [k \in DOMAIN d |-> IF k \in owner THEN Handed(v) ELSE d[k]]
     /\ configs' = [i \in DOMAIN rs |-> profiles'[rs[i]]]
     /\ Reselect(Len(rs))
     /\ ConfigureWithRow(v)
     /\ deleted' = {}

Moved(d) == IF window # "none" /\ RowsOf(d) # rows THEN {"moved"} ELSE {}

\* The edits in the view go to row r.
RegisterConfiguration(r) ==
  /\ configs' = [configs EXCEPT ![r] = Handed(view)]
  /\ profiles' = [profiles EXCEPT ![rows[r]] = Handed(view)]

ShowPreferences ==
  /\ ~running
  /\ window # "key"
  /\ ReloadAndConfigure(stored, view)
  /\ mixed' = mixed \cup Moved(stored)
  /\ UNCHANGED <<stored, menu_vars, promised, starts, edits>>

LoseKey ==
  /\ window = "key"
  /\ window' = "behind"
  /\ UNCHANGED <<stored, rows, configs, profiles, row, view, menu_vars, past, bounds>>

\* Mutant: a window that becomes key again shows what it showed.
WindowKeepsItsRows ==
  /\ window = "behind"
  /\ window' = "key"
  /\ UNCHANGED <<stored, rows, configs, profiles, row, view, menu_vars, past, bounds>>

WindowDidBecomeKey ==
  /\ window = "behind"
  /\ ReloadAndConfigure(stored, view)
  /\ mixed' = mixed \cup Moved(stored)
  /\ UNCHANGED <<stored, menu_vars, promised, starts, edits>>

\* An edit in the view is in its fields only.
EditView ==
  /\ window = "key" /\ row # 0
  /\ edits < MaxEdits /\ edits' = edits + 1
  /\ view' = [view EXCEPT !.fields = [for |-> rows[row], edit |-> edits']]
  /\ UNCHANGED <<stored, window, rows, configs, profiles, row, menu_vars, past, starts, visits>>

\* The sheet that asks for a folder takes the key from the window and gives it back.
Browse ==
  /\ window = "key" /\ row # 0
  /\ edits < MaxEdits /\ edits' = edits + 1
  /\ ReloadAndConfigure(stored,
                        [view EXCEPT !.fields = [for |-> rows[row], edit |-> edits']])
  /\ mixed' = mixed \cup Moved(stored)
  /\ UNCHANGED <<stored, menu_vars, promised, starts>>

\* A name is edited in the table.  The view holds the selected row's dictionary.
Rename(r) ==
  /\ window = "key"
  /\ edits < MaxEdits /\ edits' = edits + 1
  /\ configs' = [configs EXCEPT ![r].name = [for |-> rows[r], edit |-> edits']]
  /\ profiles' = [profiles EXCEPT ![rows[r]] = configs'[r]]
  /\ view' = IF r = row THEN [view EXCEPT !.name = configs'[r].name] ELSE view
  /\ UNCHANGED <<stored, window, rows, row, menu_vars, past, starts, visits>>

\* Mutant: the edits are registered with the row that is being selected.
SelectRowAndRegister(r) ==
  /\ window = "key" /\ r # row
  /\ RegisterConfiguration(r)
  /\ row' = r
  /\ view' = Configured(configs'[r], 1)
  /\ UNCHANGED <<stored, window, rows, menu_vars, past, bounds>>

SelectRow(r) ==
  /\ window = "key" /\ r # row
  /\ RegisterConfiguration(row)
  /\ row' = r
  /\ view' = Configured(configs'[r], 1)
  /\ UNCHANGED <<stored, window, rows, menu_vars, past, bounds>>

\* Mutant: the configuration of a deleted profile stays in the list.
DeleteRowOnly ==
  /\ window = "key" /\ row # 0
  /\ rows' = RemoveAt(rows, row)
  /\ profiles' = [k \in DOMAIN profiles \ {rows[row]} |-> profiles[k]]
  /\ Reselect(Len(rows) - 1)
  /\ configs' = configs
  /\ ConfigureWithRow(view)
  /\ deleted' = deleted \cup {rows[row]}
  /\ UNCHANGED <<stored, window, menu_vars, faulty, mixed, promised, bounds>>

DeleteProfile ==
  /\ window = "key" /\ row # 0
  /\ rows' = RemoveAt(rows, row)
  /\ configs' = RemoveAt(configs, row)
  /\ profiles' = [k \in DOMAIN profiles \ {rows[row]} |-> profiles[k]]
  /\ Reselect(Len(rows) - 1)
  /\ ConfigureWithRow(view)
  /\ deleted' = deleted \cup {rows[row]}
  /\ UNCHANGED <<stored, window, menu_vars, faulty, mixed, promised, bounds>>

CancelPreferences ==
  /\ window = "key"
  /\ window' = "closed"
  /\ UNCHANGED <<stored, rows, configs, profiles, row, view, menu_vars, past, bounds>>

SaveAndClosePreferences ==
  /\ window = "key"
  /\ \/ row = 0 /\ UNCHANGED <<configs, profiles, view>>
     \/ row # 0 /\ RegisterConfiguration(row) /\ view' = Released(view)
  /\ stored' = profiles'
  /\ window' = "closed"
  /\ mixed' = mixed \cup {"saved"}
  /\ promised' = promised \ deleted
  /\ UNCHANGED <<rows, row, menu_vars, faulty, deleted, bounds>>

-----------------------------------------------------------------------------
\* The delegate.

\* start: of a session whose key and profile the controller has been given.
Start(k, p) ==
  /\ starts < MaxStarts /\ starts' = starts + 1
  /\ session' = [key |-> k, profile |-> p]
  /\ running' = TRUE
  /\ saveAs' = (key' \notin DOMAIN stored)

\* The menu is built when it opens; it is hidden while a session runs.
ProfilesMenu == IF running THEN {} ELSE DOMAIN stored

StartPlasterWithProfile(k) ==
  /\ k \in ProfilesMenu
  /\ key' = k
  /\ Start(k, stored[k])
  /\ UNCHANGED <<stored, window_vars, joining, fresh, naming, past, edits, visits>>

Stop ==
  /\ running
  /\ running' = FALSE
  /\ UNCHANGED <<stored, window_vars, key, session, saveAs, joining, fresh, naming, past, bounds>>

ShowJoinPanel ==
  /\ ~running /\ ~joining
  /\ joining' = TRUE
  /\ UNCHANGED <<stored, window_vars, key, session, running, saveAs, fresh, naming, past, bounds>>

CancelJoinSession ==
  /\ joining
  /\ joining' = FALSE
  /\ UNCHANGED <<stored, window_vars, key, session, running, saveAs, fresh, naming, past, bounds>>

\* The panel stays open when another session is started meanwhile, and is not asked.
JoinSession(k) ==
  /\ joining /\ window # "key"
  /\ joining' = FALSE
  /\ key' = k
  /\ Start(k, Untitled(k))
  /\ UNCHANGED <<stored, window_vars, fresh, naming, past, edits, visits>>

\* The session key changes before the session is started, or is not.
FreshSession(k) ==
  /\ ~running
  /\ k \notin DOMAIN stored \cup {key, fresh}
  /\ key' = k
  /\ fresh' = k
  /\ UNCHANGED <<stored, window_vars, session, running, saveAs, joining, naming, past, bounds>>

StartFreshSession ==
  /\ fresh # NoKey /\ window # "key"
  /\ fresh' = NoKey
  /\ key' = key
  /\ Start(key, Untitled(fresh))
  /\ mixed' = mixed \cup (IF key # fresh THEN {"panel"} ELSE {})
  /\ UNCHANGED <<stored, window_vars, joining, naming, faulty, deleted, promised, edits, visits>>

ShowSavePanel ==
  /\ saveAs /\ ~naming
  /\ naming' = TRUE
  /\ UNCHANGED <<stored, window_vars, key, session, running, saveAs, joining, fresh, past, bounds>>

CancelSaveProfile ==
  /\ naming
  /\ naming' = FALSE
  /\ UNCHANGED <<stored, window_vars, key, session, running, saveAs, joining, fresh, past, bounds>>

\* The panel goes away before the dictionary is written, and the window behind it may
\* become key at once, later, or not.
SaveProfile ==
  LET p    == [name |-> [for |-> key, edit |-> edits + 1], settings |-> session.profile.settings]
      with == [k \in DOMAIN stored \cup {key} |-> IF k = key THEN p ELSE stored[k]]
  IN /\ naming /\ window # "key"
     /\ edits < MaxEdits /\ edits' = edits + 1
     /\ naming' = FALSE /\ saveAs' = FALSE
     /\ stored' = with
     /\ session' = [session EXCEPT !.profile = p]
     /\ promised' = promised \cup {key}
     /\ LET panel == IF key # session.key THEN {"panel"} ELSE {} IN
        \/ /\ mixed' = mixed \cup panel
           /\ UNCHANGED <<window_vars, faulty, deleted, visits>>
        \/ /\ window = "behind"
           /\ ReloadAndConfigure(stored, view)
           /\ mixed' = mixed \cup panel \cup Moved(stored) \cup {"early"}
     /\ UNCHANGED <<key, running, joining, fresh, starts>>

-----------------------------------------------------------------------------
Preferences ==
  \/ ShowPreferences \/ LoseKey \/ WindowDidBecomeKey
  \/ EditView \/ Browse \/ DeleteProfile
  \/ \E r \in DOMAIN rows : Rename(r) \/ SelectRow(r)
  \/ CancelPreferences \/ SaveAndClosePreferences

Menu ==
  \/ \E k \in Keys : StartPlasterWithProfile(k) \/ JoinSession(k) \/ FreshSession(k)
  \/ Stop \/ ShowJoinPanel \/ CancelJoinSession \/ StartFreshSession
  \/ ShowSavePanel \/ CancelSaveProfile \/ SaveProfile

\* What happens once a dictionary has been used after it was freed is anybody's guess.
Next == ~faulty /\ (Preferences \/ Menu)

Spec == Init /\ [][Next]_vars

-----------------------------------------------------------------------------
\* A profile that was saved stays until its user deletes it in the preferences window
\* and saves there: neither the delegate nor the window, each of which replaces the whole
\* dictionary, loses one.  The exception is a window that becomes key while a
\* profile is being saved.  (saveProfile:, saveAndClosePreferences:)
ProfilesPersist == promised \subseteq DOMAIN stored \/ "early" \in mixed

\* A session has the name and the settings that were given for it, and not those of
\* another: whatever is edited, deleted, cancelled and reloaded, unless the window's rows
\* have moved under its selection, or a panel was used for another session than its own.
ProfilesAreTheirOwn ==
  \/ /\ \A k \in DOMAIN stored : stored[k].name.for = k /\ stored[k].settings.for = k
     /\ running => session.profile.settings.for = session.key
  \/ mixed \cap {"moved", "panel"} # {}

\* The view uses no dictionary after it was freed, unless profiles were saved in the
\* window before: the view has then handed out what it holds, and lets go of it twice.
FaultHasACause == faulty => "saved" \in mixed
=============================================================================
