-------------------------------- MODULE Settings --------------------------------
(***************************************************************************)
(* SettingsPage: the two sliders of RiskControls and their save, from the  *)
(* pointer to the audit row.  The lists below them are in module Lists.    *)
(*                                                                         *)
(* A slider's position is a level.  One browser is used by admins of       *)
(* several organizations in turn; other admins save the same settings      *)
(* from elsewhere.  Module Pipeline has what the settings are for.         *)
(***************************************************************************)
EXTENDS Integers

CONSTANTS
  Org, Level,
  Contested,  \* bound: the organizations that have another admin
  Given,      \* [Org -> [Setting -> Level]]: what the organizations begin with
  MaxActs     \* bound: what the admins do

NoOrg == 0
Setting == {"confidenceThreshold", "maxPriceDeltaPct"}
Values == [Setting -> Level]
Nowhere == [org |-> NoOrg]

VARIABLES
  saved, audited,   \* server: each organization's settings; the last that its trail says
  who,              \* the organization whose admin is signed in
  session,          \* the cached session's organization
  loading,          \* GET /auth/me under way, by whoever asked for it
  panel,            \* RiskControls: its mount, sliders, status, and timers to "idle"
  patches,          \* the saves under way
  acts,
  chosen,           \* history: every level somebody chose, by organization and setting
  crossed,          \* history: somebody signed out with a save or a load under way
  apart,            \* history: no save overlapped another, a load or a sign-in, and none failed
  fresh             \* history: no other admin saved since the session was read

settingsVars ==
  <<saved, audited, who, session, loading, panel, patches, acts, chosen, crossed, apart, fresh>>

Session == [org : {NoOrg}] \cup [org : Org, values : Values]
Panel == [org : {NoOrg}] \cup
  [org : Org, id : 0..MaxActs, values : Values, status : {"idle", "saving", "saved", "error"}, timers : 0..MaxActs]
Loading == [at : {"none"}] \cup [at : {"sent"}, org : Org]
             \cup [at : {"read"}, org : Org, values : Values, fresh : BOOLEAN]
Patch ==
  [n : 1..MaxActs, mine : BOOLEAN, panel : 0..MaxActs, org : Org, values : Values, before : Values,
   at : {"sent", "found", "updated", "done", "failed"}]

TypeOK ==
  /\ saved \in [Org -> Values] /\ audited \in [Org -> Values]
  /\ who \in Org /\ session \in Session /\ loading \in Loading /\ panel \in Panel
  /\ patches \subseteq Patch
  /\ \A p, q \in patches : p.n = q.n => p = q
  /\ acts \in 0..MaxActs
  /\ chosen \in [Org -> [Setting -> SUBSET Level]]
  /\ crossed \in BOOLEAN /\ apart \in BOOLEAN /\ fresh \in BOOLEAN

-----------------------------------------------------------------------------
(* RiskControls. *)

(* A plausible bug: the sliders start from the built-in values. *)
MountWithDefaults(s) ==
  IF s = Nowhere THEN Nowhere
  ELSE IF s.org = panel.org THEN panel
  ELSE [org |-> s.org, id |-> acts', values |-> [f \in Setting |-> 0], status |-> "idle", timers |-> 0]

(* Mounted once the organization is known, and keyed on its id: another    *)
(* organization is another mount, the same one keeps its sliders.          *)
Mount(s) ==
  IF s = Nowhere THEN Nowhere
  ELSE IF s.org = panel.org THEN panel
  ELSE [org |-> s.org, id |-> acts', values |-> s.values, status |-> "idle", timers |-> 0]

NotLoading == [at |-> "none"]

Init ==
  /\ saved = Given /\ audited = Given
  /\ who \in Org
  /\ session = Nowhere /\ panel = Nowhere /\ loading = NotLoading
  /\ patches = {}
  /\ acts = 0
  /\ chosen = [o \in Org |-> [f \in Setting |-> {Given[o][f]}]]
  /\ crossed = FALSE /\ apart = TRUE /\ fresh = TRUE

Act == acts < MaxActs /\ acts' = acts + 1
MineUnderWay == \E p \in patches : p.mine

(* GET /auth/me, at the first render and when the session is stale: the    *)
(* request, its read, and its arrival, which replaces the session whatever *)
(* became of it meanwhile.                                                 *)
LoadSession ==
  /\ Act /\ loading.at = "none" /\ loading' = [at |-> "sent", org |-> who]
  /\ apart' = (apart /\ ~MineUnderWay)
  /\ UNCHANGED <<saved, audited, who, session, panel, patches, chosen, crossed, fresh>>

ReadSession ==
  /\ loading.at = "sent"
  /\ loading' = [at |-> "read", org |-> loading.org, values |-> saved[loading.org], fresh |-> patches = {}]
  /\ UNCHANGED <<saved, audited, who, session, panel, patches, acts, chosen, crossed, apart, fresh>>

SessionArrives ==
  /\ loading.at = "read" /\ loading' = NotLoading
  /\ session' = [org |-> loading.org, values |-> loading.values]
  /\ UNCHANGED acts /\ panel' = Mount(session')
  /\ fresh' = loading.fresh
  /\ UNCHANGED <<saved, audited, who, patches, chosen, crossed, apart>>

(* After its retries, or with a 401: the cached session stays.             *)
LoadFails ==
  /\ loading.at # "none" /\ loading' = NotLoading
  /\ UNCHANGED <<saved, audited, who, session, panel, patches, acts, chosen, crossed, apart, fresh>>

(* Sign-out clears the session, for an admin of another organization to    *)
(* sign in.  A load under way is not cancelled.                            *)
SwitchTo(o) ==
  /\ Act /\ o # who /\ who' = o
  /\ session' = Nowhere /\ panel' = Nowhere
  /\ crossed' = (crossed \/ MineUnderWay \/ loading.at # "none")
  /\ apart' = (apart /\ patches = {} /\ loading.at = "none")
  /\ UNCHANGED <<saved, audited, loading, patches, chosen, fresh>>

(* The answer to a sign-in is the session.                                 *)
SignedIn ==
  /\ session = Nowhere
  /\ session' = [org |-> who, values |-> saved[who]]
  /\ UNCHANGED acts /\ panel' = Mount(session')
  /\ fresh' = (patches = {})
  /\ UNCHANGED <<saved, audited, who, loading, patches, chosen, crossed, apart>>

(* The pointer and the keys keep a slider in its range.                    *)
Slide(f, level) ==
  /\ Act /\ panel.org # NoOrg /\ level # panel.values[f]
  /\ panel' = [panel EXCEPT !.values[f] = level]
  /\ chosen' = [chosen EXCEPT ![panel.org][f] = @ \cup {level}]
  /\ UNCHANGED <<saved, audited, who, session, loading, patches, crossed, apart, fresh>>

Request(mine, o, values) ==
  /\ patches' = patches \cup
       {[n |-> acts', mine |-> mine, panel |-> IF mine THEN panel.id ELSE 0, org |-> o, values |-> values,
         before |-> values, at |-> "sent"]}
  /\ apart' = (apart /\ patches = {} /\ (mine => loading.at = "none"))

(* save: both settings are sent, and the server takes the organization of  *)
(* whoever is signed in.                                                   *)
Save ==
  /\ Act /\ panel.org # NoOrg
  /\ panel.status # "saving" /\ panel.values # session.values
  /\ panel' = [panel EXCEPT !.status = "saving"]
  /\ Request(TRUE, who, panel.values)
  /\ UNCHANGED <<saved, audited, who, session, loading, chosen, crossed, fresh>>

(* Another admin saves: one setting moved, the other as the server has it. *)
OtherSaves(o, f, level) ==
  /\ Act /\ o \in Contested
  /\ Request(FALSE, o, [saved[o] EXCEPT ![f] = level])
  /\ chosen' = [chosen EXCEPT ![o][f] = @ \cup {level}]
  /\ fresh' = FALSE
  /\ loading' = IF loading.at = "read" THEN [loading EXCEPT !.fresh = FALSE] ELSE loading
  /\ UNCHANGED <<saved, audited, who, session, panel, crossed>>

Step(p, at) == patches' = (patches \ {p}) \cup {[p EXCEPT !.at = at]}

(* updateSettings: what was, the update, and the trail in separate         *)
(* statements.                                                             *)
FindBefore(p) ==
  /\ p.at = "sent"
  /\ patches' = (patches \ {p}) \cup {[p EXCEPT !.at = "found", !.before = saved[p.org]]}
  /\ UNCHANGED <<saved, audited, who, session, loading, panel, acts, chosen, crossed, apart, fresh>>

UpdateOrg(p) ==
  /\ p.at = "found"
  /\ saved' = [saved EXCEPT ![p.org] = p.values]
  /\ Step(p, "updated")
  /\ UNCHANGED <<audited, who, session, loading, panel, acts, chosen, crossed, apart, fresh>>

Record(p) ==
  /\ p.at = "updated"
  /\ audited' = [audited EXCEPT ![p.org] = p.values]
  /\ Step(p, "done")
  /\ UNCHANGED <<saved, who, session, loading, panel, acts, chosen, crossed, apart, fresh>>

(* A statement fails, or the connection does. *)
SaveFails(p) ==
  /\ p.at \in {"sent", "found", "updated"}
  /\ Step(p, "failed")
  /\ apart' = FALSE
  /\ UNCHANGED <<saved, audited, who, session, loading, panel, acts, chosen, crossed, fresh>>

(* The panel that saved, if it is still mounted.                           *)
SavedBy(p, status) ==
  IF panel.org # NoOrg /\ panel.id = p.panel
  THEN [panel EXCEPT !.status = status, !.timers = IF status = "saved" THEN @ + 1 ELSE @]
  ELSE panel

(* saveSettings: the answered row takes the place of the session's         *)
(* organization, if there is a session.                                    *)
FoldIn(p) == session' = IF session = Nowhere THEN Nowhere ELSE [org |-> p.org, values |-> p.values]

SaveAnswered(p) ==
  /\ p.at \in {"done", "failed"}
  /\ patches' = patches \ {p}
  /\ IF p.mine /\ p.at = "done"
     THEN /\ FoldIn(p)
          /\ UNCHANGED acts
          /\ panel' = IF session' # Nowhere /\ session'.org # panel.org THEN Mount(session') ELSE SavedBy(p, "saved")
     ELSE /\ UNCHANGED <<session, acts>>
          /\ panel' = IF p.mine THEN SavedBy(p, "error") ELSE panel
  /\ UNCHANGED <<saved, audited, who, loading, chosen, crossed, apart, fresh>>

(* Two seconds after a save, whatever the status is by then.               *)
Timer ==
  /\ panel.org # NoOrg /\ panel.timers > 0
  /\ panel' = [panel EXCEPT !.status = "idle", !.timers = @ - 1]
  /\ UNCHANGED <<saved, audited, who, session, loading, patches, acts, chosen, crossed, apart, fresh>>

Next ==
  \/ LoadSession \/ ReadSession \/ SessionArrives \/ LoadFails \/ SignedIn \/ Save \/ Timer
  \/ \E o \in Org : SwitchTo(o)
  \/ \E f \in Setting, level \in Level : Slide(f, level) \/ \E o \in Org : OtherSaves(o, f, level)
  \/ \E p \in patches : FindBefore(p) \/ UpdateOrg(p) \/ Record(p) \/ SaveFails(p) \/ SaveAnswered(p)

Spec == Init /\ [][Next]_settingsVars

-----------------------------------------------------------------------------
(* Properties. *)

(* Of both settings of every organization, somebody of that organization   *)
(* chose the level: no default and no other organization's slider is       *)
(* saved along with a setting that was moved, unless somebody signs out    *)
(* with a save or a load of the session under way.                         *)
SavesOnlyWhatWasChosen == ~crossed => \A o \in Org, f \in Setting : saved[o][f] \in chosen[o][f]

(* Once saves that took turns, with each other and with the loads of the   *)
(* session, are answered, the session, which every threshold on the screen *)
(* comes from, and the trail have what was saved.                          *)
SavesAreSeen ==
  apart /\ patches = {} =>
    audited = saved /\ (fresh /\ session # Nowhere => session = [org |-> who, values |-> saved[who]])

SettingsHold == SavesOnlyWhatWasChosen /\ SavesAreSeen

(* Refuted: a save leaves alone the setting that was not moved.            *)
OthersAreKept ==
  [][\A o \in Org, f \in Setting :
       saved'[o][f] # saved[o][f] => \E p \in patches : p.org = o /\ p.values[f] # p.before[f]]_settingsVars
=============================================================================
