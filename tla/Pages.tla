--------------------------------- MODULE Pages ---------------------------------
(***************************************************************************)
(* The pages that hold work in progress, each in the browser of one user:  *)
(* the queue's cache (Queue, extended here), the decision page around it   *)
(* (Desk), the catalog (Shop), the settings (Settings) and their lists     *)
(* (Lists), the audit log (Trail) and the export of decisions (Export).    *)
(*                                                                         *)
(* The pages share no state: each reads queries of its own.  A behaviour   *)
(* is therefore one part's, place says whose, and the others stay as they  *)
(* began.                                                                  *)
(***************************************************************************)
EXTENDS Queue, FiniteSets

CONSTANTS
  DeskRec, DeskActs,
  Product, Narrow, ShopPageSize, ShopActs,
  Org, Level, Contested, Given, SettingsActs,
  Key, MaxChanges,
  MaxEntries, Filter, Limit, MaxInputs,
  MaxRecs, ExportPageSize, MaxRows, MaxDecisions

ASSUME RankAssumption == DeskRec \subseteq Nat \ {0} /\ IsFiniteSet(DeskRec)
ASSUME ProductAssumption == Product \subseteq Nat \ {0} /\ IsFiniteSet(Product) /\ Narrow \subseteq Product
ASSUME OrgAssumption == Org \subseteq Nat \ {0} /\ Level \subseteq Nat /\ 0 \in Level
ASSUME KeyAssumption == Key \subseteq Nat \ {0}
ASSUME FilterAssumption == 1..MaxEntries \in Filter /\ Filter \subseteq SUBSET (1..MaxEntries)
ASSUME SizeAssumption ==
  {DeskActs, ShopPageSize, ShopActs, SettingsActs, MaxChanges, MaxEntries, Limit, MaxInputs,
   MaxRecs, ExportPageSize, MaxRows, MaxDecisions} \subseteq Nat \ {0}

VARIABLES
  place,   \* the part whose behaviour this is
  queue, wide, tab, items, url, details, pane, dialog, checked, deskToast, calls, deskActs, own, calm,
  shelf, value, filters, cache, stale, failed, table, request, form, deleting, saving, removing, shopActs, overtaken,
  saved, audited, who, session, loading, panel, patches, settingsActs, chosen, crossed, apart, settingsFresh,
  section, changes,
  begun, visible, typed, settled, pages, walk, inputs, basis,
  made, alive, wanted, file, decisions, stayed, slipped

D == INSTANCE Desk WITH Rec <- DeskRec, MaxActs <- DeskActs, toast <- deskToast, acts <- deskActs
S == INSTANCE Shop WITH PageSize <- ShopPageSize, MaxActs <- ShopActs, acts <- shopActs, changed <- overtaken
O == INSTANCE Settings WITH MaxActs <- SettingsActs, acts <- settingsActs, fresh <- settingsFresh
L == INSTANCE Lists
T == INSTANCE Trail
X == INSTANCE Export WITH PageSize <- ExportPageSize

ASSUME GivenAssumption == Given \in [Org -> O!Values]

Place == {"queue", "desk", "shop", "settings", "lists", "trail", "export"}

(* The type of the part whose behaviour it is; the others are constant.    *)
PagesTypeOK ==
  /\ place \in Place
  /\ CASE place = "queue" -> TypeOK
       [] place = "desk" -> D!TypeOK
       [] place = "shop" -> S!TypeOK
       [] place = "settings" -> O!TypeOK
       [] place = "lists" -> L!TypeOK
       [] place = "trail" -> T!TypeOK
       [] place = "export" -> X!TypeOK

PagesInit ==
  /\ place \in Place
  /\ Init /\ D!Init /\ S!Init /\ O!Init /\ L!Init /\ T!Init /\ X!Init
  /\ place # "queue" => pending = {}
  /\ place # "desk" => wide
  /\ place # "settings" => who = CHOOSE o \in Org : TRUE
  /\ place # "export" => made = 0

deskVars == <<queue, wide, tab, items, url, details, pane, dialog, checked, deskToast, calls, deskActs, own, calm>>
shopVars == <<shelf, value, filters, cache, stale, failed, table, request, form, deleting, saving, removing, shopActs, overtaken>>
settingsVars == <<saved, audited, who, session, loading, panel, patches, settingsActs, chosen, crossed, apart, settingsFresh>>
listsVars == <<section, changes>>
trailVars == <<begun, visible, typed, settled, pages, walk, inputs, basis>>
exportVars == <<made, alive, wanted, file, decisions, stayed, slipped>>

queueOnly == <<deskVars, shopVars, settingsVars, listsVars, trailVars, exportVars>>
deskOnly == <<vars, shopVars, settingsVars, listsVars, trailVars, exportVars>>
shopOnly == <<vars, deskVars, settingsVars, listsVars, trailVars, exportVars>>
settingsOnly == <<vars, deskVars, shopVars, listsVars, trailVars, exportVars>>
listsOnly == <<vars, deskVars, shopVars, settingsVars, trailVars, exportVars>>
trailOnly == <<vars, deskVars, shopVars, settingsVars, listsVars, exportVars>>
exportOnly == <<vars, deskVars, shopVars, settingsVars, listsVars, trailVars>>

PagesNext ==
  /\ UNCHANGED place
  /\ \/ place = "queue" /\ Next /\ UNCHANGED queueOnly
     \/ place = "desk" /\ D!Next /\ UNCHANGED deskOnly
     \/ place = "shop" /\ S!Next /\ UNCHANGED shopOnly
     \/ place = "settings" /\ O!Next /\ UNCHANGED settingsOnly
     \/ place = "lists" /\ L!Next /\ UNCHANGED listsOnly
     \/ place = "trail" /\ T!Next /\ UNCHANGED trailOnly
     \/ place = "export" /\ X!Next /\ UNCHANGED exportOnly

allVars == <<place, vars, deskVars, shopVars, settingsVars, listsVars, trailVars, exportVars>>

PagesSpec == PagesInit /\ [][PagesNext]_allVars

-----------------------------------------------------------------------------
(* The parts' properties; each conjunct is stated where its part is.       *)

(* The decision page: the pane and the toast are about what they seem to.  *)
DeskIsCoherent == D!DeskIsCoherent

(* The catalog page: a table at rest is current, and an edit sends only     *)
(* what was typed.                                                          *)
ShopHolds == S!ShopHolds

(* The settings page: what is saved was chosen and what was saved is seen, *)
(* and its lists come to show what the server has.                         *)
SettingsHold == O!SettingsHold /\ L!ListsAreCurrent

(* The lists read by cursor while they change: the audit log on the screen *)
(* has no holes, and an exported file is complete.                         *)
NothingIsSkipped == T!TrailHasNoHoles /\ X!ExportIsComplete

(* Refuted: see the parts. *)
WordsGoWhereWritten == D!WordsGoWhereWritten
EmptyMeansNone == S!EmptyMeansNone
OthersAreKept == O!OthersAreKept
DoneMeansComplete == X!DoneMeansComplete
=============================================================================
