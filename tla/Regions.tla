------------------------------ MODULE Regions ------------------------------
(***************************************************************************)
(* The regions the portal manages (app/blueprints/regions/routes.py): staff *)
(* add, edit, import, enable, disable and delete them, and the simulators   *)
(* fetch their configuration when they boot.                                *)
(*                                                                         *)
(* A request that writes several settings holds the lock of every row it    *)
(* has touched until it commits; two that wait for each other are a         *)
(* deadlock, which the database ends by undoing one of them.                *)
(***************************************************************************)
EXTENDS Gunicorn

CONSTANTS
  RegionIds,     \* region_uuid
  MaxRequests    \* bound: no request begins to write once so many have committed

ASSUME RegionAssumption == IsFiniteSet(RegionIds) /\ MaxRequests \in Nat

VARIABLES
  config,      \* [RegionIds -> {"absent", "enabled", "disabled"}]: region_configs
  setting,     \* [RegionIds -> [Keys -> the commit that wrote it, or 0]]: region_settings
  mapped,      \* the simulators' host has a row in region_hosts
  regionreq,   \* [Workers -> the request being served]
  regionfails,
  (* history *)
  numbered,    \* commits of settings so far
  whole,       \* those of them that wrote location and port
  fetched      \* the configurations simulators have booted with

historyVars == <<numbered, whole>>
regionVars == <<config, setting, mapped, regionreq, regionfails, historyVars, fetched>>

Keys  == {"Location", "InternalPort"}
Modes == {"add", "edit", "rename", "import"}
\* keys: the settings the form or the grid has a value for; todo: those still to be written.
RegionFree == [at |-> "free", mode |-> "edit", regions |-> {}, keys |-> {}, todo |-> {}, active |-> FALSE]
RegionRequests == [at : {"free", "writing", "toggling", "deleting"}, mode : Modes, regions : SUBSET RegionIds,
                   keys : SUBSET Keys, todo : SUBSET Keys, active : BOOLEAN]

RegionInit ==
  /\ config  = [r \in RegionIds |-> "absent"]
  /\ setting = [r \in RegionIds |-> [k \in Keys |-> 0]]
  /\ mapped = FALSE /\ regionfails = 0 /\ numbered = 0 /\ whole = {} /\ fetched = {}
  /\ regionreq = [w \in Workers |-> RegionFree]

RegionEnd(w) == regionreq' = [regionreq EXCEPT ![w] = RegionFree]
WritersOf(r) == {v \in Workers : regionreq[v].at = "writing" /\ r \in regionreq[v].regions}

\* The lock of the row in region_configs: INSERT and UPDATE exclude everyone; INSERT IGNORE of a
\* region that is there, and the foreign key of a setting, exclude only those two.
Exclusive == {"add", "rename"}
ConfigLocked(r, mode) ==
  \E v \in WritersOf(r) : mode \in Exclusive \/ regionreq[v].mode \in Exclusive \/ config[r] = "absent"

\* The order in which the settings are written: add and edit have one, import has another.
NextKey(w) ==
  LET first == IF regionreq[w].mode = "import" THEN "InternalPort" ELSE "Location"
  IN  IF first \in regionreq[w].todo THEN {first} ELSE regionreq[w].todo
Wrote(w) == regionreq[w].keys \ regionreq[w].todo
KeyLocked(w, k) ==
  \E v \in Workers \ {w} : k \in Wrote(v) /\ regionreq[v].regions = regionreq[w].regions

\* A new region has both settings, an import the port only if the grid knows one, and an edit what
\* of the form is not empty.
Submitted(mode) ==
  CASE mode = "add" -> {Keys} [] mode = "import" -> {Keys, {"Location"}} [] OTHER -> SUBSET Keys

\* add_region, edit_region, import_region: the row of the region comes first.
BeginWriting(w, r, mode) ==
  /\ numbered < MaxRequests
  /\ IF mode = "add" THEN config[r] = "absent" ELSE mode = "import" \/ config[r] # "absent"
  /\ ~ConfigLocked(r, mode)
  /\ \E keys \in Submitted(mode) :
       regionreq' = [regionreq EXCEPT ![w] = [RegionFree EXCEPT !.at = "writing", !.mode = mode, !.regions = {r},
                                                                !.keys = keys, !.todo = keys]]
  /\ UNCHANGED <<config, setting, mapped, regionfails, historyVars, fetched>>

\* Mutant: every setting is committed by itself, and the locks are gone before the next.
WriteAndCommit(w, k) ==
  /\ regionreq[w].at = "writing" /\ k \in NextKey(w)
  /\ setting' = [r \in RegionIds |-> IF r \in regionreq[w].regions
                                     THEN [setting[r] EXCEPT ![k] = numbered + 1] ELSE setting[r]]
  /\ config' = [r \in RegionIds |-> IF r \in regionreq[w].regions /\ config[r] = "absent"
                                    THEN "enabled" ELSE config[r]]
  /\ regionreq' = [regionreq EXCEPT ![w].todo = @ \ {k}]
  /\ UNCHANGED <<mapped, regionfails, historyVars, fetched>>

\* One INSERT ... ON DUPLICATE KEY UPDATE.
WriteSetting(w, k) ==
  /\ regionreq[w].at = "writing" /\ k \in NextKey(w)
  /\ ~KeyLocked(w, k)
  /\ regionreq' = [regionreq EXCEPT ![w].todo = @ \ {k}]
  /\ UNCHANGED <<config, setting, mapped, regionfails, historyVars, fetched>>

\* Each waits for a row of the other: the database undoes this one.
Deadlock(w) ==
  /\ regionreq[w].at = "writing"
  /\ \E k \in NextKey(w), v \in Workers \ {w} :
       /\ k \in Wrote(v) /\ regionreq[v].regions = regionreq[w].regions
       /\ \E j \in NextKey(v) : j \in Wrote(w)
  /\ RegionEnd(w)
  /\ UNCHANGED <<config, setting, mapped, regionfails, historyVars, fetched>>

\* The commit: region and settings become visible together.
CommitSettings(w) ==
  /\ regionreq[w].at = "writing" /\ regionreq[w].todo = {}
  /\ config' = [r \in RegionIds |-> IF r \in regionreq[w].regions /\ config[r] = "absent"
                                    THEN "enabled" ELSE config[r]]
  /\ setting' = [r \in RegionIds |->
                   IF r \in regionreq[w].regions
                   THEN [k \in Keys |-> IF k \in regionreq[w].keys THEN numbered + 1 ELSE setting[r][k]]
                   ELSE setting[r]]
  /\ numbered' = numbered + 1
  /\ whole' = IF regionreq[w].keys = Keys THEN whole \cup {numbered + 1} ELSE whole
  /\ RegionEnd(w)
  /\ UNCHANGED <<mapped, regionfails, fetched>>

\* toggle_state and delete_region read whether the region is active ...
ReadActive(w, r, what) ==
  /\ config[r] # "absent"
  /\ what = "deleting" => config[r] = "disabled"
  /\ regionreq' = [regionreq EXCEPT ![w] = [RegionFree EXCEPT !.at = what, !.regions = {r},
                                                              !.active = (config[r] = "enabled")]]
  /\ UNCHANGED <<config, setting, mapped, regionfails, historyVars, fetched>>

\* ... and write the opposite of what was read ...
Toggle(w, r) ==
  /\ regionreq[w].at = "toggling" /\ WritersOf(r) = {}
  /\ config' = IF config[r] = "absent" THEN config
               ELSE [config EXCEPT ![r] = IF regionreq[w].active THEN "disabled" ELSE "enabled"]
  /\ RegionEnd(w)
  /\ UNCHANGED <<setting, mapped, regionfails, historyVars, fetched>>

\* Mutant: the settings of the region stay behind.
DeleteRowOnly(w, r) ==
  /\ regionreq[w].at = "deleting" /\ WritersOf(r) = {}
  /\ config' = [config EXCEPT ![r] = "absent"]
  /\ RegionEnd(w)
  /\ UNCHANGED <<setting, mapped, regionfails, historyVars, fetched>>

\* ... or delete the region with its settings, whatever it is by now.
DeleteRegion(w, r) ==
  /\ regionreq[w].at = "deleting" /\ WritersOf(r) = {}
  /\ config'  = [config EXCEPT ![r] = "absent"]
  /\ setting' = [setting EXCEPT ![r] = [k \in Keys |-> 0]]
  /\ RegionEnd(w)
  /\ UNCHANGED <<mapped, regionfails, historyVars, fetched>>

\* manage_hosts and delete_host
MapHost(yes) ==
  /\ mapped # yes /\ mapped' = yes
  /\ UNCHANGED <<config, setting, regionreq, regionfails, historyVars, fetched>>

\* get_region_xml: the row and its settings, as they were at the first SELECT.
Fetch(r) ==
  /\ mapped /\ config[r] = "enabled"
  /\ fetched' = fetched \cup {setting[r]}
  /\ UNCHANGED <<config, setting, mapped, regionreq, regionfails, historyVars>>

RegionStart(w) ==
  /\ regionreq[w].at = "free"
  /\ \/ \E r \in RegionIds :
          \/ \E mode \in Modes : BeginWriting(w, r, mode)
          \/ \E what \in {"toggling", "deleting"} : ReadActive(w, r, what)
     \/ \E yes \in BOOLEAN : MapHost(yes)

RegionContinue(w) ==
  \/ \E k \in Keys : WriteSetting(w, k)
  \/ Deadlock(w) \/ CommitSettings(w)
  \/ \E r \in regionreq[w].regions : Toggle(w, r) \/ DeleteRegion(w, r)

RegionFail(w) ==
  /\ regionreq[w].at # "free" /\ regionfails < MaxFailures
  /\ regionfails' = regionfails + 1
  /\ RegionEnd(w)
  /\ UNCHANGED <<config, setting, mapped, historyVars, fetched>>

\* Regions, requests and the history keep to their types.
RegionTypeOK ==
  /\ config \in [RegionIds -> {"absent", "enabled", "disabled"}]
  /\ setting \in [RegionIds -> [Keys -> Nat]]
  /\ mapped \in BOOLEAN /\ regionfails \in Nat /\ numbered \in Nat /\ whole \subseteq 1 .. numbered
  /\ regionreq \in [Workers -> RegionRequests]
  /\ fetched \subseteq [Keys -> Nat]

\* What one request wrote is never fetched by halves: a simulator that boots with the location or the
\* port of a request that wrote both has the other from the same request or from a later one,
\* whichever of adding, editing, importing, toggling and deleting overlap and wherever they die.
\* (A request that submits one of the two mixes it with what was there, and no text forbids that.)
NeverHalfFetched ==
  \A f \in fetched : \A k, j \in Keys : f[k] \in whole => f[j] >= f[k]

\* Requests that hold locks, wait for each other, are undone or die in between implement a store
\* in which each replaces the settings it submits all at once, in the order of the commits, and a
\* removal leaves none behind.
Store == INSTANCE RegionStore WITH Regions <- RegionIds, last <- numbered

KeepsStore == Store!Spec
=============================================================================
