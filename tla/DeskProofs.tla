----------------------------- MODULE DeskProofs -----------------------------
(***************************************************************************)
(* Theorems about regions and tickets, for any regions, tickets, staff and  *)
(* workers: a simulator never boots with half of what a request wrote, and  *)
(* a claimed ticket stays with whoever claimed it.                          *)
(***************************************************************************)
EXTENDS Portal, FiniteSetTheorems, TLAPS

-----------------------------------------------------------------------------
(* Regions *)

\* The steps of the regions; no other part of the portal touches them.
RegionStep ==
  \/ \E w \in Workers : RegionStart(w) \/ RegionContinue(w) \/ RegionFail(w)
  \/ \E r \in RegionIds : Fetch(r)

LEMMA RegionsAlone ==
  ASSUME [Next]_vars
  PROVE  [RegionStep]_regionVars
BY DEF Next, vars, Beside, Serve, Continue, Fail, Only, OfAccounts, RegionStep

\* A request that writes is about one region, and has something to write to a new one, which nobody
\* deletes under its hands.
WritesToOne ==
  \A w \in Workers : regionreq[w].at = "writing" =>
    \E r \in RegionIds : regionreq[w].regions = {r} /\ (config[r] = "absent" => regionreq[w].keys # {})

\* Nothing beside what a request that wrote location and port has left is older.
InStep(v) == \A k, j \in Keys : v[k] <= numbered /\ (v[k] \in whole => v[k] <= v[j])

RegionInv ==
  /\ RegionTypeOK
  /\ WritesToOne
  /\ \A r \in RegionIds : InStep(setting[r])
  /\ \A f \in fetched : InStep(f)

LEMMA RegionInitial == RegionInit => RegionInv
<1> SUFFICES ASSUME RegionInit PROVE RegionInv
  OBVIOUS
<1>1. RegionFree \in RegionRequests /\ RegionFree.at # "writing"
  BY DEF RegionFree, RegionRequests, Modes
<1>2. regionreq \in [Workers -> RegionRequests] /\ \A w \in Workers : regionreq[w].at # "writing"
  BY <1>1 DEF RegionInit
<1>3. RegionTypeOK
  BY <1>2 DEF RegionInit, RegionTypeOK
<1>4. (\A r \in RegionIds : InStep(setting[r])) /\ \A f \in fetched : InStep(f)
  BY DEF RegionInit, InStep
<1> QED
  BY <1>2, <1>3, <1>4 DEF RegionInv, WritesToOne

\* A commit of settings leaves what is in step in step, and puts the settings it writes in step.
LEMMA CommitInStep ==
  ASSUME numbered \in Nat, whole \subseteq 1 .. numbered, NEW v \in [Keys -> Nat], InStep(v),
         NEW keys \in SUBSET Keys, numbered' = numbered + 1,
         whole' = IF keys = Keys THEN whole \cup {numbered + 1} ELSE whole
  PROVE  /\ \A k, j \in Keys : v[k] <= numbered' /\ (v[k] \in whole' => v[k] <= v[j])
         /\ LET u == [k \in Keys |-> IF k \in keys THEN numbered + 1 ELSE v[k]]
            IN  \A k, j \in Keys : u[k] <= numbered' /\ (u[k] \in whole' => u[k] <= u[j])
<1>1. \A k \in Keys : v[k] \in Nat /\ v[k] <= numbered /\ v[k] # numbered + 1
  BY DEF InStep
<1>2. \A k \in Keys : v[k] \in whole' => v[k] \in whole
  BY <1>1
<1>3. \A k, j \in Keys : v[k] <= numbered' /\ (v[k] \in whole' => v[k] <= v[j])
  BY <1>1, <1>2 DEF InStep
<1>4. numbered + 1 \notin whole
  OBVIOUS
<1>5. ASSUME NEW k \in Keys, NEW j \in Keys
      PROVE  LET u == [i \in Keys |-> IF i \in keys THEN numbered + 1 ELSE v[i]]
             IN  u[k] <= numbered' /\ (u[k] \in whole' => u[k] <= u[j])
  <2>1. CASE k \in keys /\ j \in keys
    BY <2>1
  <2>2. CASE k \in keys /\ j \notin keys
    <3>1. whole' = whole
      BY <2>2
    <3> QED
      BY <2>2, <3>1, <1>4
  <2>3. CASE k \notin keys
    BY <2>3, <1>1, <1>3
  <2> QED
    BY <2>1, <2>2, <2>3
<1> QED
  BY <1>3, <1>5

LEMMA RegionSteps ==
  ASSUME RegionInv, [RegionStep]_regionVars
  PROVE  RegionInv'
<1>0. RegionTypeOK
  BY DEF RegionInv
<1>1. RegionFree \in RegionRequests /\ RegionFree.at = "free"
  BY DEF RegionFree, RegionRequests, Modes
\* A request goes on to be q, and nothing becomes visible.
<1>2. ASSUME NEW w \in Workers, NEW q \in RegionRequests, regionreq' = [regionreq EXCEPT ![w] = q],
             q.at = "writing" =>
               \E r \in RegionIds : q.regions = {r} /\ (config[r] = "absent" => q.keys # {}),
             regionfails' \in Nat, UNCHANGED <<config, setting, mapped, numbered, whole, fetched>>
      PROVE  RegionInv'
  <2>1. regionreq' \in [Workers -> RegionRequests] /\ \A v \in Workers : regionreq'[v] = IF v = w THEN q ELSE regionreq[v]
    BY <1>0, <1>2 DEF RegionTypeOK
  <2>2. RegionTypeOK'
    BY <1>0, <1>2, <2>1 DEF RegionTypeOK
  <2>3. WritesToOne'
    BY <1>2, <2>1 DEF RegionInv, WritesToOne
  <2> QED
    BY <1>2, <2>2, <2>3 DEF RegionInv, InStep
<1>3. ASSUME NEW w \in Workers, NEW r \in RegionIds, NEW mode \in Modes, BeginWriting(w, r, mode)
      PROVE  RegionInv'
  <2>1. PICK keys \in Submitted(mode) :
          regionreq' = [regionreq EXCEPT ![w] = [RegionFree EXCEPT !.at = "writing", !.mode = mode, !.regions = {r},
                                                                   !.keys = keys, !.todo = keys]]
    BY <1>3 DEF BeginWriting
  <2>2. keys \in SUBSET Keys /\ (config[r] = "absent" => keys # {})
    BY <1>3 DEF BeginWriting, Submitted, Keys, Modes
  <2>3. ASSUME NEW z \in RegionRequests, NEW ks \in SUBSET Keys
        PROVE  \E y \in RegionRequests :
                 /\ y = [z EXCEPT !.at = "writing", !.mode = mode, !.regions = {r}, !.keys = ks, !.todo = ks]
                 /\ y.keys = ks /\ y.regions = {r}
    <3> DEFINE y == [z EXCEPT !.at = "writing", !.mode = mode, !.regions = {r}, !.keys = ks, !.todo = ks]
    <3>1. y \in RegionRequests /\ y.keys = ks /\ y.regions = {r}
      BY DEF RegionRequests
    <3> QED
      BY <3>1
  <2>4. PICK q \in RegionRequests :
          /\ q = [RegionFree EXCEPT !.at = "writing", !.mode = mode, !.regions = {r}, !.keys = keys, !.todo = keys]
          /\ q.keys = keys /\ q.regions = {r}
    <3>1. RegionFree \in RegionRequests /\ keys \in SUBSET Keys
      BY <1>1, <2>2
    <3> QED
      BY <3>1, <2>3, Zenon
  <2>5. regionreq' = [regionreq EXCEPT ![w] = q]
    BY <2>1, <2>4
  <2>6. regionfails' \in Nat /\ UNCHANGED <<config, setting, mapped, numbered, whole, fetched>>
    BY <1>0, <1>3 DEF BeginWriting, historyVars, RegionTypeOK
  <2> QED
    BY <1>2, <2>2, <2>4, <2>5, <2>6
<1>4. ASSUME NEW w \in Workers, NEW r \in RegionIds, NEW what \in {"toggling", "deleting"},
             ReadActive(w, r, what)
      PROVE  RegionInv'
  <2> DEFINE q == [RegionFree EXCEPT !.at = what, !.regions = {r}, !.active = (config[r] = "enabled")]
  <2>1. q \in RegionRequests /\ q.at # "writing"
    BY DEF RegionFree, RegionRequests, Modes
  <2>2. /\ regionreq' = [regionreq EXCEPT ![w] = q] /\ regionfails' \in Nat
        /\ UNCHANGED <<config, setting, mapped, numbered, whole, fetched>>
    BY <1>0, <1>4 DEF ReadActive, historyVars, RegionTypeOK
  <2> HIDE DEF q
  <2> QED
    BY <1>2, <2>1, <2>2
<1>5. ASSUME NEW yes \in BOOLEAN, MapHost(yes) PROVE RegionInv'
  BY <1>0, <1>5 DEF MapHost, historyVars, RegionInv, RegionTypeOK, WritesToOne, InStep
<1>6. ASSUME NEW w \in Workers, NEW k \in Keys, WriteSetting(w, k) PROVE RegionInv'
  <2> DEFINE q == [regionreq[w] EXCEPT !.todo = @ \ {k}]
  <2>0. regionreq[w] \in RegionRequests /\ regionreq[w].at = "writing"
    BY <1>0, <1>6 DEF RegionTypeOK, WriteSetting
  <2>1. q \in RegionRequests /\ q.regions = regionreq[w].regions /\ q.keys = regionreq[w].keys
    BY <2>0 DEF RegionRequests
  <2>2. \E r \in RegionIds : q.regions = {r} /\ (config[r] = "absent" => q.keys # {})
    BY <2>0, <2>1 DEF RegionInv, WritesToOne
  <2>3. /\ regionreq' = [regionreq EXCEPT ![w] = q] /\ regionfails' \in Nat
        /\ UNCHANGED <<config, setting, mapped, numbered, whole, fetched>>
    BY <1>0, <1>6 DEF WriteSetting, historyVars, RegionTypeOK
  <2> HIDE DEF q
  <2> QED
    BY <1>2, <2>1, <2>2, <2>3
<1>7. ASSUME NEW w \in Workers, Deadlock(w) \/ RegionFail(w) PROVE RegionInv'
  <2>1. /\ regionreq' = [regionreq EXCEPT ![w] = RegionFree] /\ regionfails' \in Nat
        /\ UNCHANGED <<config, setting, mapped, numbered, whole, fetched>>
    BY <1>0, <1>7 DEF Deadlock, RegionFail, RegionEnd, historyVars, RegionTypeOK
  <2> QED
    BY <1>1, <1>2, <2>1
\* The request ends, and regions or settings change.
<1>8. ASSUME NEW w \in Workers, RegionEnd(w),
             \A v \in Workers \ {w}, r \in RegionIds :
               regionreq[v].at = "writing" /\ regionreq[v].regions = {r} /\ config'[r] = "absent"
                 => config[r] = "absent"
      PROVE  regionreq' \in [Workers -> RegionRequests] /\ WritesToOne'
  <2>1. regionreq' \in [Workers -> RegionRequests]
    BY <1>0, <1>1, <1>8 DEF RegionEnd, RegionTypeOK
  <2>2. regionreq'[w] = RegionFree /\ \A v \in Workers \ {w} : regionreq'[v] = regionreq[v]
    BY <1>0, <1>8 DEF RegionEnd, RegionTypeOK
  <2> QED
    BY <1>1, <1>8, <2>1, <2>2 DEF RegionInv, WritesToOne
<1>9. ASSUME NEW w \in Workers, CommitSettings(w) PROVE RegionInv'
  <2> DEFINE keys == regionreq[w].keys
  <2>0. keys \in SUBSET Keys /\ numbered \in Nat /\ whole \subseteq 1 .. numbered
    BY <1>0 DEF RegionTypeOK, RegionRequests
  <2>1. /\ numbered' = numbered + 1 /\ whole' = IF keys = Keys THEN whole \cup {numbered + 1} ELSE whole
        /\ RegionEnd(w) /\ UNCHANGED <<mapped, regionfails, fetched>>
    BY <1>9 DEF CommitSettings
  <2>2. /\ config' \in [RegionIds -> {"absent", "enabled", "disabled"}]
        /\ \A r \in RegionIds : config'[r] = "absent" => config[r] = "absent"
    BY <1>0, <1>9 DEF CommitSettings, RegionTypeOK
  <2>3. ASSUME NEW r \in RegionIds
        PROVE  \/ setting'[r] = setting[r]
               \/ setting'[r] = [k \in Keys |-> IF k \in keys THEN numbered + 1 ELSE setting[r][k]]
    BY <1>9 DEF CommitSettings
  <2> HIDE DEF keys
  <2>4. setting' \in [RegionIds -> [Keys -> Nat]]
    <3>1. DOMAIN setting' = RegionIds /\ setting' = [r \in RegionIds |-> setting'[r]]
      BY <1>9 DEF CommitSettings
    <3>2. ASSUME NEW r \in RegionIds PROVE setting'[r] \in [Keys -> Nat]
      <4>1. setting[r] \in [Keys -> Nat]
        BY <1>0 DEF RegionTypeOK
      <4>2. ASSUME NEW f \in [Keys -> Nat], NEW n \in Nat
            PROVE  [k \in Keys |-> IF k \in keys THEN n ELSE f[k]] \in [Keys -> Nat]
        OBVIOUS
      <4>3. numbered + 1 \in Nat
        BY <2>0
      <4>4. [k \in Keys |-> IF k \in keys THEN numbered + 1 ELSE setting[r][k]] \in [Keys -> Nat]
        BY <4>1, <4>2, <4>3
      <4> QED
        BY <2>3, <4>1, <4>4
    <3> QED
      BY <3>1, <3>2
  <2>5. regionreq' \in [Workers -> RegionRequests] /\ WritesToOne'
    BY <1>8, <2>1, <2>2
  <2>6. whole' \subseteq 1 .. numbered'
    BY <2>0, <2>1
  <2>7. RegionTypeOK'
    BY <1>0, <2>0, <2>1, <2>2, <2>4, <2>5, <2>6 DEF RegionTypeOK
  <2>8. \A f \in fetched : InStep(f)'
    <3>1. ASSUME NEW f \in fetched PROVE InStep(f)'
      <4>1. f \in [Keys -> Nat] /\ InStep(f)
        BY <1>0 DEF RegionTypeOK, RegionInv
      <4>2. \A k, j \in Keys : f[k] <= numbered' /\ (f[k] \in whole' => f[k] <= f[j])
        BY <2>0, <2>1, <4>1, CommitInStep
      <4> QED
        BY <4>2 DEF InStep
    <3> QED
      BY <3>1
  <2>9. \A r \in RegionIds : InStep(setting[r])'
    <3>1. ASSUME NEW r \in RegionIds PROVE InStep(setting[r])'
      <4>1. PICK v \in [Keys -> Nat] : v = setting[r] /\ InStep(v)
        BY <1>0 DEF RegionTypeOK, RegionInv
      <4> DEFINE u == [k \in Keys |-> IF k \in keys THEN numbered + 1 ELSE v[k]]
      <4>2. /\ \A k, j \in Keys : v[k] <= numbered' /\ (v[k] \in whole' => v[k] <= v[j])
            /\ \A k, j \in Keys : u[k] <= numbered' /\ (u[k] \in whole' => u[k] <= u[j])
        BY <2>0, <2>1, <4>1, CommitInStep
      <4>3. setting'[r] = v \/ setting'[r] = u
        BY <2>3, <4>1
      <4> HIDE DEF u
      <4> QED
        BY <4>2, <4>3 DEF InStep
    <3> QED
      BY <3>1
  <2>10. \A f \in fetched' : InStep(f)'
    BY <2>1, <2>8
  <2> QED
    BY <2>5, <2>7, <2>9, <2>10 DEF RegionInv
<1>10. ASSUME NEW w \in Workers, NEW r \in RegionIds, Toggle(w, r) \/ DeleteRegion(w, r) PROVE RegionInv'
  <2>0. /\ WritersOf(r) = {} /\ RegionEnd(w) /\ UNCHANGED <<mapped, regionfails, numbered, whole, fetched>>
    BY <1>10 DEF Toggle, DeleteRegion, historyVars
  <2>1. /\ config' \in [RegionIds -> {"absent", "enabled", "disabled"}]
        /\ \A p \in RegionIds \ {r} : config'[p] = config[p]
    BY <1>0, <1>10 DEF Toggle, DeleteRegion, RegionTypeOK
  <2>2. setting' = setting \/ setting' = [setting EXCEPT ![r] = [k \in Keys |-> 0]]
    BY <1>10 DEF Toggle, DeleteRegion
  <2>3. /\ setting' \in [RegionIds -> [Keys -> Nat]]
        /\ \A p \in RegionIds : setting'[p] = setting[p] \/ setting'[p] = [k \in Keys |-> 0]
    <3>1. [k \in Keys |-> 0] \in [Keys -> Nat] /\ setting \in [RegionIds -> [Keys -> Nat]]
      BY <1>0 DEF RegionTypeOK
    <3> QED
      BY <2>2, <3>1
  <2>4. regionreq' \in [Workers -> RegionRequests] /\ WritesToOne'
    <3>1. \A v \in Workers \ {w}, p \in RegionIds :
            regionreq[v].at = "writing" /\ regionreq[v].regions = {p} /\ config'[p] = "absent"
              => config[p] = "absent"
      BY <2>0, <2>1 DEF WritersOf
    <3> QED
      BY <1>8, <2>0, <3>1
  <2>5. RegionTypeOK'
    BY <1>0, <2>0, <2>1, <2>3, <2>4 DEF RegionTypeOK
  <2>6. InStep([k \in Keys |-> 0])
    BY <1>0 DEF InStep, RegionTypeOK
  <2>7. \A p \in RegionIds : InStep(setting[p])'
    BY <2>0, <2>3, <2>6 DEF RegionInv, InStep
  <2> QED
    BY <2>0, <2>4, <2>5, <2>7 DEF RegionInv, InStep
<1>11. ASSUME NEW r \in RegionIds, Fetch(r) PROVE RegionInv'
  <2>1. /\ fetched' = fetched \cup {setting[r]}
        /\ UNCHANGED <<config, setting, mapped, regionreq, regionfails, numbered, whole>>
    BY <1>11 DEF Fetch, historyVars
  <2>2. RegionTypeOK'
    BY <1>0, <2>1 DEF RegionTypeOK
  <2> QED
    BY <2>1, <2>2 DEF RegionInv, WritesToOne, InStep
<1>12. ASSUME UNCHANGED regionVars PROVE RegionInv'
  BY <1>12 DEF regionVars, historyVars, RegionInv, RegionTypeOK, WritesToOne, InStep
<1>13. ASSUME NEW w \in Workers, RegionStart(w) PROVE RegionInv'
  BY <1>3, <1>4, <1>5, <1>13 DEF RegionStart
<1>14. ASSUME NEW w \in Workers, RegionContinue(w) PROVE RegionInv'
  <2>1. regionreq[w].regions \subseteq RegionIds
    BY <1>0 DEF RegionTypeOK, RegionRequests
  <2> QED
    BY <1>6, <1>7, <1>9, <1>10, <1>14, <2>1 DEF RegionContinue
<1> QED
  BY <1>7, <1>11, <1>12, <1>13, <1>14 DEF RegionStep

LEMMA RegionInvariant == Spec => []RegionInv
<1>1. Init => RegionInv
  BY RegionInitial DEF Init
<1>2. RegionInv /\ [Next]_vars => RegionInv'
  BY RegionsAlone, RegionSteps
<1> QED
  BY <1>1, <1>2, PTL DEF Spec

\* Whatever is added, edited, imported, disabled and deleted at once, for any regions and workers,
\* what a request wrote of location and port together is never fetched beside something older.
THEOREM FetchedTogether == Spec => []NeverHalfFetched
<1>1. RegionInv => NeverHalfFetched
  <2> SUFFICES ASSUME RegionInv, NEW f \in fetched, NEW k \in Keys, NEW j \in Keys, f[k] \in whole
               PROVE  f[j] >= f[k]
    BY DEF NeverHalfFetched
  <2>1. f[k] \in Nat /\ f[j] \in Nat /\ f[k] <= f[j]
    BY DEF RegionInv, RegionTypeOK, InStep
  <2> QED
    BY <2>1
<1> QED
  BY <1>1, RegionInvariant, PTL

\* A step of the regions replaces what a request submits for one, switches or removes it, boots a
\* simulator, or is invisible.
LEMMA StoreStep ==
  ASSUME RegionInv, [Next]_vars
  PROVE  [Store!Next]_<<config, setting, numbered, fetched>>
<1>0. RegionTypeOK
  BY DEF RegionInv
<1>1. ASSUME NEW w \in Workers, CommitSettings(w) PROVE Store!Next
  <2>1. regionreq[w].at = "writing" /\ regionreq[w].todo = {}
    BY <1>1 DEF CommitSettings
  <2>2. PICK r \in RegionIds : regionreq[w].regions = {r} /\ (config[r] = "absent" => regionreq[w].keys # {})
    BY <2>1 DEF RegionInv, WritesToOne
  <2>3. regionreq[w].keys \in SUBSET Keys
    BY <1>0 DEF RegionTypeOK, RegionRequests
  <2>4. config' = [config EXCEPT ![r] = IF @ = "absent" THEN "enabled" ELSE @]
    <3>1. config' = [s \in RegionIds |-> IF s = r /\ config[s] = "absent" THEN "enabled" ELSE config[s]]
      BY <1>1, <2>2 DEF CommitSettings
    <3> QED
      BY <1>0, <3>1 DEF RegionTypeOK
  <2>5. setting' = [setting EXCEPT ![r] = [k \in Keys |-> IF k \in regionreq[w].keys THEN numbered + 1 ELSE @[k]]]
    <3>1. setting' = [s \in RegionIds |->
                        IF s = r THEN [k \in Keys |-> IF k \in regionreq[w].keys THEN numbered + 1 ELSE setting[s][k]]
                        ELSE setting[s]]
      BY <1>1, <2>2 DEF CommitSettings
    <3> QED
      BY <1>0, <3>1 DEF RegionTypeOK
  <2>6. Store!Configure(r, regionreq[w].keys)
    BY <1>1, <2>2, <2>4, <2>5 DEF CommitSettings, Store!Configure
  <2> QED
    BY <2>3, <2>6 DEF Store!Next
<1>2. ASSUME NEW w \in Workers, NEW r \in RegionIds, Toggle(w, r)
      PROVE  [Store!Next]_<<config, setting, numbered, fetched>>
  <2>1. CASE config[r] = "absent"
    BY <1>2, <2>1 DEF Toggle, historyVars
  <2>2. CASE config[r] # "absent"
    <3>1. PICK to \in {"enabled", "disabled"} : config' = [config EXCEPT ![r] = to]
      BY <1>2, <2>2 DEF Toggle
    <3>2. Store!Switch(r, to)
      BY <1>2, <2>2, <3>1 DEF Toggle, historyVars, Store!Switch
    <3> QED
      BY <3>2 DEF Store!Next
  <2> QED
    BY <2>1, <2>2
<1>3. ASSUME NEW w \in Workers, NEW r \in RegionIds, DeleteRegion(w, r) PROVE Store!Next
  BY <1>3 DEF DeleteRegion, historyVars, Store!Next, Store!Remove, Store!Unset
<1>4. ASSUME NEW r \in RegionIds, Fetch(r) PROVE Store!Next
  BY <1>4 DEF Fetch, historyVars, Store!Next, Store!Boot
<1>5. ASSUME NEW w \in Workers, RegionContinue(w)
      PROVE  [Store!Next]_<<config, setting, numbered, fetched>>
  <2>1. regionreq[w].regions \subseteq RegionIds
    BY <1>0 DEF RegionTypeOK, RegionRequests
  <2>2. ASSUME Deadlock(w) \/ \E k \in Keys : WriteSetting(w, k)
        PROVE  UNCHANGED <<config, setting, numbered, fetched>>
    BY <2>2 DEF Deadlock, WriteSetting, historyVars
  <2> QED
    BY <1>1, <1>2, <1>3, <1>5, <2>1, <2>2 DEF RegionContinue
<1>6. ASSUME NEW w \in Workers, RegionStart(w) \/ RegionFail(w)
      PROVE  UNCHANGED <<config, setting, numbered, fetched>>
  BY <1>6 DEF RegionStart, RegionFail, BeginWriting, ReadActive, MapHost, historyVars
<1>7. [RegionStep]_regionVars
  BY RegionsAlone
<1> QED
  BY <1>4, <1>5, <1>6, <1>7 DEF RegionStep, regionVars, historyVars

\* The requests about regions implement the store, for any regions and workers, whatever they
\* interleave, wait for or die in.
THEOREM RequestsKeepStore == Spec => KeepsStore
<1>1. Init => Store!Init
  BY DEF Init, RegionInit, Store!Init, Store!Unset
<1> QED
  BY <1>1, RegionInvariant, StoreStep, PTL DEF Spec, KeepsStore, Store!Spec

-----------------------------------------------------------------------------
(* Tickets *)

\* The steps of the tickets; no other part of the portal touches them.
TicketStep == \E w \in Workers : TicketStart(w) \/ TicketContinue(w) \/ TicketFail(w)

LEMMA TicketsAlone ==
  ASSUME [Next]_vars
  PROVE  [TicketStep]_ticketVars
BY DEF Next, vars, Beside, Serve, Continue, Fail, Only, OfAccounts, TicketStep

\* What a request q knows of its ticket: a claim names who makes it, and an answer that is not a
\* claim carries the assignee on, unless another request wrote the ticket since.
Knows(q) ==
  /\ q.at = "free" => q.tickets = {}
  /\ q.at # "free" => \E t \in TicketIds : q.tickets = {t}
  /\ q.file \subseteq files
  /\ q.claims => q.by \in Staff /\ q.assigned = q.by
  /\ \A t \in q.tickets :
       /\ q.at = "opening" => ticket[t].status = "absent"
       /\ q.at = "replying" => ticket[t].status # "absent"
       /\ q.at = "replying" /\ ~q.stale /\ ~q.claims /\ Exists(t) => q.assigned = ticket[t].assigned

\* A ticket that is being opened is nobody else's.
OpensAlone ==
  \A v, w \in Workers : v # w /\ ticketreq[v].at = "opening" =>
    ticketreq[v].tickets \cap ticketreq[w].tickets = {}

Unclaimed == \A t \in TicketIds : ticket[t].status = "absent" => claimant[t] = Nobody

TicketInv ==
  /\ TicketTypeOK
  /\ \A w \in Workers : Knows(ticketreq[w])
  /\ OpensAlone
  /\ Unclaimed
  /\ ClaimStands

LEMMA FreeTicketRequest == TicketFree \in TicketRequests /\ Knows(TicketFree) /\ Knows(TicketFree)'
BY DEF TicketFree, TicketRequests, Knows, Open, Pending, Closed

LEMMA TicketInitial == TicketInit => TicketInv
<1> SUFFICES ASSUME TicketInit PROVE TicketInv
  OBVIOUS
<1>1. ticketreq \in [Workers -> TicketRequests] /\ \A w \in Workers : ticketreq[w] = TicketFree
  BY FreeTicketRequest DEF TicketInit
<1>2. NoTicket \in TicketRows /\ NoTicket.status = "absent" /\ ~(NoTicket.status \in Open)
  BY DEF NoTicket, TicketRows, Open, Pending, Closed
<1>3. TicketTypeOK
  BY <1>1, <1>2, FS_EmptySet DEF TicketInit, TicketTypeOK
<1>4. \A w \in Workers : Knows(ticketreq[w])
  BY <1>1, FreeTicketRequest
<1>5. OpensAlone
  BY <1>1 DEF OpensAlone, TicketFree
<1>6. Unclaimed /\ ClaimStands
  BY <1>2 DEF TicketInit, Unclaimed, ClaimStands, Exists
<1> QED
  BY <1>3, <1>4, <1>5, <1>6 DEF TicketInv

\* A saved file has a number of its own.
LEMMA SavesFile ==
  ASSUME TicketTypeOK, NEW attach \in BOOLEAN, SaveFile(attach)
  PROVE  /\ files \subseteq files' /\ files' \subseteq Nat /\ IsFiniteSet(files')
         /\ Saved(attach) \subseteq files' /\ Saved(attach) \subseteq Nat
<1>1. files \subseteq Nat /\ IsFiniteSet(files)
  BY DEF TicketTypeOK
<1>2. Cardinality(files) + 1 \in Nat
  BY <1>1, FS_CardinalityType
<1>3. IsFiniteSet(files \cup {Cardinality(files) + 1})
  BY <1>1, FS_AddElement
<1> QED
  BY <1>1, <1>2, <1>3 DEF SaveFile, Saved

\* A worker's request becomes q, and no ticket changes.
LEMMA RequestBecomes ==
  ASSUME TicketInv, NEW w \in Workers, NEW q \in TicketRequests,
         ticketreq' = [ticketreq EXCEPT ![w] = q], Knows(q)',
         files \subseteq files', files' \subseteq Nat, IsFiniteSet(files'), ticketfails' \in Nat,
         UNCHANGED <<ticket, attached, claimant, crossed>>,
         \A v \in Workers : v # w /\ (q.at = "opening" \/ ticketreq[v].at = "opening") =>
           ticketreq[v].tickets \cap q.tickets = {}
  PROVE  TicketInv'
<1>1. ticketreq' \in [Workers -> TicketRequests] /\ \A v \in Workers : ticketreq'[v] = IF v = w THEN q ELSE ticketreq[v]
  BY DEF TicketInv, TicketTypeOK
<1>2. TicketTypeOK'
  BY <1>1 DEF TicketInv, TicketTypeOK
<1>3. ASSUME NEW v \in Workers PROVE Knows(ticketreq[v])'
  <2>1. CASE v = w
    BY <1>1, <2>1 DEF Knows
  <2>2. CASE v # w
    BY <1>1, <2>2 DEF TicketInv, Knows, Exists
  <2> QED
    BY <2>1, <2>2
<1>4. OpensAlone'
  BY <1>1 DEF TicketInv, OpensAlone
<1>5. Unclaimed' /\ ClaimStands'
  BY DEF TicketInv, Unclaimed, ClaimStands, Exists
<1> QED
  BY <1>2, <1>3, <1>4, <1>5 DEF TicketInv

LEMMA TicketSteps ==
  ASSUME TicketInv, [TicketStep]_ticketVars
  PROVE  TicketInv'
<1>0. TicketTypeOK
  BY DEF TicketInv
<1>1. ASSUME NEW w \in Workers, NEW t \in TicketIds, NEW by \in {Requester, Nobody}, NEW attach \in BOOLEAN,
             OpenTicket(w, t, by, attach)
      PROVE  TicketInv'
  <2> DEFINE r == [TicketFree EXCEPT !.at = "opening", !.tickets = {t}, !.by = by, !.file = Saved(attach)]
  <2>1. /\ files \subseteq files' /\ files' \subseteq Nat /\ IsFiniteSet(files')
        /\ Saved(attach) \subseteq files' /\ Saved(attach) \subseteq Nat
    BY <1>0, <1>1, SavesFile DEF OpenTicket
  <2>6. /\ r \in TicketRequests /\ r.at = "opening" /\ r.tickets = {t} /\ r.file = Saved(attach)
        /\ r.claims = FALSE
    BY <2>1 DEF TicketFree, TicketRequests, Open, Pending, Closed
  <2> HIDE DEF r
  <2>2. PICK q \in TicketRequests : /\ q = r /\ q.at = "opening" /\ q.tickets = {t} /\ q.file = Saved(attach)
                                   /\ q.claims = FALSE
    BY <2>6
  <2>3. Knows(q)'
    BY <1>1, <2>1, <2>2 DEF OpenTicket, Knows
  <2>4. ticketreq' = [ticketreq EXCEPT ![w] = q] /\ ticketfails' \in Nat
    BY <1>0, <1>1, <2>2 DEF r, OpenTicket, TicketTypeOK
  <2>5. /\ UNCHANGED <<ticket, attached, claimant, crossed>>
        /\ \A v \in Workers : t \notin ticketreq[v].tickets
    BY <1>1 DEF OpenTicket
  <2> QED
    BY <2>1, <2>2, <2>3, <2>4, <2>5, RequestBecomes
<1>2. ASSUME NEW w \in Workers, NEW t \in TicketIds, NEW by \in Staff \cup {Requester},
             NEW chosen \in {"Open", "Completed"}, NEW attach \in BOOLEAN, ReadTicket(w, t, by, chosen, attach)
      PROVE  TicketInv'
  <2> DEFINE claim == by \in Staff /\ chosen \notin Closed
             assigned == IF claim THEN by ELSE ticket[t].assigned
             r == Reply(t, by, chosen, attach, assigned)
  <2>1. /\ files \subseteq files' /\ files' \subseteq Nat /\ IsFiniteSet(files')
        /\ Saved(attach) \subseteq files' /\ Saved(attach) \subseteq Nat
    BY <1>0, <1>2, SavesFile DEF ReadTicket
  <2>2. assigned \in Staff \cup {Nobody}
    BY <1>0 DEF TicketTypeOK, TicketRows
  <2>3. (IF chosen = "Open" THEN Default(t, by) ELSE chosen) \in Open
    BY DEF Default, Open, Pending, Closed
  <2>4. claim \in BOOLEAN
    OBVIOUS
  <2>5. /\ r.at = "replying" /\ r.tickets = {t} /\ r.by = by /\ r.assigned = assigned
        /\ r.file = Saved(attach) /\ r.claims = claim
    BY DEF Reply
  <2>6. r \in TicketRequests
    BY <2>1, <2>2, <2>3, <2>4 DEF Reply, TicketRequests
  <2>7. /\ Exists(t) /\ ticketreq' = [ticketreq EXCEPT ![w] = r]
        /\ ticketfails' \in Nat /\ UNCHANGED <<ticket, attached, claimant, crossed>>
    BY <1>0, <1>2 DEF ReadTicket, TicketTypeOK
  <2>8. ticket[t].status # "absent"
    BY <2>7 DEF Exists, Open, Pending, Closed
  <2>9. r.claims => r.by \in Staff /\ r.assigned = r.by
    BY <2>5
  <2>10. ~r.claims => r.assigned = ticket[t].assigned
    BY <2>5
  <2> HIDE DEF r
  <2>13. PICK q \in TicketRequests : q = r
    BY <2>6
  <2>11. Knows(q)'
    BY <2>1, <2>5, <2>7, <2>8, <2>9, <2>10, <2>13 DEF Knows
  <2>12. \A v \in Workers : ticketreq[v].at = "opening" => t \notin ticketreq[v].tickets
    BY <2>8 DEF TicketInv, Knows
  <2> QED
    BY <2>1, <2>5, <2>7, <2>11, <2>12, <2>13, RequestBecomes
<1>3. ASSUME NEW w \in Workers, NEW t \in TicketIds, DeleteTicket(w, t) PROVE TicketInv'
  <2>1. PICK gone \in TicketRows : ticket' = [ticket EXCEPT ![t] = gone] /\ gone.status = "deleted"
    <3>1. [NoTicket EXCEPT !.status = "deleted"] \in TicketRows
      BY DEF NoTicket, TicketRows
    <3> QED
      BY <1>3, <3>1 DEF DeleteTicket, NoTicket
  <2>2. /\ Exists(t) /\ UNCHANGED <<attached, files, ticketreq, ticketfails, claimant, crossed>>
    BY <1>3 DEF DeleteTicket
  <2>3. \A s \in TicketIds : ticket'[s] = IF s = t THEN gone ELSE ticket[s]
    BY <1>0, <2>1 DEF TicketTypeOK
  <2>4. TicketTypeOK'
    BY <1>0, <2>1, <2>2 DEF TicketTypeOK
  <2>5. ticket[t].status # "absent" /\ "deleted" \notin Open
    BY <2>2 DEF Exists, Open, Pending, Closed
  <2>6. ASSUME NEW v \in Workers PROVE Knows(ticketreq[v])'
    <3>1. Knows(ticketreq[v]) /\ ticketreq[v].tickets \subseteq TicketIds
      BY <1>0 DEF TicketInv, TicketTypeOK, TicketRequests
    <3> QED
      BY <2>1, <2>2, <2>3, <2>5, <3>1 DEF Knows, Exists
  <2>7. OpensAlone'
    BY <2>2 DEF TicketInv, OpensAlone
  <2>8. Unclaimed' /\ ClaimStands'
    BY <2>1, <2>2, <2>3, <2>5 DEF TicketInv, Unclaimed, ClaimStands, Exists
  <2> QED
    BY <2>4, <2>6, <2>7, <2>8 DEF TicketInv
<1>4. ASSUME NEW w \in Workers, TicketEnd(w), ticketfails' \in Nat,
             UNCHANGED <<ticket, attached, files, claimant, crossed>>
      PROVE  TicketInv'
  <2>1. ticketreq' = [ticketreq EXCEPT ![w] = TicketFree] /\ TicketFree.at = "free" /\ TicketFree.tickets = {}
    BY <1>4 DEF TicketEnd, TicketFree
  <2>2. files \subseteq files' /\ files' \subseteq Nat /\ IsFiniteSet(files')
    BY <1>0, <1>4 DEF TicketTypeOK
  <2> QED
    BY <1>4, <2>1, <2>2, FreeTicketRequest, RequestBecomes
<1>5. ASSUME NEW w \in Workers, NEW t \in ticketreq[w].tickets, CommitTicket(w, t) PROVE TicketInv'
  <2>0. /\ ticketreq[w] \in TicketRequests /\ t \in TicketIds /\ Knows(ticketreq[w])
        /\ ticketreq[w].at = "opening"
    BY <1>0, <1>5 DEF TicketInv, TicketTypeOK, TicketRequests, CommitTicket
  <2>1. PICK new \in TicketRows : ticket' = [ticket EXCEPT ![t] = new] /\ new.status = "Open" /\ new.assigned = Nobody
    <3> DEFINE n == [status |-> "Open", guest |-> ticketreq[w].by = Nobody, assigned |-> Nobody]
    <3>1. n \in TicketRows
      BY DEF TicketRows, Open
    <3> QED
      BY <1>5, <3>1 DEF CommitTicket
  <2>2. /\ ticketreq' = [ticketreq EXCEPT ![w] = TicketFree]
        /\ attached' = [attached EXCEPT ![t] = ticketreq[w].file]
        /\ UNCHANGED <<files, ticketfails, claimant, crossed>>
    BY <1>5 DEF CommitTicket, TicketEnd
  <2>3. \A v \in Workers : ticketreq'[v] = IF v = w THEN TicketFree ELSE ticketreq[v]
    BY <1>0, <2>2 DEF TicketTypeOK
  <2>4. \A s \in TicketIds : ticket'[s] = IF s = t THEN new ELSE ticket[s]
    BY <1>0, <2>1 DEF TicketTypeOK
  <2>5. TicketTypeOK'
    <3>1. ticketreq[w].file \subseteq files
      BY <2>0 DEF Knows
    <3>2. attached' \in [TicketIds -> SUBSET files']
      BY <1>0, <2>2, <3>1 DEF TicketTypeOK
    <3>3. ticketreq' \in [Workers -> TicketRequests]
      BY <1>0, <2>2, FreeTicketRequest DEF TicketTypeOK
    <3>4. ticket' \in [TicketIds -> TicketRows]
      BY <1>0, <2>1 DEF TicketTypeOK
    <3> QED
      BY <1>0, <2>2, <3>2, <3>3, <3>4 DEF TicketTypeOK
  <2>6. ASSUME NEW v \in Workers PROVE Knows(ticketreq[v])'
    <3>1. CASE v = w
      BY <2>3, <3>1, FreeTicketRequest DEF Knows
    <3>2. CASE v # w
      <4>1. ticketreq'[v] = ticketreq[v] /\ t \notin ticketreq[v].tickets
        BY <2>0, <2>3, <3>2 DEF TicketInv, OpensAlone
      <4>2. ticketreq[v].tickets \subseteq TicketIds /\ Knows(ticketreq[v])
        BY <1>0 DEF TicketInv, TicketTypeOK, TicketRequests
      <4>3. \A s \in ticketreq[v].tickets : ticket'[s] = ticket[s]
        BY <2>4, <4>1, <4>2
      <4> QED
        BY <2>2, <4>1, <4>2, <4>3 DEF Knows, Exists
    <3> QED
      BY <3>1, <3>2
  <2>7. OpensAlone'
    BY <2>3 DEF TicketInv, OpensAlone, TicketFree
  <2>8. claimant[t] = Nobody
    BY <2>0 DEF TicketInv, Unclaimed, Knows
  <2>9. Unclaimed' /\ ClaimStands'
    BY <2>1, <2>2, <2>4, <2>8 DEF TicketInv, Unclaimed, ClaimStands, Exists
  <2> QED
    BY <2>5, <2>6, <2>7, <2>9 DEF TicketInv
<1>6. ASSUME NEW w \in Workers, NEW t \in ticketreq[w].tickets, CommitReply(w, t), Exists(t) PROVE TicketInv'
  <2>0. /\ ticketreq[w] \in TicketRequests /\ t \in TicketIds /\ Knows(ticketreq[w])
        /\ ticketreq[w].at = "replying"
    BY <1>0, <1>6 DEF TicketInv, TicketTypeOK, TicketRequests, CommitReply
  <2>1. PICK new \in TicketRows : /\ ticket' = [ticket EXCEPT ![t] = new]
                                  /\ new.status \in Open /\ new.assigned = ticketreq[w].assigned
    <3> DEFINE n == [ticket[t] EXCEPT !.status = ticketreq[w].status, !.assigned = ticketreq[w].assigned]
    <3>1. ticket[t] \in TicketRows /\ ticketreq[w].status \in Open /\ ticketreq[w].assigned \in Staff \cup {Nobody}
      BY <1>0, <2>0 DEF TicketTypeOK, TicketRequests
    <3>2. n \in TicketRows /\ n.status = ticketreq[w].status /\ n.assigned = ticketreq[w].assigned
      BY <3>1 DEF TicketRows
    <3>3. ticket' = [ticket EXCEPT ![t] = n]
      BY <1>6 DEF CommitReply
    <3> QED
      BY <3>1, <3>2, <3>3
  <2>2. /\ attached' = [attached EXCEPT ![t] = @ \cup ticketreq[w].file]
        /\ ticketreq' = [v \in Workers |-> IF v = w THEN TicketFree
                           ELSE [ticketreq[v] EXCEPT !.stale = @ \/ t \in ticketreq[v].tickets]]
        /\ UNCHANGED <<files, ticketfails>>
    BY <1>6 DEF CommitReply
  <2>3. \A s \in TicketIds : ticket'[s] = IF s = t THEN new ELSE ticket[s]
    BY <1>0, <2>1 DEF TicketTypeOK
  <2>4. ASSUME NEW v \in Workers, v # w
        PROVE  /\ ticketreq'[v] \in TicketRequests
               /\ ticketreq'[v].at = ticketreq[v].at /\ ticketreq'[v].tickets = ticketreq[v].tickets
               /\ ticketreq'[v].by = ticketreq[v].by /\ ticketreq'[v].assigned = ticketreq[v].assigned
               /\ ticketreq'[v].file = ticketreq[v].file /\ ticketreq'[v].claims = ticketreq[v].claims
               /\ ticketreq'[v].stale <=> ticketreq[v].stale \/ t \in ticketreq[v].tickets
    <3>1. ticketreq'[v] = [ticketreq[v] EXCEPT !.stale = ticketreq[v].stale \/ t \in ticketreq[v].tickets]
      BY <2>2, <2>4
    <3>2. ticketreq[v] \in TicketRequests
      BY <1>0 DEF TicketTypeOK
    <3>3. PICK b \in BOOLEAN : b = (ticketreq[v].stale \/ t \in ticketreq[v].tickets)
      OBVIOUS
    <3>4. ticketreq'[v] = [ticketreq[v] EXCEPT !.stale = b]
      BY <3>1, <3>3, Zenon
    <3> QED
      BY <3>2, <3>3, <3>4 DEF TicketRequests
  <2>5. /\ claimant' \in [TicketIds -> Staff \cup {Nobody}] /\ crossed' \subseteq TicketIds
        /\ \A s \in TicketIds : s # t => claimant'[s] = claimant[s] /\ (s \in crossed' <=> s \in crossed)
        /\ t \notin crossed' => claimant'[t] = ticketreq[w].assigned
    <3>1. CASE ticketreq[w].claims
      <4>1. claimant' = [claimant EXCEPT ![t] = ticketreq[w].by] /\ crossed' = crossed \ {t}
        BY <1>6, <3>1 DEF CommitReply
      <4>2. ticketreq[w].by \in Staff /\ ticketreq[w].assigned = ticketreq[w].by
        BY <2>0, <3>1 DEF Knows
      <4> QED
        BY <1>0, <2>0, <4>1, <4>2 DEF TicketTypeOK
    <3>2. CASE ~ticketreq[w].claims
      <4>1. claimant' = claimant /\ crossed' = IF ticketreq[w].stale THEN crossed \cup {t} ELSE crossed
        BY <1>6, <3>2 DEF CommitReply
      <4>2. ~ticketreq[w].stale => ticketreq[w].assigned = ticket[t].assigned
        BY <1>6, <2>0, <3>2 DEF Knows
      <4>3. t \notin crossed => ticket[t].assigned = claimant[t]
        BY <1>6, <2>0 DEF TicketInv, ClaimStands
      <4> QED
        BY <1>0, <2>0, <4>1, <4>2, <4>3 DEF TicketTypeOK
    <3> QED
      BY <3>1, <3>2
  <2>6. TicketTypeOK'
    <3>1. ticketreq[w].file \subseteq files
      BY <2>0 DEF Knows
    <3>2. attached' \in [TicketIds -> SUBSET files']
      BY <1>0, <2>0, <2>2, <3>1 DEF TicketTypeOK
    <3>3. \A v \in Workers : ticketreq'[v] \in TicketRequests
      BY <2>2, <2>4, FreeTicketRequest
    <3>4. ticketreq' \in [Workers -> TicketRequests]
      BY <2>2, <3>3
    <3>5. ticket' \in [TicketIds -> TicketRows]
      BY <1>0, <2>1 DEF TicketTypeOK
    <3> QED
      BY <1>0, <2>2, <2>5, <3>2, <3>4, <3>5 DEF TicketTypeOK
  <2>7. ticketreq'[w] = TicketFree
    BY <2>2
  <2>8. ticket[t].status # "absent" /\ ticket'[t].status # "absent"
    BY <1>6, <2>0, <2>1, <2>3 DEF Exists, Open, Pending, Closed
  <2>9. ASSUME NEW v \in Workers PROVE Knows(ticketreq[v])'
    <3>1. CASE v = w
      BY <2>7, <3>1, FreeTicketRequest DEF Knows
    <3>2. CASE v # w
      <4>1. ticketreq[v].tickets \subseteq TicketIds /\ Knows(ticketreq[v])
        BY <1>0 DEF TicketInv, TicketTypeOK, TicketRequests
      <4>2. ASSUME NEW s \in ticketreq[v].tickets
            PROVE  /\ ticketreq[v].at = "opening" => ticket'[s].status = "absent"
                   /\ ticketreq[v].at = "replying" => ticket'[s].status # "absent"
                   /\ ticketreq[v].at = "replying" /\ ~ticketreq'[v].stale /\ ~ticketreq[v].claims /\ Exists(s)'
                        => ticketreq[v].assigned = ticket'[s].assigned
        <5>1. CASE s = t
          BY <2>4, <2>8, <3>2, <4>1, <5>1 DEF Knows
        <5>2. CASE s # t
          <6>1. ticket'[s] = ticket[s]
            BY <2>3, <4>1, <5>2
          <6> QED
            BY <2>4, <3>2, <4>1, <6>1 DEF Knows, Exists
        <5> QED
          BY <5>1, <5>2
      <4> QED
        BY <2>2, <2>4, <3>2, <4>1, <4>2 DEF Knows
    <3> QED
      BY <3>1, <3>2
  <2>10. OpensAlone'
    BY <2>4, <2>7 DEF TicketInv, OpensAlone, TicketFree
  <2>11. Unclaimed'
    BY <2>3, <2>5, <2>8 DEF TicketInv, Unclaimed
  <2>12. ClaimStands'
    BY <2>1, <2>3, <2>5 DEF TicketInv, ClaimStands, Exists
  <2> QED
    BY <2>6, <2>9, <2>10, <2>11, <2>12 DEF TicketInv
<1>7. ASSUME UNCHANGED ticketVars PROVE TicketInv'
  BY <1>7 DEF ticketVars, TicketInv, TicketTypeOK, Knows, OpensAlone, Unclaimed, ClaimStands, Exists
<1>8. ASSUME NEW w \in Workers, TicketStart(w) PROVE TicketInv'
  BY <1>1, <1>2, <1>3, <1>8 DEF TicketStart
<1>9. ASSUME NEW w \in Workers, TicketContinue(w) PROVE TicketInv'
  <2>1. PICK t \in ticketreq[w].tickets : CommitTicket(w, t) \/ CommitReply(w, t)
    BY <1>9 DEF TicketContinue
  <2>2. ASSUME CommitReply(w, t), ~Exists(t) PROVE TicketInv'
    <3>1. TicketEnd(w) /\ UNCHANGED <<ticket, attached, files, claimant, crossed, ticketfails>>
      BY <2>2 DEF CommitReply
    <3> QED
      BY <1>0, <1>4, <3>1 DEF TicketTypeOK
  <2> QED
    BY <1>5, <1>6, <2>1, <2>2
<1>10. ASSUME NEW w \in Workers, TicketFail(w) PROVE TicketInv'
  BY <1>0, <1>4, <1>10 DEF TicketFail, TicketTypeOK
<1> QED
  BY <1>7, <1>8, <1>9, <1>10 DEF TicketStep

LEMMA TicketInvariant == Spec => []TicketInv
<1>1. Init => TicketInv
  BY TicketInitial DEF Init
<1>2. TicketInv /\ [Next]_vars => TicketInv'
  BY TicketsAlone, TicketSteps
<1> QED
  BY <1>1, <1>2, PTL DEF Spec

\* For any tickets, staff and workers, a claim ends by another claim, or by the answer of a request
\* that had read the ticket before it was written.
THEOREM ClaimsStand == Spec => []ClaimStands
<1>1. TicketInv => ClaimStands
  BY DEF TicketInv
<1> QED
  BY <1>1, TicketInvariant, PTL
=============================================================================
