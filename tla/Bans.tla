-------------------------------- MODULE Bans --------------------------------
(***************************************************************************)
(* Bans (app/blueprints/admin/user_mgmt.py): a ban names accounts, and may  *)
(* name a machine by its MAC address or its host id; lifting it restores    *)
(* the accounts.  Two scripts, started after each change and not waited     *)
(* for, carry the machines over to Robust's configuration and the firewall  *)
(* (scripts/sync_robust.py, scripts/sync_firewall.py).                      *)
(*                                                                         *)
(* Every call to the grid writes an audit entry on the connection of the    *)
(* request, and so commits what the ban has written so far.                 *)
(***************************************************************************)
EXTENDS GridAccounts

CONSTANTS
  BanIds,     \* bans_master.banid, given in order
  Machines,   \* a MAC address and a host id
  SeenOn,     \* rows of gatekeeper_mac and gatekeeper_host_id: user, machine
  SyncRuns    \* bound: how often the two scripts are started

ASSUME BanAssumption ==
  /\ BanIds \subseteq Nat
  /\ SeenOn \subseteq Users \X Machines
  /\ SyncRuns \in Nat

VARIABLES
  ban,        \* [BanIds -> the rows of the ban]
  banreq,     \* [Workers -> the request being served]
  macrun,     \* [1 .. SyncRuns -> a run of sync_robust.py]
  hostrun,    \* [1 .. SyncRuns -> a run of sync_firewall.py]
  ini,        \* DeniedMacs in Robust's configuration file, empty in a torn one
  torn,       \* the file has lost its sections: truncated, not written whole again
  denied,     \* DeniedMacs that the running Robust has loaded
  dropped,    \* host ids with a rule in the firewall
  (* history *)
  reads,      \* runs of sync_robust.py that have read the bans
  lastread,   \* the one of them that wrote the file last
  unsynced,   \* a script, or a request that was to start it, has failed
  overtaken   \* users a ban named after a request to lift it had read its names

banVars == <<ban, banreq, macrun, hostrun, ini, torn, denied, dropped, reads, lastread, unsynced,
             overtaken>>

Kinds   == {"account", "mac", "hostid"}
NoBan   == [state |-> "none", kind |-> "account", machine |-> {}, names |-> {}]
BanRows == [state : {"none", "live", "lifted"}, kind : Kinds, machine : SUBSET Machines,
            names : SUBSET Users]
BanFree == [at |-> "free", ban |-> 0, kind |-> "account", machine |-> {}, todo |-> {}]
BanRequests == [at : {"free", "banning", "triggering", "lifting", "restoring"}, ban : BanIds \cup {0},
                kind : Kinds, machine : SUBSET Machines, todo : SUBSET Users]
\* whole: the run has not read a torn file.
NoRun == [at |-> "idle", read |-> {}, n |-> 0, whole |-> TRUE]
Runs  == [at : {"idle", "started", "read", "parsed", "open", "written", "done"},
          read : SUBSET Machines, n : Nat, whole : BOOLEAN]

BanInit ==
  /\ ban     = [b \in BanIds |-> NoBan]
  /\ banreq  = [w \in Workers |-> BanFree]
  /\ macrun  = [n \in 1 .. SyncRuns |-> NoRun]
  /\ hostrun = [n \in 1 .. SyncRuns |-> NoRun]
  /\ ini = {} /\ torn = FALSE /\ denied = {} /\ dropped = {}
  /\ reads = 0 /\ lastread = 0 /\ unsynced = FALSE /\ overtaken = {}

scriptVars == <<macrun, hostrun, ini, torn, denied, dropped, reads, lastread>>

LiveMacs  == UNION {ban[b].machine : b \in {c \in BanIds : ban[c].state = "live"}}
LiveHosts == UNION {ban[b].machine : b \in {c \in BanIds : ban[c].state = "live" /\ ban[c].kind = "hostid"}}
NamedBy(u) == {b \in BanIds : ban[b].state = "live" /\ u \in ban[b].names}

\* _collect_ban_evidence: who was seen on the machine; for an account, who shares one with it.
UsersOf(ms) == {u \in Users : \E m \in ms : <<u, m>> \in SeenOn}
Linked(kind, ms, seeds) ==
  seeds \cup UsersOf(IF kind = "account" THEN {m \in Machines : \E u \in seeds : <<u, m>> \in SeenOn}
                                         ELSE ms)

\* create_ban: the master row and its evidence, in a transaction; an account ban has no machine.
\* A collection that fails is logged, and only the accounts typed are enforced.
BeginBan(w, b) ==
  /\ \A c \in BanIds : c < b => ban[c].state # "none" \/ \E v \in Workers : banreq[v].ban = c
  /\ ban[b].state = "none" /\ \A v \in Workers : banreq[v].ban # b
  /\ \E kind \in Kinds, m \in Machines, seeds \in SUBSET Users :
       LET ms == IF kind = "account" THEN {} ELSE {m} IN
       \/ /\ banreq' = [banreq EXCEPT ![w] = [at |-> "banning", ban |-> b, kind |-> kind, machine |-> ms,
                                              todo |-> Linked(kind, ms, seeds)]]
          /\ SameLevels
       \/ /\ Linked(kind, ms, seeds) # seeds
          /\ banreq' = [banreq EXCEPT ![w] = [at |-> "banning", ban |-> b, kind |-> kind, machine |-> ms,
                                              todo |-> seeds]]
          /\ Died({})
  /\ UNCHANGED <<ban, unsynced, overtaken>> /\ UNCHANGED scriptVars

\* What the request has written becomes visible, unless the ban was lifted meanwhile.
Publish(w, names) ==
  ban' = [ban EXCEPT ![banreq[w].ban] =
            [state |-> "live", kind |-> banreq[w].kind, machine |-> banreq[w].machine,
             names |-> @.names \cup names]]

\* One account: its row in bans_uuid, the call, and the commit of the audit entry.
BanUser(w, u) ==
  /\ banreq[w].at = "banning" /\ u \in banreq[w].todo
  /\ ban[banreq[w].ban].state # "lifted"
  /\ SetUserLevel(u, "banned", "bans")
  /\ Publish(w, {u})
  /\ banreq' = [banreq EXCEPT ![w].todo = @ \ {u}]
  /\ overtaken' = IF \E v \in Workers : banreq[v].at = "lifting" /\ banreq[v].ban = banreq[w].ban
                  THEN overtaken \cup {u} ELSE overtaken
  /\ UNCHANGED unsynced /\ UNCHANGED scriptVars

\* The foreign key fails: the ban was lifted under the request's hands.  With all accounts done it
\* depends on whether there are related ones to record.
BanRefused(w) ==
  /\ banreq[w].at = "banning"
  /\ ban[banreq[w].ban].state = "lifted"
  /\ banreq' = [banreq EXCEPT ![w] = BanFree]
  /\ SameLevels /\ UNCHANGED <<ban, unsynced, overtaken>> /\ UNCHANGED scriptVars

\* Mutant: the scripts are started for bans of a host id only.
FinishHostBan(w) ==
  /\ banreq[w].at = "banning" /\ banreq[w].todo = {}
  /\ IF ban[banreq[w].ban].state = "lifted" THEN UNCHANGED ban ELSE Publish(w, {})
  /\ banreq' = IF banreq[w].kind # "hostid" THEN [banreq EXCEPT ![w] = BanFree]
               ELSE [banreq EXCEPT ![w].at = "triggering"]
  /\ SameLevels /\ UNCHANGED <<unsynced, overtaken>> /\ UNCHANGED scriptVars

\* The notes and the last commit; a ban of accounts needs no script.
FinishBan(w) ==
  /\ banreq[w].at = "banning" /\ banreq[w].todo = {}
  /\ IF ban[banreq[w].ban].state = "lifted" THEN UNCHANGED ban ELSE Publish(w, {})
  /\ banreq' = IF banreq[w].kind = "account" THEN [banreq EXCEPT ![w] = BanFree]
               ELSE [banreq EXCEPT ![w].at = "triggering"]
  /\ SameLevels /\ UNCHANGED <<unsynced, overtaken>> /\ UNCHANGED scriptVars

\* delete_ban reads the names the ban has so far ...
BeginLift(w, b) ==
  /\ ban[b].state = "live"
  /\ banreq' = [banreq EXCEPT ![w] = [BanFree EXCEPT !.at = "lifting", !.ban = b, !.todo = ban[b].names]]
  /\ SameLevels /\ UNCHANGED <<ban, unsynced, overtaken>> /\ UNCHANGED scriptVars

\* Mutant: the names are read after the rows are gone.
DeleteThenRead(w) ==
  /\ banreq[w].at = "lifting"
  /\ ban' = [ban EXCEPT ![banreq[w].ban] = [NoBan EXCEPT !.state = "lifted"]]
  /\ banreq' = [banreq EXCEPT ![w] = [@ EXCEPT !.at = "restoring", !.todo = ban'[banreq[w].ban].names]]
  /\ SameLevels /\ UNCHANGED <<unsynced, overtaken>> /\ UNCHANGED scriptVars

\* ... deletes the master row, which takes the others along, and commits ...
DeleteBan(w) ==
  /\ banreq[w].at = "lifting"
  /\ ban' = [ban EXCEPT ![banreq[w].ban] = [NoBan EXCEPT !.state = "lifted"]]
  /\ banreq' = [banreq EXCEPT ![w].at = "restoring"]
  /\ SameLevels /\ UNCHANGED <<unsynced, overtaken>> /\ UNCHANGED scriptVars

\* ... and restores those it had read to level 0, whatever else they were.
RestoreUser(w, u) ==
  /\ banreq[w].at = "restoring" /\ u \in banreq[w].todo
  /\ SetUserLevel(u, "member", "bans")
  /\ banreq' = [banreq EXCEPT ![w].todo = @ \ {u}]
  /\ UNCHANGED <<ban, unsynced, overtaken>> /\ UNCHANGED scriptVars

\* trigger_system_sync_workers: both scripts are started, and not waited for.
Trigger(w) ==
  /\ banreq[w].at = "triggering" \/ (banreq[w].at = "restoring" /\ banreq[w].todo = {})
  /\ \E n \in 1 .. SyncRuns :
       /\ macrun[n].at = "idle" /\ \A k \in 1 .. n - 1 : macrun[k].at # "idle"
       /\ macrun'  = [macrun EXCEPT ![n].at = "started"]
       /\ hostrun' = [hostrun EXCEPT ![n].at = "started"]
  /\ banreq' = [banreq EXCEPT ![w] = BanFree]
  /\ SameLevels /\ UNCHANGED <<ban, unsynced, overtaken, ini, torn, denied, dropped, reads, lastread>>

BanStart(w) ==
  /\ banreq[w].at = "free"
  /\ \E b \in BanIds : BeginBan(w, b) \/ BeginLift(w, b)
  /\ UNCHANGED <<session, rbac>>

BanContinue(w) ==
  /\ \/ \E u \in Users : BanUser(w, u) \/ RestoreUser(w, u)
     \/ BanRefused(w) \/ FinishBan(w) \/ DeleteBan(w) \/ Trigger(w)
  /\ UNCHANGED <<session, rbac>>

\* A worker dies: the level of an account may have been changed although its row is undone,
\* those still to be restored stay locked out, and no script is started.
BanFail(w) ==
  /\ banreq[w].at # "free"
  /\ IF banreq[w].at = "banning" /\ banreq[w].todo # {} /\ ban[banreq[w].ban].state # "lifted"
     THEN \E u \in banreq[w].todo : Unanswered(u, "banned", "bans")
     ELSE Died(IF banreq[w].at = "restoring" THEN banreq[w].todo ELSE {})
  /\ unsynced' = (unsynced \/ banreq[w].at # "lifting")
  /\ banreq' = [banreq EXCEPT ![w] = BanFree]
  /\ UNCHANGED <<ban, session, rbac, overtaken>> /\ UNCHANGED scriptVars

requestVars == <<ban, banreq, overtaken>>

\* sync_macs reads bans_mac ...
ReadMacs(n) ==
  /\ macrun[n].at = "started"
  /\ reads' = reads + 1
  /\ macrun' = [macrun EXCEPT ![n] = [at |-> "read", read |-> LiveMacs, n |-> reads + 1, whole |-> TRUE]]
  /\ SameLevels /\ UNCHANGED <<hostrun, ini, torn, denied, dropped, lastread, unsynced>>

\* ... then the file, of which it keeps every line but DeniedMacs ...
ReadIni(n) ==
  /\ macrun[n].at = "read"
  /\ macrun' = [macrun EXCEPT ![n].at = "parsed", ![n].whole = ~torn]
  /\ SameLevels /\ UNCHANGED <<hostrun, ini, torn, denied, dropped, reads, lastread, unsynced>>

\* ... opens it for writing, which truncates it ...
OpenIni(n) ==
  /\ macrun[n].at = "parsed"
  /\ ini' = {} /\ torn' = TRUE
  /\ macrun' = [macrun EXCEPT ![n].at = "open"]
  /\ SameLevels /\ UNCHANGED <<hostrun, denied, dropped, reads, lastread, unsynced>>

\* ... writes the lines with DeniedMacs in both sections; lines read of a torn file have no section
\* to hold it.  Of two that write at once the later one's lines stay (that the end of a longer file
\* may follow them is left out) ...
WriteIni(n) ==
  /\ macrun[n].at = "open"
  /\ ini' = IF macrun[n].whole THEN macrun[n].read ELSE {}
  /\ torn' = ~macrun[n].whole
  /\ lastread' = macrun[n].n
  /\ macrun' = [macrun EXCEPT ![n].at = "written"]
  /\ SameLevels /\ UNCHANGED <<hostrun, denied, dropped, reads, unsynced>>

\* ... and restarts Robust, which loads what the file says by then.
RestartRobust(n) ==
  /\ macrun[n].at = "written"
  /\ denied' = ini
  /\ macrun' = [macrun EXCEPT ![n].at = "done"]
  /\ SameLevels /\ UNCHANGED <<hostrun, ini, torn, dropped, reads, lastread, unsynced>>

\* sync_firewall reads bans_host_id ...
ReadHosts(n) ==
  /\ hostrun[n].at = "started"
  /\ hostrun' = [hostrun EXCEPT ![n].at = "read", ![n].read = LiveHosts]
  /\ SameLevels /\ UNCHANGED <<macrun, ini, torn, denied, dropped, reads, lastread, unsynced>>

\* ... and removes and adds their rules; the rule of a host whose ban was lifted stays.
DropHosts(n) ==
  /\ hostrun[n].at = "read"
  /\ dropped' = dropped \cup hostrun[n].read
  /\ hostrun' = [hostrun EXCEPT ![n].at = "done"]
  /\ SameLevels /\ UNCHANGED <<macrun, ini, torn, denied, reads, lastread, unsynced>>

\* A firewall-cmd that fails is logged, and the script succeeds: of the hosts it read only some have
\* a rule afterwards, and others may have lost theirs.
CommandsFail(n) ==
  /\ hostrun[n].at = "read"
  /\ \E kept \in SUBSET hostrun[n].read : dropped' = (dropped \ hostrun[n].read) \cup kept
  /\ hostrun' = [hostrun EXCEPT ![n].at = "done"]
  /\ unsynced' = TRUE
  /\ Died({}) /\ UNCHANGED <<macrun, ini, torn, denied, reads, lastread>>

\* A script fails: sudo refuses, the file is missing or cannot be written, Robust does not restart.
\* What it has done by then stays, an opened file truncated.
ScriptFails(n) ==
  /\ \/ /\ macrun[n].at \notin {"idle", "done"}
        /\ macrun' = [macrun EXCEPT ![n].at = "done"] /\ UNCHANGED hostrun
     \/ /\ hostrun[n].at \notin {"idle", "done"}
        /\ hostrun' = [hostrun EXCEPT ![n].at = "done"] /\ UNCHANGED macrun
  /\ unsynced' = TRUE
  /\ Died({}) /\ UNCHANGED <<ini, torn, denied, dropped, reads, lastread>>

SyncStep(n) ==
  /\ \/ ReadMacs(n) \/ ReadIni(n) \/ OpenIni(n) \/ WriteIni(n) \/ RestartRobust(n)
     \/ ReadHosts(n) \/ DropHosts(n) \/ CommandsFail(n) \/ ScriptFails(n)
  /\ UNCHANGED requestVars /\ UNCHANGED <<session, rbac>>

\* Bans, requests, scripts and the history keep to their types.
BanTypeOK ==
  /\ ban \in [BanIds -> BanRows]
  /\ banreq \in [Workers -> BanRequests]
  /\ macrun \in [1 .. SyncRuns -> Runs] /\ hostrun \in [1 .. SyncRuns -> Runs]
  /\ ini \subseteq Machines /\ denied \subseteq Machines /\ dropped \subseteq Machines
  /\ torn \in BOOLEAN /\ reads \in Nat /\ lastread \in Nat /\ unsynced \in BOOLEAN /\ overtaken \subseteq Users

\* Whoever is locked out by a ban is named by a ban that can be lifted, however bans and their
\* lifting overlap, unless a call or a request failed, or the ban named the user only after the
\* request that lifted it had read its names (then the user stays out, and no ban says why).
BanIsOnRecord ==
  \A u \in Users :
    level[u] = "banned" /\ writer[u] = "bans" /\ u \notin uncertain \cup overtaken
      => NamedBy(u) # {} \/ \E w \in Workers : banreq[w].at = "restoring" /\ u \in banreq[w].todo

Settled ==
  /\ \A w \in Workers : banreq[w].at = "free"
  /\ \A n \in 1 .. SyncRuns : macrun[n].at \in {"idle", "done"} /\ hostrun[n].at \in {"idle", "done"}
  /\ ~unsynced

\* A run read the file while another had it truncated; what it wrote back has no sections, and
\* neither has what any later run writes.
Collided == \E n \in 1 .. SyncRuns : ~macrun[n].whole

\* Once no request and no script is under way and none has failed, nor any command that a script
\* ran and whose failure it only logged, Robust refuses the MAC addresses
\* of the live bans and no others, provided that the run which wrote the file last was the last to
\* read the bans and that no run read the file in another's hands; and the firewall has a rule for
\* every banned host id.  Runs may overlap in any other way.
HardwareBansEnforced ==
  Settled => /\ lastread = reads /\ ~Collided => denied = LiveMacs
             /\ LiveHosts \subseteq dropped
=============================================================================
