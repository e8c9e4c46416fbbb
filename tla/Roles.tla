------------------------------- MODULE Roles -------------------------------
(***************************************************************************)
(* Portal roles and the user level that goes with them, and levels set by   *)
(* hand (manage_roles and update_user_level in                              *)
(* app/blueprints/admin/user_mgmt.py).  The level is read at the beginning  *)
(* of the request, and raised or lowered at its end by what was read.       *)
(***************************************************************************)
EXTENDS GridAccounts

VARIABLE rolereq   \* [Workers -> the request being served]

RoleFree  == [at |-> "free", users |-> {}, read |-> "absent", grant |-> FALSE]
RoleInit  == rolereq = [w \in Workers |-> RoleFree]
RoleEnd(w) == rolereq' = [rolereq EXCEPT ![w] = RoleFree]

\* 0 and 200 do not look at user_rbac when signing in, 1 and 201 do.
WithRoles    == [member |-> "staff", admin |-> "adminstaff"]
WithoutRoles == [staff |-> "member", adminstaff |-> "admin"]
Normalised(l, granted) ==
  LET tier == IF granted THEN WithRoles ELSE WithoutRoles
  IN  IF l \in DOMAIN tier THEN tier[l] ELSE l

\* The account and its permissions are read.
ReadLevel(w, u, granted) ==
  /\ level[u] # "absent"
  /\ rolereq' = [rolereq EXCEPT ![w] = [at |-> "saving", users |-> {u}, read |-> level[u], grant |-> granted]]
  /\ SameLevels /\ UNCHANGED rbac

\* The mask is written, or its row deleted when no bit is left, and committed.
SaveRoles(w, u) ==
  /\ rolereq[w].at = "saving"
  /\ rbac' = IF rolereq[w].grant THEN rbac \cup {u} ELSE rbac \ {u}
  /\ rolereq' = [rolereq EXCEPT ![w].at = "levelling"]
  /\ SameLevels

\* The level that was read decides, whatever it is by now.
NormaliseLevel(w, u) ==
  /\ rolereq[w].at = "levelling"
  /\ IF Normalised(rolereq[w].read, rolereq[w].grant) = rolereq[w].read THEN SameLevels
     ELSE SetUserLevel(u, Normalised(rolereq[w].read, rolereq[w].grant), "roles")
  /\ RoleEnd(w)
  /\ UNCHANGED rbac

\* update_user_level
SetByHand(u, l) ==
  /\ SetUserLevel(u, l, "roles")
  /\ UNCHANGED <<rbac, rolereq>>

RoleStart(w) ==
  /\ rolereq[w].at = "free"
  /\ \E u \in Users :
       \/ \E granted \in BOOLEAN : ReadLevel(w, u, granted)
       \/ \E l \in {"member", "admin", "banned"} : SetByHand(u, l)
  /\ UNCHANGED session

RoleContinue(w) ==
  /\ \E u \in rolereq[w].users : SaveRoles(w, u) \/ NormaliseLevel(w, u)
  /\ UNCHANGED session

RoleFail(w) ==
  /\ rolereq[w].at # "free"
  /\ RoleEnd(w)
  /\ Died(rolereq[w].users)
  /\ UNCHANGED <<session, rbac>>

\* Requests keep to their type.
RoleTypeOK ==
  rolereq \in [Workers -> [at : {"free", "saving", "levelling"}, users : SUBSET Users,
                           read : Levels, grant : BOOLEAN]]
=============================================================================
