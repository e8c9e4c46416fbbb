------------------------------- MODULE Portal -------------------------------
(***************************************************************************)
(* The portal as a service: a few workers, each of which serves one request *)
(* at a time, of any part; and the scripts that run beside them.  The parts *)
(* that handle accounts meet in the level the grid keeps for an account and *)
(* in the sessions; all meet in the workers, which may die in any of them.  *)
(***************************************************************************)
EXTENDS Registration, Bans, SignIn, PolicyAgreement, Roles, Regions, Tickets, LogIngest, Migrations

CONSTANT Mixes   \* bound: how many requests of each part a behaviour has

VARIABLE left    \* [Served -> Nat]: the requests still to come

Served       == {"registration", "bans", "signin", "policies", "roles", "regions", "tickets",
                 "ingest", "migrations"}
OfAccounts   == {"registration", "bans", "signin", "policies", "roles"}

ASSUME MixAssumption == Mixes \subseteq [Served -> Nat]

vars == <<accountVars, registrationVars, banVars, signVars, policyVars, rolereq, regionVars,
          ticketVars, ingestVars, migrationVars, left>>

Init ==
  /\ AccountInit /\ RegistrationInit /\ BanInit /\ SignInit /\ PolicyInit /\ RoleInit
  /\ RegionInit /\ TicketInit /\ IngestInit /\ MigrationInit
  /\ left \in Mixes

\* What a step of one part leaves alone.
Only(part) ==
  /\ IF part \in OfAccounts       THEN TRUE ELSE UNCHANGED accountVars
  /\ IF part = "registration"     THEN TRUE ELSE UNCHANGED registrationVars
  /\ IF part = "bans"             THEN TRUE ELSE UNCHANGED banVars
  /\ IF part = "signin"           THEN TRUE ELSE UNCHANGED signVars
  /\ IF part = "policies"         THEN TRUE ELSE UNCHANGED policyVars
  /\ IF part = "roles"            THEN TRUE ELSE UNCHANGED rolereq
  /\ IF part = "regions"          THEN TRUE ELSE UNCHANGED regionVars
  /\ IF part = "tickets"          THEN TRUE ELSE UNCHANGED ticketVars
  /\ IF part = "ingest"           THEN TRUE ELSE UNCHANGED ingestVars
  /\ IF part = "migrations"       THEN TRUE ELSE UNCHANGED migrationVars

Free(w) ==
  /\ regreq[w] = RegFree /\ banreq[w] = BanFree /\ signreq[w] = SignFree /\ polreq[w] = PolFree
  /\ rolereq[w] = RoleFree /\ regionreq[w] = RegionFree /\ ticketreq[w] = TicketFree

Comes(part) == left[part] > 0 /\ left' = [left EXCEPT ![part] = @ - 1]

\* A worker takes a request ...
Serve(w) ==
  /\ Free(w)
  /\ \/ Comes("registration") /\ RegistrationStart(w) /\ Only("registration")
     \/ Comes("bans")     /\ BanStart(w)    /\ Only("bans")
     \/ Comes("signin")   /\ SignStart(w)   /\ Only("signin")
     \/ Comes("policies") /\ PolicyStart(w) /\ Only("policies")
     \/ Comes("roles")    /\ RoleStart(w)   /\ Only("roles")
     \/ Comes("regions")  /\ RegionStart(w) /\ Only("regions")
     \/ Comes("tickets")  /\ TicketStart(w) /\ Only("tickets")

\* ... goes on with it ...
Continue(w) ==
  /\ \/ RegistrationContinue(w) /\ Only("registration")
     \/ BanContinue(w)    /\ Only("bans")
     \/ SignContinue(w)   /\ Only("signin")
     \/ PolicyContinue(w) /\ Only("policies")
     \/ RoleContinue(w)   /\ Only("roles")
     \/ RegionContinue(w) /\ Only("regions")
     \/ TicketContinue(w) /\ Only("tickets")
  /\ UNCHANGED left

\* ... or dies in it.
Fail(w) ==
  /\ \/ RegistrationFail(w) /\ Only("registration")
     \/ BanFail(w)    /\ Only("bans")
     \/ SignFail(w)   /\ Only("signin")
     \/ PolicyFail(w) /\ Only("policies")
     \/ RoleFail(w)   /\ Only("roles")
     \/ RegionFail(w) /\ Only("regions")
     \/ TicketFail(w) /\ Only("tickets")
  /\ UNCHANGED left

\* The scripts, time, and the simulators that fetch their configuration.
Beside ==
  /\ \/ \E n \in 1 .. SyncRuns : SyncStep(n) /\ Only("bans")
     \/ \E s \in Secrets : Expire(s) /\ UNCHANGED rbac /\ Only("signin")
     \/ \E r \in RegionIds : Fetch(r) /\ Only("regions")
     \/ left["ingest"] > 0     /\ IngestStep    /\ Only("ingest")
     \/ left["migrations"] > 0 /\ MigrationStep /\ Only("migrations")
  /\ UNCHANGED left

Next == Beside \/ \E w \in Workers : Serve(w) \/ Continue(w) \/ Fail(w)

Spec == Init /\ [][Next]_vars

\* Every part keeps to its types, whatever the others do.
TypeOK ==
  /\ AccountTypeOK /\ RegistrationTypeOK /\ BanTypeOK /\ SignTypeOK /\ PolicyTypeOK /\ RoleTypeOK
  /\ RegionTypeOK /\ TicketTypeOK /\ IngestTypeOK /\ MigrationTypeOK
  /\ left \in [Served -> Nat]

\* CHANGELOG.md: agreeing to the policies "only restores Robust user level from the policy-decline
\* lock tier".  So whoever an agreement has let in is not under a ban, whose tier is another one.
RestoresOnlyDeclined ==
  \A u \in Users : writer[u] = "policies" /\ level[u] \in LetIn /\ u \notin uncertain => NamedBy(u) = {}
=============================================================================
