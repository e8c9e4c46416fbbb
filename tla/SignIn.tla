------------------------------- MODULE SignIn -------------------------------
(***************************************************************************)
(* Signing in and out, and the two kinds of secret that are good for one    *)
(* use: authorization codes, which external applications exchange for       *)
(* access tokens, and the tokens of password reset mails                    *)
(* (app/blueprints/auth/routes.py, app/utils/password_resets.py).           *)
(*                                                                         *)
(* A secret is looked up in one statement and deleted in a later one, and   *)
(* nobody looks at how many rows the DELETE found.                          *)
(***************************************************************************)
EXTENDS GridAccounts

CONSTANTS Codes, Resets   \* secrets, each issued once

ASSUME SecretAssumption == Codes \cap Resets = {}

VARIABLES
  issuedTo,   \* [Secrets -> SUBSET Users]: whose secret it is; {} before it is issued
  valid,      \* rows of oidc_auth_codes and password_resets that have not expired
  tokens,     \* rows of oidc_access_tokens: the code and the worker that granted it
  signreq,    \* [Workers -> the request being served]
  (* history *)
  honoured,   \* [Secrets -> [Workers -> Nat]]: grants and changes of password for a secret
  unburnt,    \* resets whose request died between the change and the DELETE, or missed the answer
  over,       \* codes of a user who has signed out since, and that nobody was exchanging then
  undeleted   \* those of them whose deletion failed, and has not succeeded since

signVars == <<issuedTo, valid, tokens, signreq, honoured, unburnt, over, undeleted>>

Secrets    == Codes \cup Resets
SignFree   == [at |-> "free", users |-> {}, secret |-> {}]
SignPhases == {"free", "exchanging", "granting", "renewing", "changing", "burning"}

SignInit ==
  /\ issuedTo = [s \in Secrets |-> {}]
  /\ valid    = {} /\ tokens = {}
  /\ signreq  = [w \in Workers |-> SignFree]
  /\ honoured = [s \in Secrets |-> [w \in Workers |-> 0]]
  /\ unburnt  = {} /\ over = {} /\ undeleted = {}

SignGo(w, phase, us, ss) ==
  signreq' = [signreq EXCEPT ![w] = [at |-> phase, users |-> us, secret |-> ss]]
SignEnd(w)  == signreq' = [signreq EXCEPT ![w] = SignFree]
Of(u)       == {s \in Secrets : issuedTo[s] = {u}}
InExchange  == UNION {signreq[w].secret : w \in {v \in Workers : signreq[v].at \in {"exchanging", "granting"}}}
SameSecrets == UNCHANGED <<issuedTo, valid, tokens, honoured, unburnt, over, undeleted>>
\* Codes that signing out is to make worthless.
Ended(u)    == (Of(u) \cap Codes) \ InExchange

\* login: the tier decides; an account that declined the policies may sign in to agree to them.
Login(u) ==
  /\ level[u] \in LetIn \cup {"declined"}
  /\ session' = [session EXCEPT ![u] = level[u]]
  /\ SameLevels /\ SameSecrets /\ UNCHANGED signreq

\* Mutant: signing out deletes the access tokens, and forgets the codes.
LogoutTokens(u) ==
  /\ session[u] # "absent"
  /\ session' = [session EXCEPT ![u] = "absent"]
  /\ valid'   = valid
  /\ tokens'  = {t \in tokens : t[1] \notin Of(u)}
  /\ over'    = over \cup Ended(u)
  /\ undeleted' = undeleted \ Ended(u)
  /\ SameLevels /\ UNCHANGED <<issuedTo, signreq, honoured, unburnt>>

\* logout: the codes and the access tokens of the user go in one commit.
LogoutAll(u) ==
  /\ session[u] # "absent"
  /\ session' = [session EXCEPT ![u] = "absent"]
  /\ valid'   = valid \ (Of(u) \cap Codes)
  /\ tokens'  = {t \in tokens : t[1] \notin Of(u)}
  /\ over'    = over \cup Ended(u)
  /\ undeleted' = undeleted \ Ended(u)
  /\ SameLevels /\ UNCHANGED <<issuedTo, signreq, honoured, unburnt>>

\* The deletion fails and is logged; the user is signed out all the same, is told that it was done,
\* and codes and access tokens live on.
LogoutFails(u) ==
  /\ session[u] # "absent"
  /\ session' = [session EXCEPT ![u] = "absent"]
  /\ over'      = over \cup Ended(u)
  /\ undeleted' = undeleted \cup Ended(u)
  /\ Died({u})
  /\ UNCHANGED <<issuedTo, valid, tokens, signreq, honoured, unburnt>>

Issue(s, u) ==
  /\ s \in Secrets /\ issuedTo[s] = {}
  /\ issuedTo' = [issuedTo EXCEPT ![s] = {u}]

\* authorize: a member who is signed in, and has not declined the policies, gets a code.
Authorize(u, c) ==
  /\ session[u] \in LetIn
  /\ Issue(c, u)
  /\ valid' = valid \cup {c}
  /\ SameLevels /\ UNCHANGED <<session, tokens, signreq, honoured, unburnt, over, undeleted>>

\* token: the code is looked up ...
ReadCode(w, c) ==
  /\ c \in valid
  /\ SignGo(w, "exchanging", issuedTo[c], {c})
  /\ SameLevels /\ SameSecrets /\ UNCHANGED session

\* Mutant: the transaction that deletes the code is not committed.
KeepCode(w) ==
  /\ signreq[w].at = "exchanging"
  /\ signreq' = [signreq EXCEPT ![w].at = "granting"]
  /\ SameLevels /\ SameSecrets /\ UNCHANGED session

\* ... deleted, in the same transaction ...
DeleteCode(w) ==
  /\ signreq[w].at = "exchanging"
  /\ valid' = valid \ signreq[w].secret
  /\ signreq' = [signreq EXCEPT ![w].at = "granting"]
  /\ SameLevels /\ UNCHANGED <<session, issuedTo, tokens, honoured, unburnt, over, undeleted>>

\* ... and answered by an access token, in another.
Grant(w, c) ==
  /\ signreq[w].at = "granting" /\ c \in signreq[w].secret
  /\ tokens'   = tokens \cup {<<c, w>>}
  /\ honoured' = [honoured EXCEPT ![c][w] = @ + 1]
  /\ SignEnd(w)
  /\ SameLevels /\ UNCHANGED <<session, issuedTo, valid, unburnt, over, undeleted>>

\* create_password_reset_token, for an account that there is, ...
BeginReset(w, u) ==
  /\ level[u] # "absent"
  /\ SignGo(w, "renewing", {u}, {})
  /\ SameLevels /\ SameSecrets /\ UNCHANGED session

\* ... deletes the tokens of the user and inserts a fresh one, in one transaction.
RenewReset(w, u, r) ==
  /\ signreq[w].at = "renewing"
  /\ Issue(r, u)
  /\ valid' = (valid \ (Of(u) \cap Resets)) \cup {r}
  /\ SignEnd(w)
  /\ SameLevels /\ UNCHANGED <<session, tokens, honoured, unburnt, over, undeleted>>

\* reset_password: the token is looked up ...
ReadReset(w, r) ==
  /\ r \in valid
  /\ SignGo(w, "changing", issuedTo[r], {r})
  /\ SameLevels /\ SameSecrets /\ UNCHANGED session

\* ... the grid changes the password ...
ChangePassword(w, r) ==
  /\ signreq[w].at = "changing" /\ r \in signreq[w].secret
  /\ honoured' = [honoured EXCEPT ![r][w] = @ + 1]
  /\ signreq'  = [signreq EXCEPT ![w].at = "burning"]
  /\ SameLevels /\ UNCHANGED <<session, issuedTo, valid, tokens, unburnt, over, undeleted>>

\* ... or does not answer, and the token stays for another attempt ...
PasswordUnanswered(w, r) ==
  /\ signreq[w].at = "changing" /\ r \in signreq[w].secret
  /\ \E n \in {0, 1} : honoured' = [honoured EXCEPT ![r][w] = @ + n]
  /\ unburnt' = unburnt \cup {r}
  /\ SignEnd(w)
  /\ Died({}) /\ UNCHANGED <<session, issuedTo, valid, tokens, over, undeleted>>

\* ... and all tokens of the user go.
BurnResets(w, u) ==
  /\ signreq[w].at = "burning"
  /\ valid' = valid \ (Of(u) \cap Resets)
  /\ SignEnd(w)
  /\ SameLevels /\ UNCHANGED <<session, issuedTo, tokens, honoured, unburnt, over, undeleted>>

\* Five minutes or an hour go by.
Expire(s) ==
  /\ s \in valid
  /\ valid' = valid \ {s}
  /\ SameLevels /\ UNCHANGED <<session, issuedTo, tokens, signreq, honoured, unburnt, over, undeleted>>

SignStart(w) ==
  /\ signreq[w].at = "free"
  /\ \/ \E u \in Users : Login(u) \/ LogoutAll(u) \/ LogoutFails(u) \/ BeginReset(w, u)
     \/ \E u \in Users, c \in Codes : Authorize(u, c)
     \/ \E c \in Codes : ReadCode(w, c)
     \/ \E r \in Resets : ReadReset(w, r)
  /\ UNCHANGED rbac

SignContinue(w) ==
  /\ \/ DeleteCode(w)
     \/ \E s \in signreq[w].secret : Grant(w, s) \/ ChangePassword(w, s) \/ PasswordUnanswered(w, s)
     \/ \E u \in signreq[w].users : BurnResets(w, u) \/ \E r \in Resets : RenewReset(w, u, r)
  /\ UNCHANGED rbac

SignFail(w) ==
  /\ signreq[w].at # "free"
  /\ unburnt' = IF signreq[w].at \in {"changing", "burning"} THEN unburnt \cup signreq[w].secret ELSE unburnt
  /\ SignEnd(w)
  /\ Died({}) /\ UNCHANGED <<session, rbac, issuedTo, valid, tokens, honoured, over, undeleted>>

\* Secrets, access tokens, requests and the history keep to their types.
SignTypeOK ==
  /\ issuedTo \in [Secrets -> SUBSET Users]
  /\ valid \subseteq Secrets
  /\ tokens \subseteq Codes \X Workers
  /\ signreq \in [Workers -> [at : SignPhases, users : SUBSET Users, secret : SUBSET Secrets]]
  /\ honoured \in [Secrets -> [Workers -> Nat]]
  /\ unburnt \subseteq Resets /\ over \subseteq Codes /\ undeleted \subseteq over

\* A code, or the token of a reset mail, is looked up, used and only then gone: requests that
\* overlap use it twice, but each worker uses it at most once, unless the grid's answer or the
\* request was lost between the change of the password and the DELETE.
SpentOncePerWorker ==
  \A s \in Secrets \ unburnt, w \in Workers : honoured[s][w] <= 1

\* Signing out ends what external applications were given: a code issued before it, which nobody
\* was just exchanging, leads to no access token afterwards, unless the deletion failed: then the
\* user is signed out with a message of success, and code and access tokens go on until they expire
\* or until a later signing out deletes them.
LogoutEndsAccess ==
  \A t \in tokens : t[1] \notin over \ undeleted
=============================================================================
