---------------------------- MODULE AccountProofs ----------------------------
(***************************************************************************)
(* Theorems about accounts, for any users, workers and machines, and any    *)
(* number of requests, versions and failures: each worker honours a secret  *)
(* at most once and signing out ends the access of external applications,   *)
(* who is rejected stays out, who browses has agreed since the last bump of *)
(* the policies, and who is locked out by a ban is named by one.  At the    *)
(* end, the types of the whole portal.                                      *)
(***************************************************************************)
EXTENDS Portal, DeskProofs, ScriptProofs, TLAPS

-----------------------------------------------------------------------------
(* Signing in *)

\* The steps of signing in; no other part of the portal touches the secrets.
SignStep ==
  \/ \E w \in Workers : SignStart(w) \/ SignContinue(w) \/ SignFail(w)
  \/ \E s \in Secrets : Expire(s)

LEMMA SignAlone ==
  ASSUME [Next]_vars
  PROVE  [SignStep]_signVars
BY DEF Next, vars, Beside, Serve, Continue, Fail, Only, OfAccounts, SignStep

-----------------------------------------------------------------------------
(* The invariant *)

Issued == {s \in Secrets : issuedTo[s] # {}}

\* A secret belongs to one user, and is issued before it is good for anything.
IssuedToOne ==
  /\ valid \subseteq Issued
  /\ \A s \in Secrets : issuedTo[s] = {} \/ \E u \in Users : issuedTo[s] = {u}

\* What a worker is about to honour it has not honoured before; a code to be granted is gone.
RequestInOrder(w) ==
  /\ signreq[w].secret \subseteq Issued
  /\ signreq[w].at \in {"exchanging", "granting"} => signreq[w].secret \subseteq Codes
  /\ signreq[w].at \in {"changing", "burning"} =>
       /\ signreq[w].secret \subseteq Resets
       /\ \A s \in signreq[w].secret : signreq[w].users = issuedTo[s]
  /\ signreq[w].at \in {"exchanging", "granting", "changing"} =>
       \A s \in signreq[w].secret \ unburnt : honoured[s][w] = 0
  /\ signreq[w].at = "granting" => signreq[w].secret \cap valid = {}

\* A worker that has honoured a secret is still deleting it, or the secret is gone.
SpentIsGone ==
  \A s \in Secrets \ unburnt, w \in Workers :
    /\ honoured[s][w] <= 1
    /\ honoured[s][w] # 0 =>
         /\ s \in Issued
         /\ s \in valid => signreq[w].at = "burning" /\ s \in signreq[w].secret

\* A code whose user has signed out, and whose deletion did not fail, cannot lead to an access
\* token any more.
OverIsOver ==
  \A c \in over \ undeleted :
    /\ c \in Issued \ valid
    /\ \A w \in Workers : signreq[w].at \in {"exchanging", "granting"} => c \notin signreq[w].secret
    /\ \A t \in tokens : t[1] # c

SignInv ==
  /\ SignTypeOK
  /\ IssuedToOne
  /\ \A w \in Workers : RequestInOrder(w)
  /\ SpentIsGone
  /\ OverIsOver

LEMMA SignInitial == SignInit => SignInv
BY DEF SignInit, SignInv, SignTypeOK, SignFree, SignPhases, Issued, IssuedToOne, RequestInOrder,
   SpentIsGone, OverIsOver

-----------------------------------------------------------------------------
(* The steps *)

LEMMA LogoutSteps ==
  ASSUME SignInv, NEW u \in Users, LogoutAll(u) \/ LogoutFails(u)
  PROVE  SignInv'
<1>1. /\ valid' \subseteq valid /\ tokens' \subseteq tokens /\ over' = over \cup Ended(u)
      /\ UNCHANGED <<issuedTo, signreq, honoured, unburnt>>
  BY DEF LogoutAll, LogoutFails
<1>2. /\ Issued' = Issued /\ Ended(u) \subseteq Codes /\ undeleted \subseteq over /\ over \subseteq Codes
  BY <1>1 DEF Issued, Ended, SignInv, SignTypeOK
<1>3. undeleted' \subseteq over'
  BY <1>1, <1>2 DEF LogoutAll, LogoutFails
<1>4. SignTypeOK'
  BY <1>1, <1>2, <1>3 DEF SignInv, SignTypeOK
<1>5. IssuedToOne' /\ \A w \in Workers : RequestInOrder(w)'
  BY <1>1, <1>2 DEF SignInv, IssuedToOne, RequestInOrder
<1>6. SpentIsGone'
  BY <1>1, <1>2 DEF SignInv, SpentIsGone
\* What the deletion did reach is gone ...
<1>7. ASSUME LogoutAll(u), NEW c \in Ended(u)
      PROVE  /\ c \in Issued \ valid' /\ \A t \in tokens' : t[1] # c
             /\ \A w \in Workers : signreq[w].at \in {"exchanging", "granting"} => c \notin signreq[w].secret
  BY <1>7 DEF Ended, Of, Issued, LogoutAll, InExchange
\* ... and nothing else comes under the promise.
<1>8. ASSUME NEW c \in over' \ undeleted'
      PROVE  c \in over \ undeleted \/ (LogoutAll(u) /\ c \in Ended(u))
  BY <1>1, <1>8 DEF LogoutAll, LogoutFails
<1>9. OverIsOver'
  BY <1>1, <1>2, <1>7, <1>8 DEF SignInv, OverIsOver
<1> QED
  BY <1>4, <1>5, <1>6, <1>9 DEF SignInv

\* A secret that is issued was good for nothing before.
LEMMA IssueSteps ==
  ASSUME SignInv, NEW u \in Users, NEW s \in Secrets, Issue(s, u),
         valid' \subseteq valid \cup {s}, UNCHANGED <<tokens, honoured, unburnt, over, undeleted>>,
         NEW w \in Workers, signreq[w].at # "burning",
         signreq' = signreq \/ signreq' = [signreq EXCEPT ![w] = SignFree]
  PROVE  SignInv'
<1>1. issuedTo[s] = {} /\ issuedTo' = [issuedTo EXCEPT ![s] = {u}] /\ issuedTo \in [Secrets -> SUBSET Users]
  BY DEF Issue, SignInv, SignTypeOK
<1>2. Issued' = Issued \cup {s} /\ s \notin Issued
  BY <1>1 DEF Issued
<1>3. \A r \in Issued : issuedTo'[r] = issuedTo[r]
  BY <1>1, <1>2
<1>4. \A v \in Workers : signreq'[v] = signreq[v] \/ (v = w /\ signreq'[v] = SignFree)
  BY DEF SignInv, SignTypeOK
<1>5. SignTypeOK'
  <2>1. issuedTo' \in [Secrets -> SUBSET Users]
    BY <1>1
  <2>2. signreq' \in [Workers -> [at : SignPhases, users : SUBSET Users, secret : SUBSET Secrets]]
    BY DEF SignInv, SignTypeOK, SignFree, SignPhases
  <2> QED
    BY <2>1, <2>2 DEF SignInv, SignTypeOK
<1>6. IssuedToOne'
  BY <1>1, <1>2 DEF SignInv, IssuedToOne
<1>7. ASSUME NEW v \in Workers PROVE RequestInOrder(v)'
  <2>1. CASE signreq'[v] = SignFree
    BY <2>1 DEF RequestInOrder, SignFree
  <2>2. CASE signreq'[v] = signreq[v]
    BY <2>2, <1>2, <1>3 DEF SignInv, RequestInOrder
  <2> QED
    BY <2>1, <2>2, <1>4
<1>8. SpentIsGone'
  <2>1. ASSUME NEW r \in Secrets \ unburnt, NEW v \in Workers
        PROVE  /\ honoured[r][v] <= 1
               /\ honoured[r][v] # 0 =>
                    r \in Issued' /\ (r \in valid' => signreq'[v].at = "burning" /\ r \in signreq'[v].secret)
    <3>1. /\ honoured[r][v] <= 1
          /\ honoured[r][v] # 0 =>
               r \in Issued /\ (r \in valid => signreq[v].at = "burning" /\ r \in signreq[v].secret)
      BY DEF SignInv, SpentIsGone
    <3>2. signreq'[v] = signreq[v] \/ signreq[v].at # "burning"
      BY <1>4
    <3> QED
      BY <3>1, <3>2, <1>2
  <2> QED
    BY <2>1 DEF SpentIsGone
<1>9. OverIsOver'
  BY <1>2, <1>4 DEF SignInv, OverIsOver, SignFree
<1> QED
  BY <1>5, <1>6, <1>7, <1>8, <1>9 DEF SignInv

\* Secrets that go, by themselves or with the request that deletes them.
LEMMA DeletionSteps ==
  ASSUME SignInv, NEW w \in Workers, valid' \subseteq valid,
         signreq' = signreq \/ signreq' = [signreq EXCEPT ![w] = SignFree]
         \/ \E u \in Users : SignGo(w, "renewing", {u}, {}),
         signreq[w].at = "burning" => signreq[w].secret \cap valid' = {} \/ signreq' = signreq
                                      \/ signreq[w].secret \subseteq unburnt',
         unburnt \subseteq unburnt', unburnt' \subseteq Resets, UNCHANGED <<issuedTo, tokens, honoured, over, undeleted>>
  PROVE  SignInv'
<1>1. Issued' = Issued
  BY DEF Issued
<1>2. \A v \in Workers : \/ signreq'[v] = signreq[v]
                         \/ /\ v = w /\ signreq' # signreq /\ signreq'[v].at \in {"free", "renewing"}
                            /\ signreq'[v].secret = {}
  BY DEF SignInv, SignTypeOK, SignFree, SignGo
<1>3. signreq' \in [Workers -> [at : SignPhases, users : SUBSET Users, secret : SUBSET Secrets]]
  BY DEF SignInv, SignTypeOK, SignFree, SignPhases, SignGo
<1>4. SignTypeOK'
  BY <1>3 DEF SignInv, SignTypeOK
<1>5. IssuedToOne'
  BY <1>1 DEF SignInv, IssuedToOne
<1>6. ASSUME NEW v \in Workers PROVE RequestInOrder(v)'
  <2>1. CASE signreq'[v] = signreq[v]
    BY <2>1, <1>1 DEF SignInv, RequestInOrder
  <2>2. CASE signreq'[v].at \in {"free", "renewing"} /\ signreq'[v].secret = {}
    BY <2>2 DEF RequestInOrder
  <2> QED
    BY <2>1, <2>2, <1>2
<1>7. ASSUME NEW s \in Secrets \ unburnt', NEW v \in Workers
      PROVE  /\ honoured[s][v] <= 1
             /\ honoured[s][v] # 0 =>
                  s \in Issued /\ (s \in valid' => signreq'[v].at = "burning" /\ s \in signreq'[v].secret)
  <2>1. /\ honoured[s][v] <= 1
        /\ honoured[s][v] # 0 =>
             s \in Issued /\ (s \in valid => signreq[v].at = "burning" /\ s \in signreq[v].secret)
    BY DEF SignInv, SpentIsGone
  <2>2. CASE signreq'[v] = signreq[v]
    BY <2>1, <2>2
  <2>3. CASE v = w /\ signreq' # signreq
    BY <2>1, <2>3
  <2> QED
    BY <2>2, <2>3, <1>2
<1>8. SpentIsGone'
  BY <1>1, <1>7 DEF SpentIsGone
<1>9. OverIsOver'
  BY <1>1, <1>2 DEF SignInv, OverIsOver
<1> QED
  BY <1>4, <1>5, <1>6, <1>8, <1>9 DEF SignInv

\* A secret that is looked up is good, so the worker that looks it up has not honoured it.
LEMMA ReadSteps ==
  ASSUME SignInv, NEW w \in Workers, signreq[w].at = "free", NEW s \in Secrets, s \in valid,
         \/ s \in Codes /\ SignGo(w, "exchanging", issuedTo[s], {s})
         \/ s \in Resets /\ SignGo(w, "changing", issuedTo[s], {s}),
         SameSecrets
  PROVE  SignInv'
<1>1. UNCHANGED <<issuedTo, valid, tokens, honoured, unburnt, over, undeleted>> /\ Issued' = Issued
  BY DEF SameSecrets, Issued
<1>2. PICK at \in {"exchanging", "changing"} :
        /\ signreq' = [signreq EXCEPT ![w] = [at |-> at, users |-> issuedTo[s], secret |-> {s}]]
        /\ IF at = "exchanging" THEN s \in Codes ELSE s \in Resets
  BY DEF SignGo
<1>3. s \in Issued /\ issuedTo[s] \subseteq Users
  BY DEF SignInv, IssuedToOne, SignTypeOK
<1>4. s \notin unburnt => honoured[s][w] = 0
  BY DEF SignInv, SpentIsGone
<1>5. signreq'[w] = [at |-> at, users |-> issuedTo[s], secret |-> {s}]
  BY <1>2 DEF SignInv, SignTypeOK
<1>6. \A v \in Workers \ {w} : signreq'[v] = signreq[v]
  BY <1>2 DEF SignInv, SignTypeOK
<1>7. SignTypeOK'
  BY <1>1, <1>2, <1>3 DEF SignInv, SignTypeOK, SignPhases
<1>8. ASSUME NEW v \in Workers PROVE RequestInOrder(v)'
  <2>1. CASE v = w
    BY <2>1, <1>1, <1>2, <1>3, <1>4, <1>5 DEF RequestInOrder
  <2>2. CASE v # w
    BY <2>2, <1>1, <1>6 DEF SignInv, RequestInOrder
  <2> QED
    BY <2>1, <2>2
<1>9. ASSUME NEW r \in Secrets \ unburnt, NEW v \in Workers
      PROVE  /\ honoured[r][v] <= 1
             /\ honoured[r][v] # 0 =>
                  r \in Issued /\ (r \in valid => signreq'[v].at = "burning" /\ r \in signreq'[v].secret)
  <2>1. /\ honoured[r][v] <= 1
        /\ honoured[r][v] # 0 =>
             r \in Issued /\ (r \in valid => signreq[v].at = "burning" /\ r \in signreq[v].secret)
    BY DEF SignInv, SpentIsGone
  <2> QED
    BY <2>1, <1>6
<1>10. SpentIsGone'
  BY <1>1, <1>9 DEF SpentIsGone
<1>11. OverIsOver'
  BY <1>1, <1>5, <1>6 DEF SignInv, OverIsOver
<1> QED
  BY <1>1, <1>7, <1>8, <1>10, <1>11 DEF SignInv, IssuedToOne

\* The code is deleted before it is granted.
LEMMA DeleteCodeSteps ==
  ASSUME SignInv, NEW w \in Workers, DeleteCode(w)
  PROVE  SignInv'
<1>1. /\ signreq[w].at = "exchanging" /\ valid' = valid \ signreq[w].secret
      /\ signreq' = [signreq EXCEPT ![w].at = "granting"]
      /\ UNCHANGED <<issuedTo, tokens, honoured, unburnt, over, undeleted>> /\ Issued' = Issued
  BY DEF DeleteCode, Issued
<1>2. /\ signreq'[w].at = "granting" /\ signreq'[w].secret = signreq[w].secret
      /\ signreq'[w].users = signreq[w].users
      /\ \A v \in Workers \ {w} : signreq'[v] = signreq[v]
      /\ signreq' \in [Workers -> [at : SignPhases, users : SUBSET Users, secret : SUBSET Secrets]]
  BY <1>1 DEF SignInv, SignTypeOK, SignPhases
<1>3. SignTypeOK' /\ IssuedToOne'
  BY <1>1, <1>2 DEF SignInv, SignTypeOK, IssuedToOne
<1>4. ASSUME NEW v \in Workers PROVE RequestInOrder(v)'
  <2>1. CASE v = w
    BY <2>1, <1>1, <1>2 DEF SignInv, RequestInOrder
  <2>2. CASE v # w
    BY <2>2, <1>1, <1>2 DEF SignInv, RequestInOrder
  <2> QED
    BY <2>1, <2>2
<1>5. ASSUME NEW r \in Secrets \ unburnt, NEW v \in Workers
      PROVE  /\ honoured[r][v] <= 1
             /\ honoured[r][v] # 0 =>
                  r \in Issued /\ (r \in valid' => signreq'[v].at = "burning" /\ r \in signreq'[v].secret)
  <2>1. /\ honoured[r][v] <= 1
        /\ honoured[r][v] # 0 =>
             r \in Issued /\ (r \in valid => signreq[v].at = "burning" /\ r \in signreq[v].secret)
    BY DEF SignInv, SpentIsGone
  <2> QED
    BY <2>1, <1>1, <1>2
<1>6. SpentIsGone'
  BY <1>1, <1>5 DEF SpentIsGone
<1>7. OverIsOver'
  BY <1>1, <1>2 DEF SignInv, OverIsOver
<1> QED
  BY <1>3, <1>4, <1>6, <1>7 DEF SignInv

\* A worker that honours a secret counts it for itself only, and goes on to delete it if it is there.
LEMMA HonourSteps ==
  ASSUME SignInv, NEW w \in Workers, NEW s \in Secrets, s \in signreq[w].secret,
         NEW n \in {0, 1}, honoured' = [honoured EXCEPT ![s][w] = @ + n],
         UNCHANGED <<issuedTo, valid>>, unburnt \subseteq unburnt', unburnt' \subseteq Resets,
         signreq[w].at \in {"granting", "changing"},
         signreq' \in [Workers -> [at : SignPhases, users : SUBSET Users, secret : SUBSET Secrets]],
         \A v \in Workers \ {w} : signreq'[v] = signreq[v],
         \/ signreq'[w] = SignFree /\ (signreq[w].at = "granting" \/ s \in unburnt')
         \/ /\ signreq[w].at = "changing" /\ signreq'[w].at = "burning"
            /\ signreq'[w].users = signreq[w].users /\ signreq'[w].secret = signreq[w].secret
  PROVE  /\ Issued' = Issued /\ IssuedToOne' /\ honoured' \in [Secrets -> [Workers -> Nat]]
         /\ (\A v \in Workers : RequestInOrder(v)') /\ SpentIsGone'
<1>1. Issued' = Issued
  BY DEF Issued
<1>2. IssuedToOne'
  BY <1>1 DEF SignInv, IssuedToOne
<1>3. honoured \in [Secrets -> [Workers -> Nat]]
  BY DEF SignInv, SignTypeOK
<1>4. /\ honoured' \in [Secrets -> [Workers -> Nat]]
      /\ honoured'[s][w] = honoured[s][w] + n
      /\ \A r \in Secrets, v \in Workers : r # s \/ v # w => honoured'[r][v] = honoured[r][v]
  BY <1>3
<1>5. ASSUME NEW v \in Workers PROVE RequestInOrder(v)'
  <2>1. CASE v = w /\ signreq'[w] = SignFree
    BY <2>1 DEF RequestInOrder, SignFree
  <2>2. CASE v = w /\ signreq'[w].at = "burning"
    BY <2>2, <1>1 DEF SignInv, RequestInOrder, SignFree
  <2>3. CASE v # w
    <3>1. signreq'[v] = signreq[v] /\ \A r \in Secrets : honoured'[r][v] = honoured[r][v]
      BY <2>3, <1>4
    <3> QED
      BY <3>1, <1>1 DEF SignInv, RequestInOrder, SignTypeOK, Issued
  <2> QED
    BY <2>1, <2>2, <2>3
<1>6. ASSUME NEW r \in Secrets \ unburnt', NEW v \in Workers
      PROVE  /\ honoured'[r][v] <= 1
             /\ honoured'[r][v] # 0 =>
                  r \in Issued /\ (r \in valid => signreq'[v].at = "burning" /\ r \in signreq'[v].secret)
  <2>1. /\ honoured[r][v] <= 1
        /\ honoured[r][v] # 0 =>
             r \in Issued /\ (r \in valid => signreq[v].at = "burning" /\ r \in signreq[v].secret)
    BY DEF SignInv, SpentIsGone
  <2>2. CASE r = s /\ v = w
    <3>1. honoured[s][w] = 0 /\ s \in Issued
      BY <2>2 DEF SignInv, RequestInOrder
    <3>2. signreq[w].at = "granting" => s \notin valid
      BY DEF SignInv, RequestInOrder
    <3>3. honoured'[s][w] <= 1
      BY <3>1, <1>4
    <3> QED
      BY <2>2, <3>1, <3>2, <3>3
  <2>3. CASE r # s /\ v = w
    BY <2>1, <2>3, <1>4
  <2>4. CASE v # w
    BY <2>1, <2>4, <1>4
  <2> QED
    BY <2>2, <2>3, <2>4
<1>7. SpentIsGone'
  BY <1>1, <1>6 DEF SpentIsGone
<1> QED
  BY <1>1, <1>2, <1>4, <1>5, <1>7

LEMMA GrantSteps ==
  ASSUME SignInv, NEW w \in Workers, NEW c \in Secrets, Grant(w, c)
  PROVE  SignInv'
<1>1. /\ signreq[w].at = "granting" /\ c \in signreq[w].secret /\ tokens' = tokens \cup {<<c, w>>}
      /\ honoured' = [honoured EXCEPT ![c][w] = @ + 1] /\ signreq' = [signreq EXCEPT ![w] = SignFree]
      /\ UNCHANGED <<issuedTo, valid, unburnt, over, undeleted>>
  BY DEF Grant, SignEnd
<1>2. /\ signreq' \in [Workers -> [at : SignPhases, users : SUBSET Users, secret : SUBSET Secrets]]
      /\ signreq'[w] = SignFree /\ \A v \in Workers \ {w} : signreq'[v] = signreq[v]
  BY <1>1 DEF SignInv, SignTypeOK, SignFree, SignPhases
<1>3. /\ Issued' = Issued /\ IssuedToOne' /\ honoured' \in [Secrets -> [Workers -> Nat]]
      /\ (\A v \in Workers : RequestInOrder(v)') /\ SpentIsGone'
  <2>1. unburnt' \subseteq Resets
    BY <1>1 DEF SignInv, SignTypeOK
  <2> QED
    BY <1>1, <1>2, <2>1, HonourSteps
<1>4. c \in Codes
  BY <1>1 DEF SignInv, RequestInOrder
<1>5. SignTypeOK'
  BY <1>1, <1>2, <1>3, <1>4 DEF SignInv, SignTypeOK
<1>6. c \notin over \ undeleted
  BY <1>1 DEF SignInv, OverIsOver
<1>7. OverIsOver'
  BY <1>1, <1>2, <1>3, <1>6 DEF SignInv, OverIsOver, SignFree
<1> QED
  BY <1>3, <1>5, <1>7 DEF SignInv

LEMMA ChangeSteps ==
  ASSUME SignInv, NEW w \in Workers, NEW r \in Secrets, ChangePassword(w, r) \/ PasswordUnanswered(w, r)
  PROVE  SignInv'
<1>1. /\ signreq[w].at = "changing" /\ r \in signreq[w].secret
      /\ UNCHANGED <<issuedTo, valid, tokens, over, undeleted>>
  BY DEF ChangePassword, PasswordUnanswered
<1>2. r \in Resets /\ unburnt \subseteq Resets
  BY <1>1 DEF SignInv, RequestInOrder, SignTypeOK
<1>3. unburnt \subseteq unburnt' /\ unburnt' \subseteq Resets
  BY <1>2 DEF ChangePassword, PasswordUnanswered
<1>4. PICK n \in {0, 1} : honoured' = [honoured EXCEPT ![r][w] = @ + n]
  BY DEF ChangePassword, PasswordUnanswered
<1>5. /\ signreq' \in [Workers -> [at : SignPhases, users : SUBSET Users, secret : SUBSET Secrets]]
      /\ \A v \in Workers \ {w} : signreq'[v] = signreq[v]
      /\ \/ signreq'[w] = SignFree /\ r \in unburnt'
         \/ /\ signreq'[w].at = "burning"
            /\ signreq'[w].users = signreq[w].users /\ signreq'[w].secret = signreq[w].secret
  <2>1. signreq \in [Workers -> [at : SignPhases, users : SUBSET Users, secret : SUBSET Secrets]]
    BY DEF SignInv, SignTypeOK
  <2>2. CASE signreq' = [signreq EXCEPT ![w].at = "burning"]
    BY <2>1, <2>2 DEF SignPhases
  <2>3. CASE signreq' = [signreq EXCEPT ![w] = SignFree] /\ r \in unburnt'
    BY <2>1, <2>3 DEF SignFree, SignPhases
  <2> QED
    BY <2>2, <2>3 DEF ChangePassword, PasswordUnanswered, SignEnd
<1>6. /\ Issued' = Issued /\ IssuedToOne' /\ honoured' \in [Secrets -> [Workers -> Nat]]
      /\ (\A v \in Workers : RequestInOrder(v)') /\ SpentIsGone'
  BY <1>1, <1>3, <1>4, <1>5, HonourSteps
<1>7. SignTypeOK'
  BY <1>1, <1>3, <1>5, <1>6 DEF SignInv, SignTypeOK
<1>8. OverIsOver'
  BY <1>1, <1>5, <1>6 DEF SignInv, OverIsOver, SignFree
<1> QED
  BY <1>6, <1>7, <1>8 DEF SignInv

LEMMA SignSteps ==
  ASSUME SignInv, [SignStep]_signVars
  PROVE  SignInv'
<1>0. SignTypeOK
  BY DEF SignInv
<1>1. ASSUME UNCHANGED signVars PROVE SignInv'
  BY <1>1 DEF signVars, SignInv, SignTypeOK, IssuedToOne, Issued, RequestInOrder, SpentIsGone, OverIsOver
<1>2. ASSUME NEW w \in Workers, SignStart(w) PROVE SignInv'
  <2>1. signreq[w].at = "free"
    BY <1>2 DEF SignStart
  <2>2. ASSUME NEW u \in Users, Login(u) PROVE SignInv'
    BY <2>2, <1>1 DEF Login, SameSecrets, signVars
  <2>3. ASSUME NEW u \in Users, BeginReset(w, u) PROVE SignInv'
    <3>1. /\ valid' \subseteq valid /\ SignGo(w, "renewing", {u}, {})
          /\ UNCHANGED <<issuedTo, tokens, honoured, unburnt, over, undeleted>>
      BY <2>3 DEF BeginReset, SameSecrets
    <3> QED
      BY <2>1, <3>1, <1>0, DeletionSteps DEF SignTypeOK
  <2>4. ASSUME NEW u \in Users, NEW c \in Codes, Authorize(u, c) PROVE SignInv'
    BY <2>1, <2>4, IssueSteps DEF Authorize, Secrets
  <2>5. ASSUME NEW c \in Codes, ReadCode(w, c) PROVE SignInv'
    BY <2>1, <2>5, ReadSteps DEF ReadCode, Secrets
  <2>6. ASSUME NEW r \in Resets, ReadReset(w, r) PROVE SignInv'
    BY <2>1, <2>6, ReadSteps DEF ReadReset, Secrets
  <2> QED
    BY <1>2, <2>2, <2>3, <2>4, <2>5, <2>6, LogoutSteps DEF SignStart
<1>3. ASSUME NEW w \in Workers, SignContinue(w) PROVE SignInv'
  <2>1. ASSUME NEW u \in signreq[w].users, BurnResets(w, u) PROVE SignInv'
    <3>1. /\ signreq[w].at = "burning" /\ valid' = valid \ (Of(u) \cap Resets)
          /\ signreq' = [signreq EXCEPT ![w] = SignFree]
          /\ UNCHANGED <<issuedTo, tokens, honoured, unburnt, over, undeleted>>
      BY <2>1 DEF BurnResets, SignEnd
    <3>2. \A s \in signreq[w].secret : s \in Resets /\ s \in Secrets /\ issuedTo[s] = {u}
      <4>1. \A s \in signreq[w].secret : s \in Resets /\ s \in Issued /\ u \in issuedTo[s]
        BY <3>1 DEF SignInv, RequestInOrder
      <4> QED
        BY <4>1 DEF SignInv, IssuedToOne, Issued
    <3>3. signreq[w].secret \cap valid' = {}
      BY <3>1, <3>2 DEF Of
    <3> QED
      BY <3>1, <3>3, <1>0, DeletionSteps DEF SignTypeOK
  <2>2. ASSUME NEW u \in signreq[w].users, NEW r \in Resets, RenewReset(w, u, r) PROVE SignInv'
    <3>1. u \in Users
      BY <1>0 DEF SignTypeOK
    <3> QED
      BY <2>2, <3>1, IssueSteps DEF RenewReset, SignEnd, Secrets
  <2>3. signreq[w].secret \subseteq Secrets
    BY <1>0 DEF SignTypeOK
  <2> QED
    BY <1>3, <2>1, <2>2, <2>3, DeleteCodeSteps, GrantSteps, ChangeSteps DEF SignContinue
<1>4. ASSUME NEW w \in Workers, SignFail(w) PROVE SignInv'
  <2>1. /\ unburnt' = IF signreq[w].at \in {"changing", "burning"} THEN unburnt \cup signreq[w].secret ELSE unburnt
        /\ signreq' = [signreq EXCEPT ![w] = SignFree]
        /\ UNCHANGED <<issuedTo, valid, tokens, honoured, over, undeleted>>
    BY <1>4 DEF SignFail, SignEnd
  <2>2. unburnt \subseteq unburnt' /\ unburnt' \subseteq Resets
    BY <2>1, <1>0 DEF SignTypeOK, SignInv, RequestInOrder
  <2>3. signreq[w].at = "burning" => signreq[w].secret \subseteq unburnt'
    BY <2>1
  <2> QED
    BY <2>1, <2>2, <2>3, DeletionSteps
<1>5. ASSUME NEW s \in Secrets, Expire(s) PROVE SignInv'
  <2>1. CASE \E w \in Workers : TRUE
    <3>1. PICK w \in Workers : TRUE
      BY <2>1
    <3> QED
      BY <1>5, <3>1, <1>0, DeletionSteps DEF Expire, SignTypeOK
  <2>2. CASE Workers = {}
    BY <1>5, <2>2 DEF Expire, SignInv, SignTypeOK, IssuedToOne, Issued, SpentIsGone, OverIsOver
  <2> QED
    BY <2>1, <2>2
<1> QED
  BY <1>1, <1>2, <1>3, <1>4, <1>5 DEF SignStep

\* The invariant holds in every behaviour of the portal, whatever the other parts do.
LEMMA SignInvariant == Spec => []SignInv
<1>1. Init => SignInv
  BY SignInitial DEF Init
<1>2. SignInv /\ [Next]_vars => SignInv'
  BY SignAlone, SignSteps
<1> QED
  BY <1>1, <1>2, PTL DEF Spec

\* However many requests overlap, and whichever of them die, each worker honours a code or the
\* token of a reset mail at most once, but for tokens whose request was lost before the DELETE.
THEOREM SpentOnce == Spec => []SpentOncePerWorker
<1>1. SignInv => SpentOncePerWorker
  BY DEF SignInv, SpentIsGone, SpentOncePerWorker
<1> QED
  BY <1>1, SignInvariant, PTL

\* A code issued before its user signed out, and not in exchange then, never leads to a token again,
\* unless its deletion failed.
THEOREM LogoutIsFinal == Spec => []LogoutEndsAccess
<1>1. SignInv => LogoutEndsAccess
  BY DEF SignInv, OverIsOver, LogoutEndsAccess
<1> QED
  BY <1>1, SignInvariant, PTL

-----------------------------------------------------------------------------
(* Rejected applicants *)

LevelTypes == level \in [Users -> Levels] /\ writer \in [Users -> Parts]

\* Some request is still deciding about u.
Deciding(u) == \E w \in Workers : regreq[w].at \in {"rejecting", "approving"} /\ u \in regreq[w].users

RejectionStands ==
  \A u \in Users :
    /\ status[u] = "rejected" => level[u] # "absent"
    /\ status[u] = "rejected" /\ writer[u] = "registration" /\ u \notin uncertain /\ level[u] \in LetIn
         => Deciding(u)

\* A request is about one user at most.
AboutOne == \A w \in Workers : \A u, v \in regreq[w].users : u = v

RejectionInv == LevelTypes /\ RegistrationTypeOK /\ AboutOne /\ RejectionStands

\* What the parts other than `mine' do to the levels: no account goes away, and whatever they set
\* they sign.
SetElsewhere(mine) ==
  /\ LevelTypes'
  /\ uncertain \subseteq uncertain'
  /\ \A u \in Users :
       /\ level[u] # "absent" => level'[u] # "absent"
       /\ \/ level'[u] = level[u] /\ writer'[u] = writer[u]
          \/ writer'[u] # mine

LEMMA SameElsewhere == ASSUME LevelTypes, NEW mine, SameLevels PROVE SetElsewhere(mine)
BY DEF LevelTypes, SameLevels, SetElsewhere

LEMMA DiedElsewhere == ASSUME LevelTypes, NEW mine, NEW us, Died(us) PROVE SetElsewhere(mine)
BY DEF LevelTypes, Died, SetElsewhere

LEMMA CallElsewhere ==
  ASSUME LevelTypes, NEW u, NEW l \in Levels \ {"absent"}, NEW part \in Parts,
         NEW mine, mine # part, Answered(u, l, part) \/ Unanswered(u, l, part)
  PROVE  SetElsewhere(mine)
<1>1. \/ level' = [level EXCEPT ![u] = l] /\ writer' = [writer EXCEPT ![u] = part]
      \/ UNCHANGED <<level, writer>>
  BY DEF Answered, Unanswered
<1>2. uncertain' = uncertain \/ uncertain' = uncertain \cup {u}
  BY DEF Answered, Unanswered
<1>3. LevelTypes'
  BY <1>1, <1>2 DEF LevelTypes
<1>4. \A v \in Users : \/ level'[v] = level[v] /\ writer'[v] = writer[v]
                       \/ level'[v] = l /\ writer'[v] = part
  BY <1>1 DEF LevelTypes
<1> QED
  BY <1>2, <1>3, <1>4 DEF SetElsewhere

LEMMA SetUserElsewhere ==
  ASSUME LevelTypes, NEW u, NEW l \in Levels \ {"absent"}, NEW part \in Parts,
         NEW mine, mine # part, SetUserLevel(u, l, part)
  PROVE  SetElsewhere(mine)
BY CallElsewhere, SameElsewhere DEF SetUserLevel

LEMMA Tiers == /\ {"member", "admin", "banned", "rejected", "declined", "unverified"} \subseteq Levels \ {"absent"}
               /\ LetIn \subseteq Levels \ {"absent"}
               /\ {"registration", "bans", "roles", "policies"} \subseteq Parts
BY DEF Levels, LetIn, Parts

\* The level that goes with a role is one that is let in.
LEMMA NormalisedLetIn ==
  ASSUME NEW l, NEW granted, Normalised(l, granted) # l
  PROVE  Normalised(l, granted) \in LetIn
<1>1. /\ DOMAIN WithRoles = {"member", "admin"} /\ WithRoles["member"] = "staff" /\ WithRoles["admin"] = "adminstaff"
      /\ DOMAIN WithoutRoles = {"staff", "adminstaff"}
      /\ WithoutRoles["staff"] = "member" /\ WithoutRoles["adminstaff"] = "admin"
  BY DEF WithRoles, WithoutRoles
<1>2. CASE granted
  BY <1>1, <1>2 DEF Normalised, LetIn
<1>3. CASE ~granted
  BY <1>1, <1>3 DEF Normalised, LetIn
<1> QED
  BY <1>2, <1>3

LEMMA BansElsewhere ==
  ASSUME LevelTypes, NEW mine, mine # "bans", NEW w \in Workers, BanStart(w) \/ BanContinue(w) \/ BanFail(w)
  PROVE  SetElsewhere(mine)
<1>1. CASE BanStart(w)
  BY <1>1, SameElsewhere, DiedElsewhere DEF BanStart, BeginBan, BeginLift
<1>2. CASE BanContinue(w)
  <2>1. ASSUME NEW u \in Users, BanUser(w, u) PROVE SetElsewhere(mine)
    BY <2>1, SetUserElsewhere, Tiers DEF BanUser
  <2>2. ASSUME NEW u \in Users, RestoreUser(w, u) PROVE SetElsewhere(mine)
    BY <2>2, SetUserElsewhere, Tiers DEF RestoreUser
  <2>3. ASSUME BanRefused(w) \/ FinishBan(w) \/ DeleteBan(w) \/ Trigger(w) PROVE SetElsewhere(mine)
    BY <2>3, SameElsewhere DEF BanRefused, FinishBan, DeleteBan, Trigger
  <2> QED
    BY <1>2, <2>1, <2>2, <2>3 DEF BanContinue
<1>3. CASE BanFail(w)
  <2>1. (\E u \in banreq[w].todo : Unanswered(u, "banned", "bans")) \/ \E us : Died(us)
    BY <1>3 DEF BanFail
  <2> QED
    BY <2>1, CallElsewhere, DiedElsewhere, Tiers
<1> QED
  BY <1>1, <1>2, <1>3

LEMMA ScriptsElsewhere == ASSUME LevelTypes, NEW mine, NEW n \in 1 .. SyncRuns, SyncStep(n) PROVE SetElsewhere(mine)
BY SameElsewhere, DiedElsewhere
   DEF SyncStep, ReadMacs, ReadIni, OpenIni, WriteIni, RestartRobust, ReadHosts, DropHosts, CommandsFail, ScriptFails

LEMMA SigningElsewhere ==
  ASSUME LevelTypes, NEW mine, NEW w \in Workers, SignStart(w) \/ SignContinue(w) \/ SignFail(w)
  PROVE  SetElsewhere(mine)
<1>1. CASE SignStart(w)
  BY <1>1, SameElsewhere, DiedElsewhere
     DEF SignStart, Login, LogoutAll, LogoutFails, BeginReset, Authorize, ReadCode, ReadReset
<1>2. CASE SignContinue(w)
  BY <1>2, SameElsewhere, DiedElsewhere
     DEF SignContinue, DeleteCode, Grant, ChangePassword, PasswordUnanswered, BurnResets, RenewReset
<1>3. CASE SignFail(w)
  BY <1>3, DiedElsewhere DEF SignFail
<1> QED
  BY <1>1, <1>2, <1>3

LEMMA PoliciesElsewhere ==
  ASSUME LevelTypes, NEW mine, mine # "policies", NEW w \in Workers, PolicyStart(w) \/ PolicyContinue(w) \/ PolicyFail(w)
  PROVE  SetElsewhere(mine)
<1>1. CASE PolicyStart(w)
  <2>1. ASSUME NEW u \in Users, Decline(w, u) PROVE SetElsewhere(mine)
    BY <2>1, CallElsewhere, Tiers DEF Decline
  <2> QED
    BY <1>1, <2>1, SameElsewhere DEF PolicyStart, BeginBump, BeginAgree
<1>2. CASE PolicyContinue(w)
  <2>1. ASSUME NEW u, RestoreLevel(w, u) PROVE SetElsewhere(mine)
    <3>1. Restored(u) \in LetIn
      BY DEF Restored, LetIn
    <3> QED
      BY <2>1, <3>1, CallElsewhere, Tiers DEF RestoreLevel
  <2> QED
    BY <1>2, <2>1, SameElsewhere DEF PolicyContinue, CommitBump, SaveAgreement
<1>3. CASE PolicyFail(w)
  BY <1>3, DiedElsewhere DEF PolicyFail
<1> QED
  BY <1>1, <1>2, <1>3

LEMMA RolesElsewhere ==
  ASSUME LevelTypes, NEW mine, mine # "roles", NEW w \in Workers, RoleStart(w) \/ RoleContinue(w) \/ RoleFail(w)
  PROVE  SetElsewhere(mine)
<1>1. CASE RoleStart(w)
  <2>1. ASSUME NEW u \in Users, NEW l \in {"member", "admin", "banned"}, SetByHand(u, l) PROVE SetElsewhere(mine)
    BY <2>1, SetUserElsewhere, Tiers DEF SetByHand
  <2> QED
    BY <1>1, <2>1, SameElsewhere DEF RoleStart, ReadLevel
<1>2. CASE RoleContinue(w)
  <2>1. ASSUME NEW u, NormaliseLevel(w, u) PROVE SetElsewhere(mine)
    <3> DEFINE l == Normalised(rolereq[w].read, rolereq[w].grant)
    <3>1. CASE l = rolereq[w].read
      BY <2>1, <3>1, SameElsewhere DEF NormaliseLevel
    <3>2. CASE l # rolereq[w].read
      <4>1. l \in Levels \ {"absent"}
        BY <3>2, NormalisedLetIn, Tiers
      <4>2. SetUserLevel(u, l, "roles")
        BY <2>1, <3>2 DEF NormaliseLevel
      <4> HIDE DEF l
      <4> QED
        BY <4>1, <4>2, SetUserElsewhere, Tiers
    <3> QED
      BY <3>1, <3>2
  <2> QED
    BY <1>2, <2>1, SameElsewhere DEF RoleContinue, SaveRoles
<1>3. CASE RoleFail(w)
  BY <1>3, DiedElsewhere DEF RoleFail
<1> QED
  BY <1>1, <1>2, <1>3

LEMMA RegistrationElsewhere ==
  ASSUME LevelTypes, NEW mine, mine # "registration", NEW w \in Workers,
         RegistrationStart(w) \/ RegistrationContinue(w) \/ RegistrationFail(w)
  PROVE  SetElsewhere(mine)
<1>1. CASE RegistrationStart(w)
  <2>1. ASSUME NEW u \in Users, CreateAccount(w, u) \/ ApproveLevel(w, u) PROVE SetElsewhere(mine)
    BY <2>1, CallElsewhere, Tiers DEF CreateAccount, ApproveLevel
  <2> QED
    BY <1>1, <2>1, SameElsewhere
       DEF RegistrationStart, FollowLink, RejectStatus, RequestEmailChange, ConfirmEmailChange
<1>2. CASE RegistrationContinue(w)
  <2>1. ASSUME NEW u, LockAccount(w, u) \/ Activate(w, u) \/ RejectLevel(w, u) PROVE SetElsewhere(mine)
    BY <2>1, SetUserElsewhere, Tiers DEF LockAccount, Activate, RejectLevel
  <2> QED
    BY <1>2, <2>1, SameElsewhere
       DEF RegistrationContinue, RecordApplication, AwaitApproval, MarkActive, RecordApproval
<1>3. CASE RegistrationFail(w)
  BY <1>3, CallElsewhere, DiedElsewhere, Tiers DEF RegistrationFail
<1> QED
  BY <1>1, <1>2, <1>3

RegistrationStep ==
  \E w \in Workers : RegistrationStart(w) \/ RegistrationContinue(w) \/ RegistrationFail(w)

\* A step of the portal is one of registration, or one that leaves the registrations alone.
LEMMA Elsewhere ==
  ASSUME LevelTypes, [Next]_vars
  PROVE  RegistrationStep \/ (SetElsewhere("registration") /\ UNCHANGED registrationVars)
<1>1. CASE UNCHANGED vars
  BY <1>1, SameElsewhere DEF vars, accountVars, SameLevels
<1>2. CASE Beside
  <2>1. UNCHANGED registrationVars
    BY <1>2 DEF Beside, Only, OfAccounts
  <2>2. ASSUME NEW s \in Secrets, Expire(s) PROVE SetElsewhere("registration")
    BY <2>2, SameElsewhere DEF Expire
  <2>3. ASSUME UNCHANGED accountVars PROVE SetElsewhere("registration")
    BY <2>3, SameElsewhere DEF accountVars, SameLevels
  <2> QED
    BY <1>2, <2>1, <2>2, <2>3, ScriptsElsewhere DEF Beside, Only, OfAccounts
<1>3. ASSUME NEW w \in Workers, Serve(w) \/ Continue(w) \/ Fail(w)
      PROVE  RegistrationStep \/ (SetElsewhere("registration") /\ UNCHANGED registrationVars)
  <2>1. \/ RegistrationStart(w) \/ RegistrationContinue(w) \/ RegistrationFail(w)
        \/ /\ UNCHANGED registrationVars
           /\ \/ BanStart(w) \/ BanContinue(w) \/ BanFail(w)
              \/ SignStart(w) \/ SignContinue(w) \/ SignFail(w)
              \/ PolicyStart(w) \/ PolicyContinue(w) \/ PolicyFail(w)
              \/ RoleStart(w) \/ RoleContinue(w) \/ RoleFail(w)
              \/ UNCHANGED accountVars
    BY <1>3 DEF Serve, Continue, Fail, Only, OfAccounts
  <2>2. ASSUME UNCHANGED accountVars PROVE SetElsewhere("registration")
    BY <2>2, SameElsewhere DEF accountVars, SameLevels
  <2> QED
    BY <2>1, <2>2, BansElsewhere, SigningElsewhere, PoliciesElsewhere, RolesElsewhere DEF RegistrationStep
<1> QED
  BY <1>1, <1>2, <1>3 DEF Next

LEMMA RejectionInitial == Init => RejectionInv
BY DEF Init, AccountInit, RegistrationInit, RejectionInv, LevelTypes, Levels, LetIn, Parts, RegistrationTypeOK,
   RegFree, RegPhases, Statuses, AboutOne, RejectionStands

LEMMA RejectionElsewhere ==
  ASSUME RejectionInv, SetElsewhere("registration"), UNCHANGED registrationVars
  PROVE  RejectionInv'
BY DEF RejectionInv, SetElsewhere, registrationVars, RegistrationTypeOK, AboutOne, RejectionStands, Deciding

\* What a call of this part leaves behind.
LEMMA CallHere ==
  ASSUME LevelTypes, NEW u \in Users, NEW l \in Levels \ {"absent"},
         Answered(u, l, "registration") \/ Unanswered(u, l, "registration") \/ SameLevels \/ Died({u})
  PROVE  /\ LevelTypes' /\ uncertain \subseteq uncertain'
         /\ \A v \in Users \ {u} : level'[v] = level[v] /\ writer'[v] = writer[v]
         /\ level[u] # "absent" => level'[u] # "absent"
         /\ Answered(u, l, "registration") => level'[u] = l
         /\ Unanswered(u, l, "registration") \/ Died({u}) => u \in uncertain'
BY Tiers DEF LevelTypes, Answered, Unanswered, SameLevels, Died, Parts

\* A step of a request about u preserves the invariant when it does so for u.
LEMMA OneUser ==
  ASSUME RejectionInv, NEW w \in Workers, NEW u \in Users,
         LevelTypes', uncertain \subseteq uncertain',
         \A v \in Users \ {u} : level'[v] = level[v] /\ writer'[v] = writer[v],
         status' \in [Users -> Statuses], \A v \in Users \ {u} : status'[v] = status[v],
         approval' \subseteq Users,
         NEW q \in [at : RegPhases, users : {{}, {u}}],
         regreq' = [regreq EXCEPT ![w] = q] \/ (regreq[w].at = "free" /\ regreq' = regreq),
         regreq[w].at \in {"rejecting", "approving"} => regreq[w].users \subseteq {u},
         status'[u] = "rejected" => level'[u] # "absent",
         status'[u] = "rejected" /\ writer'[u] = "registration" /\ u \notin uncertain' /\ level'[u] \in LetIn
           => Deciding(u)'
  PROVE  RejectionInv'
<1>1. /\ q \in [at : RegPhases, users : SUBSET Users] /\ \A v, x \in q.users : v = x
  OBVIOUS
<1>2. \A v \in Workers : v # w => regreq'[v] = regreq[v]
  BY DEF RejectionInv, RegistrationTypeOK
<1>3. RegistrationTypeOK'
  BY <1>1 DEF RejectionInv, RegistrationTypeOK
<1>4. AboutOne'
  BY <1>1 DEF RejectionInv, RegistrationTypeOK, AboutOne
<1>5. ASSUME NEW v \in Users \ {u}, Deciding(v) PROVE Deciding(v)'
  <2>1. PICK x \in Workers : regreq[x].at \in {"rejecting", "approving"} /\ v \in regreq[x].users
    BY <1>5 DEF Deciding
  <2>2. regreq'[x] = regreq[x]
    BY <1>2, <1>5, <2>1
  <2> QED
    BY <2>1, <2>2 DEF Deciding
<1>6. ASSUME NEW v \in Users, v # u
      PROVE  /\ status'[v] = "rejected" => level'[v] # "absent"
             /\ status'[v] = "rejected" /\ writer'[v] = "registration" /\ v \notin uncertain' /\ level'[v] \in LetIn
                  => Deciding(v)'
  BY <1>5, <1>6 DEF RejectionInv, RejectionStands
<1>7. RejectionStands'
  BY <1>6 DEF RejectionStands
<1> QED
  BY <1>3, <1>4, <1>7 DEF RejectionInv

\* A request that is not deciding about u, or does not look at u, leaves the deciders of u.
LEMMA StillDeciding ==
  ASSUME RejectionInv, NEW w \in Workers, NEW u \in Users, regreq[w].at \notin {"rejecting", "approving"},
         Deciding(u), \A v \in Workers \ {w} : regreq'[v] = regreq[v]
  PROVE  Deciding(u)'
BY DEF Deciding

LEMMA SetsStatus ==
  ASSUME RegistrationTypeOK, NEW u \in Users, NEW s \in Statuses, SetStatus(u, s)
  PROVE  /\ status' \in [Users -> Statuses] /\ \A v \in Users \ {u} : status'[v] = status[v]
         /\ status'[u] = IF status[u] = "none" THEN "none" ELSE s
BY DEF RegistrationTypeOK, SetStatus

LEMMA StatusNames == /\ {"none", "pending_email", "pending_email_change", "pending_approval", "approved", "rejected"} = Statuses
                     /\ {"free", "created", "locked", "queueing", "welcoming", "activating", "approving", "rejecting"} = RegPhases
BY DEF Statuses, RegPhases

LEMMA RejectionSteps ==
  ASSUME RejectionInv, RegistrationStep
  PROVE  RejectionInv'
<1>0. LevelTypes /\ RegistrationTypeOK /\ AboutOne /\ RejectionStands
  BY DEF RejectionInv
<1>1. ASSUME NEW w \in Workers, NEW u \in Users, NEW phase \in RegPhases, NEW us \in {{}, {u}}
      PROVE  [at |-> phase, users |-> us] \in [at : RegPhases, users : {{}, {u}}]
  OBVIOUS
<1>2. ASSUME NEW w \in Workers, NEW u \in Users, NEW q \in [at : RegPhases, users : {{}, {u}}],
             regreq' = [regreq EXCEPT ![w] = q]
      PROVE  regreq'[w] = q /\ \A v \in Workers \ {w} : regreq'[v] = regreq[v]
  BY <1>0, <1>2 DEF RegistrationTypeOK
<1>3. ASSUME NEW w \in Workers, NEW u \in Users, NEW q \in [at : RegPhases, users : {{}, {u}}],
             regreq' = [regreq EXCEPT ![w] = q] \/ (regreq[w].at = "free" /\ regreq' = regreq),
             regreq[w].at \notin {"rejecting", "approving"},
             SameLevels, status' \in [Users -> Statuses], \A v \in Users \ {u} : status'[v] = status[v],
             status'[u] # status[u] => status'[u] # "rejected", approval' \subseteq Users
      PROVE  RejectionInv'
  <2>1. \A v \in Workers \ {w} : regreq'[v] = regreq[v]
    BY <1>2, <1>3
  <2>2. UNCHANGED <<level, writer, uncertain>>
    BY <1>3 DEF SameLevels
  <2>3. status'[u] = "rejected" => status[u] = "rejected"
    BY <1>3
  <2>4. status'[u] = "rejected" /\ writer'[u] = "registration" /\ u \notin uncertain' /\ level'[u] \in LetIn
          => Deciding(u)'
    BY <1>0, <1>3, <2>1, <2>2, <2>3, StillDeciding DEF RejectionStands
  <2>5. LevelTypes' /\ (status'[u] = "rejected" => level'[u] # "absent")
    BY <1>0, <2>2, <2>3 DEF LevelTypes, RejectionStands
  <2> QED
    BY <1>3, <2>2, <2>4, <2>5, OneUser
\* A call for u, after which u is not let in, or the request decides, or the status is another.
<1>4. ASSUME NEW w \in Workers, NEW u \in Users, NEW l \in Levels \ {"absent"},
             NEW q \in [at : RegPhases, users : {{}, {u}}],
             regreq' = [regreq EXCEPT ![w] = q] \/ (regreq[w].at = "free" /\ regreq' = regreq),
             regreq[w].at \in {"rejecting", "approving"} => regreq[w].users \subseteq {u},
             \/ Answered(u, l, "registration") /\ (l \in LetIn /\ status'[u] = "rejected" => Deciding(u)')
             \/ Unanswered(u, l, "registration") \/ Died({u})
             \/ SameLevels /\ (level[u] = "absent" \/ status'[u] # "rejected"),
             status' \in [Users -> Statuses], \A v \in Users \ {u} : status'[v] = status[v],
             status'[u] = "rejected" => status[u] = "rejected", approval' \subseteq Users
      PROVE  RejectionInv'
  <2>1. /\ LevelTypes' /\ uncertain \subseteq uncertain'
        /\ \A v \in Users \ {u} : level'[v] = level[v] /\ writer'[v] = writer[v]
        /\ level[u] # "absent" => level'[u] # "absent"
        /\ Answered(u, l, "registration") => level'[u] = l
        /\ Unanswered(u, l, "registration") \/ Died({u}) => u \in uncertain'
    BY <1>0, <1>4, CallHere
  <2>2. status'[u] = "rejected" => level[u] # "absent" /\ level'[u] # "absent"
    BY <1>0, <1>4, <2>1 DEF RejectionStands
  <2>3. status'[u] = "rejected" /\ writer'[u] = "registration" /\ u \notin uncertain' /\ level'[u] \in LetIn
          => Deciding(u)'
    BY <1>4, <2>1, <2>2
  <2> QED
    BY <1>4, <2>1, <2>2, <2>3, OneUser

<1>5. ASSUME NEW w \in Workers, RegistrationStart(w) PROVE RejectionInv'
  <2>0. regreq[w].at = "free"
    BY <1>5 DEF RegistrationStart
  <2>1. ASSUME NEW u \in Users, CreateAccount(w, u) PROVE RejectionInv'
    <3>1. UNCHANGED <<status, approval>> /\ status[u] # "rejected"
      BY <1>0, <2>1 DEF CreateAccount, RejectionStands
    <3>2. \/ regreq' = [regreq EXCEPT ![w] = [at |-> "created", users |-> {u}]]
          \/ regreq' = regreq
      BY <2>1 DEF CreateAccount, RegGo
    <3>3. Answered(u, "member", "registration") \/ Unanswered(u, "member", "registration")
      BY <2>1 DEF CreateAccount
    <3>4. [at |-> "created", users |-> {u}] \in [at : RegPhases, users : {{}, {u}}]
      BY DEF RegPhases
    <3> QED
      BY <1>0, <1>4, <2>0, <3>1, <3>2, <3>3, <3>4, Tiers DEF RegistrationTypeOK
  <2>2. ASSUME NEW u \in Users, FollowLink(w, u) PROVE RejectionInv'
    <3>1. UNCHANGED <<status, approval>> /\ SameLevels
      BY <2>2 DEF FollowLink
    <3>2. PICK phase \in RegPhases : regreq' = [regreq EXCEPT ![w] = [at |-> phase, users |-> {u}]]
      BY <2>2, StatusNames DEF FollowLink, RegGo
    <3> QED
      BY <1>0, <1>1, <1>3, <2>0, <3>1, <3>2 DEF RegistrationTypeOK
  <2>3. ASSUME NEW u \in Users, ApproveLevel(w, u) PROVE RejectionInv'
    <3>1. UNCHANGED <<status, approval>>
      BY <2>3 DEF ApproveLevel
    <3> DEFINE q == [at |-> "approving", users |-> {u}]
    <3>2. q \in [at : RegPhases, users : {{}, {u}}] /\ q.at = "approving" /\ q.users = {u}
      BY DEF RegPhases
    <3>3. CASE Answered(u, "member", "registration") /\ RegGo(w, "approving", u)
      <4>1. regreq' = [regreq EXCEPT ![w] = q]
        BY <3>3 DEF RegGo
      <4> HIDE DEF q
      <4>3. regreq'[w] = q
        BY <1>2, <3>2, <4>1
      <4>2. Deciding(u)'
        BY <3>2, <4>3 DEF Deciding
      <4> QED
        BY <1>0, <1>4, <2>0, <3>1, <3>2, <3>3, <4>1, <4>2, Tiers DEF RegistrationTypeOK
    <3>4. CASE Unanswered(u, "member", "registration") /\ UNCHANGED regreq
      <4> HIDE DEF q
      <4> QED
        BY <1>0, <1>4, <2>0, <3>1, <3>2, <3>4, Tiers DEF RegistrationTypeOK
    <3> QED
      BY <2>3, <3>3, <3>4 DEF ApproveLevel
  <2>4. ASSUME NEW u \in Users, RejectStatus(w, u) PROVE RejectionInv'
    <3> DEFINE q == [at |-> "rejecting", users |-> {u}]
    <3>1. q \in [at : RegPhases, users : {{}, {u}}] /\ q.at = "rejecting" /\ q.users = {u}
      BY DEF RegPhases
    <3>2. /\ regreq' = [regreq EXCEPT ![w] = q] /\ level[u] # "absent" /\ SetStatus(u, "rejected")
          /\ UNCHANGED <<level, writer, uncertain, approval>>
      BY <2>4 DEF RejectStatus, RegGo, SameLevels
    <3>3. status' \in [Users -> Statuses] /\ \A v \in Users \ {u} : status'[v] = status[v]
      BY <1>0, <3>2, SetsStatus, StatusNames
    <3> HIDE DEF q
    <3>6. regreq'[w] = q
      BY <1>2, <3>1, <3>2
    <3>4. Deciding(u)'
      BY <3>1, <3>6 DEF Deciding
    <3>5. LevelTypes' /\ approval' \subseteq Users
      BY <1>0, <3>2 DEF LevelTypes, RegistrationTypeOK
    <3> QED
      BY <2>0, <3>1, <3>2, <3>3, <3>4, <3>5, OneUser
  <2>5. ASSUME NEW u \in Users, RequestEmailChange(w, u) \/ ConfirmEmailChange(w, u) PROVE RejectionInv'
    <3>1. PICK s \in {"pending_email_change", "none"} : status' = [status EXCEPT ![u] = s]
      BY <2>5 DEF RequestEmailChange, ConfirmEmailChange
    <3>2. regreq' = regreq /\ SameLevels /\ approval' \subseteq approval
      BY <2>5 DEF RequestEmailChange, ConfirmEmailChange
    <3>3. /\ status' \in [Users -> Statuses] /\ \A v \in Users \ {u} : status'[v] = status[v]
          /\ status'[u] # "rejected"
      BY <1>0, <3>1, StatusNames DEF RegistrationTypeOK
    <3>4. [at |-> "free", users |-> {u}] \in [at : RegPhases, users : {{}, {u}}]
      BY DEF RegPhases
    <3> QED
      BY <1>0, <1>3, <2>0, <3>2, <3>3, <3>4 DEF RegistrationTypeOK
  <2> QED
    BY <1>5, <2>1, <2>2, <2>3, <2>4, <2>5 DEF RegistrationStart
<1>6. ASSUME NEW w \in Workers, NEW u \in regreq[w].users PROVE u \in Users /\ regreq[w].users = {u}
  BY <1>0 DEF RegistrationTypeOK, AboutOne
<1>7. RegFree.at = "free" /\ \A u \in Users : RegFree \in [at : RegPhases, users : {{}, {u}}]
  BY DEF RegFree, RegPhases
<1>8. ASSUME NEW w \in Workers, RegistrationContinue(w) PROVE RejectionInv'
  <2>0. PICK u \in regreq[w].users :
          \/ LockAccount(w, u) \/ RecordApplication(w, u) \/ AwaitApproval(w, u) \/ MarkActive(w, u)
          \/ Activate(w, u) \/ RecordApproval(w, u) \/ RejectLevel(w, u)
    BY <1>8 DEF RegistrationContinue
  <2>1. u \in Users /\ regreq[w].users = {u}
    BY <1>6, <2>0
  <2>2. CASE LockAccount(w, u)
    <3>1. /\ UNCHANGED <<status, approval>>
          /\ regreq' = [regreq EXCEPT ![w] = [at |-> "locked", users |-> {u}]]
          /\ \/ SameLevels /\ level[u] = "absent"
             \/ Answered(u, "unverified", "registration") \/ Unanswered(u, "unverified", "registration")
      BY <2>2 DEF LockAccount, RegGo, SetUserLevel
    <3>2. "locked" \in RegPhases /\ "unverified" \in Levels \ {"absent"} /\ "unverified" \notin LetIn
      BY DEF RegPhases, Levels, LetIn
    <3> QED
      BY <1>0, <1>1, <1>4, <2>1, <3>1, <3>2 DEF RegistrationTypeOK
  <2>3. CASE RecordApplication(w, u)
    <3>1. regreq' = [regreq EXCEPT ![w] = RegFree] /\ SameLevels /\ regreq[w].at = "locked"
      BY <2>3 DEF RecordApplication, RegEnd
    <3>2. status' = status \/ status' = [status EXCEPT ![u] = "pending_email"]
      BY <2>3 DEF RecordApplication
    <3>3. approval' \subseteq Users
      BY <1>0, <2>1, <2>3 DEF RecordApplication, RegistrationTypeOK
    <3>4. /\ status' \in [Users -> Statuses] /\ \A v \in Users \ {u} : status'[v] = status[v]
          /\ status'[u] # status[u] => status'[u] # "rejected"
      BY <1>0, <2>1, <3>2, StatusNames DEF RegistrationTypeOK
    <3> QED
      BY <1>3, <1>7, <2>1, <3>1, <3>3, <3>4
  <2>4. CASE AwaitApproval(w, u)
    <3>1. /\ regreq' = [regreq EXCEPT ![w] = RegFree] /\ SameLevels /\ regreq[w].at = "queueing"
          /\ SetStatus(u, "pending_approval") /\ approval' = approval
      BY <2>4 DEF AwaitApproval, RegEnd
    <3>2. /\ status' \in [Users -> Statuses] /\ \A v \in Users \ {u} : status'[v] = status[v]
          /\ status'[u] # "rejected"
      BY <1>0, <2>1, <3>1, SetsStatus, StatusNames
    <3> QED
      BY <1>0, <1>3, <1>7, <2>1, <3>1, <3>2 DEF RegistrationTypeOK
  <2>5. CASE MarkActive(w, u)
    <3>1. /\ regreq' = [regreq EXCEPT ![w] = [at |-> "activating", users |-> {u}]] /\ SameLevels
          /\ regreq[w].at = "welcoming" /\ UNCHANGED <<status, approval>>
      BY <2>5 DEF MarkActive, RegGo
    <3>2. "activating" \in RegPhases
      BY DEF RegPhases
    <3> QED
      BY <1>0, <1>1, <1>3, <2>1, <3>1, <3>2 DEF RegistrationTypeOK
  <2>6. CASE Activate(w, u)
    <3>1. /\ regreq' = [regreq EXCEPT ![w] = RegFree] /\ SetStatus(u, "approved") /\ approval' = approval
          /\ \/ SameLevels /\ level[u] = "absent"
             \/ Answered(u, "member", "registration") \/ Unanswered(u, "member", "registration")
      BY <2>6 DEF Activate, RegEnd, SetUserLevel
    <3>2. /\ status' \in [Users -> Statuses] /\ \A v \in Users \ {u} : status'[v] = status[v]
          /\ status'[u] # "rejected"
      BY <1>0, <2>1, <3>1, SetsStatus, StatusNames
    <3> QED
      BY <1>0, <1>4, <1>7, <2>1, <3>1, <3>2, Tiers DEF RegistrationTypeOK
  <2>7. CASE RecordApproval(w, u)
    <3>1. /\ regreq' = [regreq EXCEPT ![w] = RegFree] /\ SameLevels
          /\ SetStatus(u, "approved") /\ approval' = approval
      BY <2>7 DEF RecordApproval, RegEnd
    <3>2. /\ status' \in [Users -> Statuses] /\ \A v \in Users \ {u} : status'[v] = status[v]
          /\ status'[u] # "rejected"
      BY <1>0, <2>1, <3>1, SetsStatus, StatusNames
    <3> QED
      BY <1>0, <1>4, <1>7, <2>1, <3>1, <3>2, Tiers DEF RegistrationTypeOK
  <2>8. CASE RejectLevel(w, u)
    <3>1. /\ regreq' = [regreq EXCEPT ![w] = RegFree] /\ UNCHANGED <<status, approval>>
          /\ \/ SameLevels /\ level[u] = "absent"
             \/ Answered(u, "rejected", "registration") \/ Unanswered(u, "rejected", "registration")
      BY <2>8 DEF RejectLevel, RegEnd, SetUserLevel
    <3>2. "rejected" \in Levels \ {"absent"} /\ "rejected" \notin LetIn
      BY DEF Levels, LetIn
    <3> QED
      BY <1>0, <1>4, <1>7, <2>1, <3>1, <3>2 DEF RegistrationTypeOK
  <2> QED
    BY <2>0, <2>2, <2>3, <2>4, <2>5, <2>6, <2>7, <2>8
<1>9. ASSUME NEW w \in Workers, RegistrationFail(w) PROVE RejectionInv'
  <2>1. PICK u \in regreq[w].users : Unanswered(u, "member", "registration") \/ Died({u})
    BY <1>9 DEF RegistrationFail
  <2>2. u \in Users /\ regreq[w].users = {u}
    BY <1>6, <2>1
  <2>3. regreq' = [regreq EXCEPT ![w] = RegFree] /\ UNCHANGED <<status, approval>>
    BY <1>9 DEF RegistrationFail, RegEnd
  <2> QED
    BY <1>0, <1>4, <1>7, <2>1, <2>2, <2>3, Tiers DEF RegistrationTypeOK
<1> QED
  BY <1>5, <1>8, <1>9 DEF RegistrationStep

LEMMA RejectionInvariant == Spec => []RejectionInv
<1>1. RejectionInv /\ [Next]_vars => RejectionInv'
  <2> SUFFICES ASSUME RejectionInv, [Next]_vars PROVE RejectionInv'
    OBVIOUS
  <2>1. RegistrationStep \/ (SetElsewhere("registration") /\ UNCHANGED registrationVars)
    BY Elsewhere DEF RejectionInv
  <2> QED
    BY <2>1, RejectionElsewhere, RejectionSteps
<1> QED
  BY <1>1, RejectionInitial, PTL DEF Spec

\* For any users and workers, whatever approvals, rejections, links, bans, roles and agreements
\* overlap: who ends up rejected is not let in, unless a call or a request failed.
THEOREM RejectedStays == Spec => []RejectedStaysOut
<1>1. RejectionInv => RejectedStaysOut
  BY DEF RejectionInv, RejectionStands, Deciding, RejectedStaysOut
<1> QED
  BY <1>1, RejectionInvariant, PTL

-----------------------------------------------------------------------------
(* Agreements *)

PolicyStep == \E w \in Workers : PolicyStart(w) \/ PolicyContinue(w) \/ PolicyFail(w)

LEMMA PoliciesAlone ==
  ASSUME [Next]_vars
  PROVE  [PolicyStep]_policyVars
BY DEF Next, vars, Beside, Serve, Continue, Fail, Only, OfAccounts, PolicyStep

\* Versions are ordered by series, then by number.
Versions == Nat \X Nat
Before(a, b)  == a[1] < b[1] \/ (a[1] = b[1] /\ a[2] < b[2])
UpTo(a, b)    == a = b \/ Before(a, b)

LEMMA BeforeIsTransitive ==
  ASSUME NEW a \in Versions, NEW b \in Versions, NEW c \in Versions, UpTo(a, b), Before(b, c)
  PROVE  Before(a, c)
BY DEF Versions, UpTo, Before

LEMMA BeforeIsStrict == ASSUME NEW a \in Versions, NEW b \in Versions, Before(a, b) PROVE a # b
BY DEF Versions, Before

LEMMA BumpedIsLater ==
  ASSUME NEW v \in Versions, NEW how
  PROVE  Bumped(v, how) \in Versions /\ Before(v, Bumped(v, how))
<1>1. v[1] \in Nat /\ v[2] \in Nat
  BY DEF Versions
<1>2. CASE how = "major"
  BY <1>1, <1>2 DEF Bumped, Versions, Before
<1>3. CASE how # "major"
  BY <1>1, <1>3 DEF Bumped, Versions, Before
<1> QED
  BY <1>2, <1>3

PolicyRequests == [at : PolPhases, users : SUBSET Users, read : Versions,
                   current : BOOLEAN, restoring : BOOLEAN]

\* As long as no two bumps met: the version only grows, whoever bumps has read the one in force,
\* and an agreement under way is to the one in force exactly when nobody bumped since it began.
ReadInOrder(q) ==
  /\ q.at \in {"minor", "major"} => q.read = version
  /\ q.at \in {"restoring", "agreeing"} =>
       /\ q.current => q.read = version
       /\ ~q.current => Before(q.read, version)

InOrder ==
  /\ \A v, w \in Bumping : v = w
  /\ \A w \in Workers : ReadInOrder(polreq[w])
  /\ \A a \in agreements : UpTo(a[2], version)
  /\ \A u \in Users : <<u, version>> \in agreements => u \notin behind

PolicyInv == PolicyTypeOK /\ (~collided => InOrder)

LEMMA PolFreeRequest == PolFree \in PolicyRequests /\ PolFree.at = "free" /\ ReadInOrder(PolFree)
BY DEF PolFree, PolicyRequests, PolPhases, Versions, Unset, ReadInOrder

LEMMA PolicyInitial == PolicyInit => PolicyInv
<1> SUFFICES ASSUME PolicyInit PROVE PolicyInv
  OBVIOUS
<1>1. polreq \in [Workers -> PolicyRequests] /\ \A w \in Workers : polreq[w] = PolFree
  BY PolFreeRequest DEF PolicyInit
<1>2. PolicyTypeOK
  BY <1>1 DEF PolicyInit, PolicyTypeOK, PolicyRequests, Versions, Unset
<1>3. InOrder
  BY <1>1, PolFreeRequest DEF PolicyInit, InOrder, Bumping
<1> QED
  BY <1>2, <1>3 DEF PolicyInv

\* A worker's request becomes q; the version stays.
LEMMA PolicyRequestBecomes ==
  ASSUME PolicyInv, NEW w \in Workers, NEW q \in PolicyRequests, polreq' = [polreq EXCEPT ![w] = q],
         version' = version, bumps' = bumps, collided' \in BOOLEAN,
         agreements' \subseteq Users \X Versions, behind' \subseteq Users,
         ~collided' => ~collided,
         ~collided' => ReadInOrder(q),
         ~collided' /\ q.at \in {"minor", "major"} => Bumping = {},
         ~collided' => \A a \in agreements' : UpTo(a[2], version),
         ~collided' => \A u \in Users : <<u, version>> \in agreements' => u \notin behind'
  PROVE  PolicyInv'
<1>1. polreq' \in [Workers -> PolicyRequests] /\ \A v \in Workers : polreq'[v] = IF v = w THEN q ELSE polreq[v]
  BY DEF PolicyInv, PolicyTypeOK, PolicyRequests, Versions
<1>2. PolicyTypeOK'
  BY <1>1 DEF PolicyInv, PolicyTypeOK, PolicyRequests, Versions
<1>3. ASSUME ~collided' PROVE InOrder'
  <2>1. InOrder
    BY <1>3 DEF PolicyInv
  <2>2. \A v \in Workers : ReadInOrder(polreq[v])'
    BY <1>1, <1>3, <2>1 DEF InOrder, ReadInOrder
  <2>3. \A v, x \in Bumping' : v = x
    BY <1>1, <1>3, <2>1 DEF InOrder, Bumping
  <2> QED
    BY <1>3, <2>2, <2>3 DEF InOrder
<1> QED
  BY <1>2, <1>3 DEF PolicyInv

LEMMA PolicySteps ==
  ASSUME PolicyInv, [PolicyStep]_policyVars
  PROVE  PolicyInv'
<1>0. /\ version \in Versions /\ agreements \subseteq Users \X Versions
      /\ polreq \in [Workers -> PolicyRequests] /\ bumps \in Nat /\ behind \subseteq Users /\ collided \in BOOLEAN
  BY DEF PolicyInv, PolicyTypeOK, PolicyRequests, Versions
<1>1. ~collided => /\ \A a \in agreements : UpTo(a[2], version)
                   /\ \A u \in Users : <<u, version>> \in agreements => u \notin behind
  BY DEF PolicyInv, InOrder
<1>2. ASSUME NEW w \in Workers, NEW how \in {"minor", "major"}, BeginBump(w, how) PROVE PolicyInv'
  <2>1. PICK q \in PolicyRequests : /\ q = [PolFree EXCEPT !.at = how, !.read = version]
                                    /\ q.at = how /\ q.read = version
    <3>1. ASSUME NEW z \in PolicyRequests, NEW v \in Versions
          PROVE  LET y == [z EXCEPT !.at = how, !.read = v]
                 IN  y \in PolicyRequests /\ y.at = how /\ y.read = v
      BY DEF PolicyRequests, PolPhases
    <3> QED
      BY <1>0, <3>1, PolFreeRequest
  <2>2. /\ polreq' = [polreq EXCEPT ![w] = q] /\ collided' = (collided \/ Bumping # {})
        /\ UNCHANGED <<version, agreements, bumps, behind>>
    BY <1>2, <2>1 DEF BeginBump
  <2>3. ReadInOrder(q)
    BY <2>1 DEF ReadInOrder
  <2> QED
    BY <1>0, <1>1, <2>1, <2>2, <2>3, PolicyRequestBecomes
<1>3. ASSUME NEW w \in Workers, NEW u \in Users, BeginAgree(w, u) PROVE PolicyInv'
  <2>1. PICK at \in {"restoring", "agreeing"}, restoring \in BOOLEAN :
          polreq' = [polreq EXCEPT ![w] = [at |-> at, users |-> {u}, read |-> version, current |-> TRUE,
                                           restoring |-> restoring]]
    BY <1>3 DEF BeginAgree
  <2>2. PICK q \in PolicyRequests : /\ q = [at |-> at, users |-> {u}, read |-> version, current |-> TRUE,
                                            restoring |-> restoring]
                                    /\ q.at = at /\ q.read = version /\ q.current = TRUE
    <3>1. [at |-> at, users |-> {u}, read |-> version, current |-> TRUE, restoring |-> restoring]
            \in PolicyRequests
      BY <1>0 DEF PolicyRequests, PolPhases
    <3> QED
      BY <3>1
  <2>3. UNCHANGED <<version, agreements, bumps, behind, collided>>
    BY <1>3 DEF BeginAgree
  <2>4. ReadInOrder(q)
    BY <2>2 DEF ReadInOrder
  <2> QED
    BY <1>0, <1>1, <2>1, <2>2, <2>3, <2>4, PolicyRequestBecomes
<1>4. ASSUME NEW w \in Workers, NEW q \in PolicyRequests, polreq' = [polreq EXCEPT ![w] = q],
             ~collided => ReadInOrder(q), q.at \notin {"minor", "major"},
             UNCHANGED <<version, agreements, bumps, behind, collided>>
      PROVE  PolicyInv'
  BY <1>0, <1>1, <1>4, PolicyRequestBecomes
<1>5. ASSUME NEW w \in Workers, PolEnd(w), UNCHANGED <<version, agreements, bumps, behind, collided>>
      PROVE  PolicyInv'
  BY <1>4, <1>5, PolFreeRequest DEF PolEnd
<1>6. ASSUME NEW w \in Workers, NEW u, RestoreLevel(w, u) PROVE PolicyInv'
  <2>1. UNCHANGED <<version, agreements, bumps, behind, collided>> /\ polreq[w].at = "restoring"
    BY <1>6 DEF RestoreLevel
  <2>2. PICK q \in PolicyRequests : /\ q = [polreq[w] EXCEPT !.at = "agreeing"]
                                    /\ q.at = "agreeing" /\ q.read = polreq[w].read /\ q.current = polreq[w].current
    <3>1. ASSUME NEW z \in PolicyRequests
          PROVE  LET y == [z EXCEPT !.at = "agreeing"]
                 IN  y \in PolicyRequests /\ y.at = "agreeing" /\ y.read = z.read /\ y.current = z.current
      BY DEF PolicyRequests, PolPhases
    <3>2. polreq[w] \in PolicyRequests
      BY <1>0
    <3> QED
      BY <3>1, <3>2
  <2>3. ~collided => ReadInOrder(q)
    BY <2>1, <2>2 DEF PolicyInv, InOrder, ReadInOrder
  <2>4. polreq' = [polreq EXCEPT ![w] = q] \/ PolEnd(w)
    BY <1>6, <2>2 DEF RestoreLevel
  <2> QED
    BY <1>4, <1>5, <2>1, <2>2, <2>3, <2>4
<1>7. ASSUME NEW w \in Workers, NEW u \in polreq[w].users, SaveAgreement(w, u) PROVE PolicyInv'
  <2>1. polreq[w] \in PolicyRequests /\ u \in Users /\ polreq[w].read \in Versions /\ polreq[w].current \in BOOLEAN
    BY <1>0 DEF PolicyRequests
  <2>2. /\ agreements' = agreements \cup {<<u, polreq[w].read>>}
        /\ behind' = IF polreq[w].current THEN behind \ {u} ELSE behind
        /\ polreq' = [polreq EXCEPT ![w] = PolFree] /\ polreq[w].at = "agreeing"
        /\ UNCHANGED <<version, bumps, collided>>
    BY <1>7 DEF SaveAgreement, PolEnd
  <2>3. agreements' \subseteq Users \X Versions /\ behind' \subseteq Users
    BY <1>0, <2>1, <2>2
  <2>4. ~collided => IF polreq[w].current THEN polreq[w].read = version ELSE Before(polreq[w].read, version)
    BY <2>2 DEF PolicyInv, InOrder, ReadInOrder
  <2>5. ~collided => \A a \in agreements' : UpTo(a[2], version)
    <3>1. ~collided => UpTo(polreq[w].read, version)
      BY <2>4 DEF UpTo
    <3> QED
      BY <1>1, <2>2, <3>1
  <2>6. ~collided => \A v \in Users : <<v, version>> \in agreements' => v \notin behind'
    <3> SUFFICES ASSUME ~collided, NEW v \in Users, <<v, version>> \in agreements' PROVE v \notin behind'
      OBVIOUS
    <3>1. CASE polreq[w].current
      BY <1>1, <2>2, <3>1
    <3>2. CASE ~polreq[w].current
      <4>1. polreq[w].read # version
        BY <1>0, <2>1, <2>4, <3>2, BeforeIsStrict
      <4> QED
        BY <1>1, <2>2, <3>2, <4>1
    <3> QED
      BY <3>1, <3>2
  <2> QED
    BY <1>0, <2>2, <2>3, <2>5, <2>6, PolFreeRequest, PolicyRequestBecomes
<1>8. ASSUME NEW w \in Workers, CommitBump(w) PROVE PolicyInv'
  <2>0. polreq[w].read \in Versions /\ polreq[w].at \in {"minor", "major"}
    BY <1>0, <1>8 DEF PolicyRequests, CommitBump
  <2>1. /\ version' = Bumped(polreq[w].read, polreq[w].at) /\ bumps' = bumps + 1 /\ behind' = Users
        /\ polreq' = [v \in Workers |-> IF v = w THEN PolFree ELSE [polreq[v] EXCEPT !.current = FALSE]]
        /\ UNCHANGED <<agreements, collided>>
    BY <1>8 DEF CommitBump
  <2>2. version' \in Versions
    BY <2>0, <2>1, BumpedIsLater
  <2>3. ASSUME NEW v \in Workers, v # w
        PROVE  /\ polreq'[v] \in PolicyRequests /\ polreq'[v].at = polreq[v].at
               /\ polreq'[v].read = polreq[v].read /\ polreq'[v].current = FALSE
    <3>1. polreq[v] \in PolicyRequests /\ polreq'[v] = [polreq[v] EXCEPT !.current = FALSE]
      BY <1>0, <2>1, <2>3
    <3> QED
      BY <3>1 DEF PolicyRequests
  <2>4. polreq'[w] = PolFree
    BY <2>1
  <2>5. polreq' \in [Workers -> PolicyRequests]
    BY <2>1, <2>3, <2>4, PolFreeRequest
  <2>6. PolicyTypeOK'
    BY <1>0, <2>1, <2>2, <2>5 DEF PolicyTypeOK, PolicyRequests, Versions
  <2>7. ASSUME ~collided' PROVE InOrder'
    <3>1. InOrder /\ polreq[w].read = version
      BY <2>0, <2>1, <2>7 DEF PolicyInv, InOrder, ReadInOrder
    <3>2. Before(version, version')
      BY <1>0, <2>1, <3>1, BumpedIsLater
    <3>3. \A v \in Workers : v # w => polreq[v].at \notin {"minor", "major"}
      BY <2>0, <3>1 DEF InOrder, Bumping
    <3>4. \A v, x \in Bumping' : v = x
      BY <2>3, <2>4, <3>3, PolFreeRequest DEF Bumping
    <3>5. ASSUME NEW v \in Workers PROVE ReadInOrder(polreq[v])'
      <4>1. CASE v = w
        BY <2>4, <4>1, PolFreeRequest DEF ReadInOrder
      <4>2. CASE v # w
        <5>1. polreq[v].read \in Versions /\ polreq[v].current \in BOOLEAN
          BY <1>0 DEF PolicyRequests
        <5>2. polreq[v].at \in {"restoring", "agreeing"} => UpTo(polreq[v].read, version)
          BY <3>1, <5>1 DEF InOrder, ReadInOrder, UpTo
        <5>3. polreq[v].at \in {"restoring", "agreeing"} => Before(polreq[v].read, version')
          BY <1>0, <2>2, <3>2, <5>1, <5>2, BeforeIsTransitive
        <5> QED
          BY <2>3, <3>3, <4>2, <5>3 DEF ReadInOrder
      <4> QED
        BY <4>1, <4>2
    <3>6. ASSUME NEW a \in agreements PROVE Before(a[2], version')
      <4>1. a[2] \in Versions /\ UpTo(a[2], version)
        BY <1>0, <3>1 DEF InOrder
      <4> QED
        BY <1>0, <2>2, <3>2, <4>1, BeforeIsTransitive
    <3>7. ASSUME NEW u \in Users PROVE <<u, version'>> \notin agreements
      <4>1. Before(version', version') => FALSE
        BY <2>2, BeforeIsStrict
      <4> QED
        BY <3>6, <4>1
    <3> QED
      BY <2>1, <3>4, <3>5, <3>6, <3>7 DEF InOrder, UpTo
  <2> QED
    BY <2>6, <2>7 DEF PolicyInv
<1>9. ASSUME UNCHANGED policyVars PROVE PolicyInv'
  BY <1>9 DEF policyVars, PolicyInv, PolicyTypeOK, InOrder, ReadInOrder, Bumping
<1>10. ASSUME NEW w \in Workers, NEW u \in Users, Decline(w, u) PROVE PolicyInv'
  BY <1>9, <1>10 DEF Decline, policyVars
<1>11. ASSUME NEW w \in Workers, PolicyStart(w) PROVE PolicyInv'
  BY <1>2, <1>3, <1>10, <1>11 DEF PolicyStart
<1>12. ASSUME NEW w \in Workers, PolicyContinue(w) PROVE PolicyInv'
  BY <1>6, <1>7, <1>8, <1>12 DEF PolicyContinue
<1>13. ASSUME NEW w \in Workers, PolicyFail(w) PROVE PolicyInv'
  BY <1>5, <1>13 DEF PolicyFail
<1> QED
  BY <1>9, <1>11, <1>12, <1>13 DEF PolicyStep

LEMMA PolicyInvariant == Spec => []PolicyInv
<1>1. Init => PolicyInv
  BY PolicyInitial DEF Init
<1>2. PolicyInv /\ [Next]_vars => PolicyInv'
  BY PoliciesAlone, PolicySteps
<1> QED
  BY <1>1, <1>2, PTL DEF Spec

\* For any users, workers and number of versions: unless two bumps were under way at once, who may
\* browse the portal has agreed in a request that began after the last of them.
THEOREM AgreedSince == Spec => []AgreedSinceBump
<1>1. PolicyInv => AgreedSinceBump
  BY DEF PolicyInv, InOrder, AgreedSinceBump, MayBrowse
<1> QED
  BY <1>1, PolicyInvariant, PTL

-----------------------------------------------------------------------------
(* Bans *)

BanStep == \E w \in Workers : BanStart(w) \/ BanContinue(w) \/ BanFail(w)

\* A step of the portal is one of a request about bans, or leaves bans and such requests alone.
LEMMA ElsewhereThanBans ==
  ASSUME LevelTypes, [Next]_vars
  PROVE  BanStep \/ (SetElsewhere("bans") /\ UNCHANGED requestVars)
<1>0. ASSUME UNCHANGED accountVars PROVE SetElsewhere("bans")
  BY <1>0, SameElsewhere DEF accountVars, SameLevels
<1>1. CASE UNCHANGED vars
  BY <1>0, <1>1 DEF vars, banVars, requestVars
<1>2. CASE Beside
  <2>1. ASSUME NEW s \in Secrets, Expire(s) PROVE SetElsewhere("bans")
    BY <2>1, SameElsewhere DEF Expire
  <2>2. UNCHANGED requestVars
    BY <1>2 DEF Beside, Only, OfAccounts, SyncStep, banVars, requestVars
  <2> QED
    BY <1>0, <1>2, <2>1, <2>2, ScriptsElsewhere DEF Beside, Only, OfAccounts
<1>3. ASSUME NEW w \in Workers, Serve(w) \/ Continue(w) \/ Fail(w)
      PROVE  BanStep \/ (SetElsewhere("bans") /\ UNCHANGED requestVars)
  <2>1. \/ BanStart(w) \/ BanContinue(w) \/ BanFail(w)
        \/ /\ UNCHANGED requestVars
           /\ \/ RegistrationStart(w) \/ RegistrationContinue(w) \/ RegistrationFail(w)
              \/ SignStart(w) \/ SignContinue(w) \/ SignFail(w)
              \/ PolicyStart(w) \/ PolicyContinue(w) \/ PolicyFail(w)
              \/ RoleStart(w) \/ RoleContinue(w) \/ RoleFail(w)
              \/ UNCHANGED accountVars
    BY <1>3 DEF Serve, Continue, Fail, Only, OfAccounts, banVars, requestVars
  <2> QED
    BY <1>0, <2>1, RegistrationElsewhere, SigningElsewhere, PoliciesElsewhere, RolesElsewhere DEF BanStep
<1> QED
  BY <1>1, <1>2, <1>3 DEF Next

\* What a request q about bans knows: one that is to lift a ban has read the names it will restore,
\* apart from those the ban has overtaken it with.
BanKnown(q) ==
  /\ q.at \in {"banning", "lifting"} => q.ban \in BanIds
  /\ q.at = "lifting" => ban[q.ban].names \ overtaken \subseteq q.todo

BanInv ==
  /\ LevelTypes
  /\ ban \in [BanIds -> BanRows] /\ banreq \in [Workers -> BanRequests] /\ overtaken \subseteq Users
  /\ \A b \in BanIds : ban[b].state # "live" => ban[b].names = {}
  /\ \A w \in Workers : BanKnown(banreq[w])
  /\ BanIsOnRecord

LEMMA BanRecords == /\ BanFree \in BanRequests /\ BanFree.at = "free"
                    /\ NoBan \in BanRows /\ NoBan.state = "none" /\ NoBan.names = {}
BY DEF BanFree, BanRequests, NoBan, BanRows, Kinds

LEMMA BanInitial == Init => BanInv
<1> SUFFICES ASSUME Init PROVE BanInv
  OBVIOUS
<1>1. /\ ban = [b \in BanIds |-> NoBan] /\ banreq = [w \in Workers |-> BanFree] /\ overtaken = {}
      /\ level = [u \in Users |-> IF u \in Newcomers THEN "absent" ELSE "member"]
      /\ writer = [u \in Users |-> "grid"]
  BY DEF Init, BanInit, AccountInit
<1>2. LevelTypes
  BY <1>1 DEF LevelTypes, Levels, LetIn, Parts
<1>3. BanIsOnRecord
  BY <1>1 DEF BanIsOnRecord
<1> QED
  BY <1>1, <1>2, <1>3, BanRecords DEF BanInv, BanKnown

LEMMA BanElsewhere ==
  ASSUME BanInv, SetElsewhere("bans"), UNCHANGED requestVars
  PROVE  BanInv'
<1>1. ban' = ban /\ banreq' = banreq /\ overtaken' = overtaken
  BY DEF requestVars
<1>2. BanIsOnRecord'
  BY <1>1 DEF BanInv, SetElsewhere, BanIsOnRecord, NamedBy
<1> QED
  BY <1>1, <1>2 DEF BanInv, SetElsewhere, BanKnown

\* What a call about u leaves behind.
LEMMA CallOfBans ==
  ASSUME LevelTypes, NEW u \in Users, NEW l \in Levels,
         SetUserLevel(u, l, "bans") \/ Unanswered(u, l, "bans")
  PROVE  /\ LevelTypes' /\ uncertain \subseteq uncertain'
         /\ \A v \in Users \ {u} : level'[v] = level[v] /\ writer'[v] = writer[v]
         /\ level'[u] = l \/ u \in uncertain' \/ level'[u] = "absent"
<1>1. "bans" \in Parts
  BY DEF Parts
<1>2. CASE SameLevels /\ level[u] = "absent"
  BY <1>2 DEF LevelTypes, SameLevels
<1>3. CASE Answered(u, l, "bans")
  BY <1>1, <1>3 DEF LevelTypes, Answered
<1>4. CASE Unanswered(u, l, "bans")
  BY <1>1, <1>4 DEF LevelTypes, Unanswered
<1> QED
  BY <1>2, <1>3, <1>4 DEF SetUserLevel

\* One request becomes q, the bans stay as they are, and whoever is locked out by a ban was so before
\* and is not forgotten by the request.
LEMMA OneBanRequest ==
  ASSUME BanInv, NEW w \in Workers, NEW q \in BanRequests, banreq' = [banreq EXCEPT ![w] = q],
         ban' = ban, overtaken' = overtaken, LevelTypes', uncertain \subseteq uncertain', BanKnown(q),
         \A v \in Users : level'[v] = "banned" /\ writer'[v] = "bans" /\ v \notin uncertain' =>
           /\ level[v] = "banned" /\ writer[v] = "bans"
           /\ banreq[w].at = "restoring" /\ v \in banreq[w].todo => q.at = "restoring" /\ v \in q.todo
  PROVE  BanInv'
<1>1. banreq' \in [Workers -> BanRequests] /\ \A x \in Workers : banreq'[x] = IF x = w THEN q ELSE banreq[x]
  BY DEF BanInv
<1>2. \A x \in Workers : BanKnown(banreq[x])'
  BY <1>1 DEF BanInv, BanKnown
<1>3. ASSUME NEW v \in Users, level'[v] = "banned", writer'[v] = "bans", v \notin uncertain' \cup overtaken'
      PROVE  NamedBy(v)' # {} \/ \E x \in Workers : banreq'[x].at = "restoring" /\ v \in banreq'[x].todo
  <2>1. NamedBy(v) # {} \/ \E x \in Workers : banreq[x].at = "restoring" /\ v \in banreq[x].todo
    BY <1>3 DEF BanInv, BanIsOnRecord
  <2>2. NamedBy(v)' = NamedBy(v)
    BY DEF NamedBy
  <2> QED
    BY <1>1, <1>3, <2>1, <2>2
<1>4. BanIsOnRecord'
  BY <1>3 DEF BanIsOnRecord
<1> QED
  BY <1>1, <1>2, <1>4 DEF BanInv

\* What the request w has written becomes visible, with the names N.
LEMMA PublishKeeps ==
  ASSUME BanInv, NEW w \in Workers, banreq[w].at = "banning", NEW N \in SUBSET Users, Publish(w, N),
         NEW q \in BanRequests, banreq' = [banreq EXCEPT ![w] = q], q.at # "lifting",
         q.at = "banning" => q.ban \in BanIds,
         overtaken \subseteq overtaken', overtaken' \subseteq Users,
         \A x \in Workers : banreq[x].at = "lifting" /\ banreq[x].ban = banreq[w].ban => N \subseteq overtaken',
         LevelTypes', uncertain \subseteq uncertain',
         \A v \in Users \ N : level'[v] = level[v] /\ writer'[v] = writer[v]
  PROVE  BanInv'
<1> DEFINE b == banreq[w].ban
           row == [state |-> "live", kind |-> banreq[w].kind, machine |-> banreq[w].machine,
                   names |-> ban[b].names \cup N]
<1>1. b \in BanIds /\ banreq[w] \in BanRequests /\ ban[b] \in BanRows
  BY DEF BanInv, BanKnown
<1>2. row \in BanRows /\ row.state = "live" /\ row.names = ban[b].names \cup N
  BY <1>1 DEF BanRequests, BanRows
<1>3. ban' = [ban EXCEPT ![b] = row]
  BY DEF Publish
<1> HIDE DEF row
<1>4. ban' \in [BanIds -> BanRows] /\ \A c \in BanIds : ban'[c] = IF c = b THEN row ELSE ban[c]
  BY <1>1, <1>2, <1>3 DEF BanInv
<1>5. banreq' \in [Workers -> BanRequests] /\ \A x \in Workers : banreq'[x] = IF x = w THEN q ELSE banreq[x]
  BY DEF BanInv
<1>6. \A c \in BanIds : ban'[c].state # "live" => ban'[c].names = {}
  BY <1>2, <1>4 DEF BanInv
<1>7. ASSUME NEW x \in Workers PROVE BanKnown(banreq[x])'
  <2>1. CASE x = w
    BY <1>5, <2>1 DEF BanKnown
  <2>2. CASE x # w
    <3>1. banreq'[x] = banreq[x] /\ BanKnown(banreq[x])
      BY <1>5, <2>2 DEF BanInv
    <3>2. CASE banreq[x].ban = b
      BY <1>1, <1>2, <1>4, <3>1, <3>2 DEF BanKnown
    <3>3. CASE banreq[x].ban # b
      BY <1>4, <3>1, <3>3 DEF BanKnown
    <3> QED
      BY <3>2, <3>3
  <2> QED
    BY <2>1, <2>2
<1>8. ASSUME NEW v \in Users, level'[v] = "banned", writer'[v] = "bans", v \notin uncertain' \cup overtaken'
      PROVE  NamedBy(v)' # {} \/ \E x \in Workers : banreq'[x].at = "restoring" /\ v \in banreq'[x].todo
  <2>1. CASE v \in N
    <3>1. b \in NamedBy(v)'
      BY <1>1, <1>2, <1>4, <2>1 DEF NamedBy
    <3> QED
      BY <3>1
  <2>2. CASE v \notin N
    <3>1. NamedBy(v) \subseteq NamedBy(v)'
      BY <1>2, <1>4 DEF NamedBy
    <3>2. NamedBy(v) # {} \/ \E x \in Workers : banreq[x].at = "restoring" /\ v \in banreq[x].todo
      BY <1>8, <2>2 DEF BanInv, BanIsOnRecord
    <3> QED
      BY <1>5, <3>1, <3>2
  <2> QED
    BY <2>1, <2>2
<1>9. BanIsOnRecord'
  BY <1>8 DEF BanIsOnRecord
<1> QED
  BY <1>4, <1>5, <1>6, <1>7, <1>9 DEF BanInv

\* Lifting a ban hands the names it had to the request that restores them.
LEMMA DeleteKeeps ==
  ASSUME BanInv, NEW w \in Workers, DeleteBan(w)
  PROVE  BanInv'
<1> DEFINE b == banreq[w].ban
           row == [NoBan EXCEPT !.state = "lifted"]
           r == [banreq[w] EXCEPT !.at = "restoring"]
<1>1. /\ banreq[w].at = "lifting" /\ b \in BanIds /\ banreq[w] \in BanRequests
      /\ ban[b].names \ overtaken \subseteq banreq[w].todo
  BY DEF BanInv, BanKnown, DeleteBan
<1>2. row \in BanRows /\ row.state = "lifted" /\ row.names = {}
  BY DEF BanRows, NoBan, Kinds
<1>3. r \in BanRequests /\ r.at = "restoring" /\ r.todo = banreq[w].todo
  BY <1>1 DEF BanRequests
<1>4. /\ ban' = [ban EXCEPT ![b] = row] /\ banreq' = [banreq EXCEPT ![w] = r]
      /\ UNCHANGED <<level, writer, uncertain, overtaken>>
  BY DEF DeleteBan, SameLevels
<1> HIDE DEF row, r
<1>5. ban' \in [BanIds -> BanRows] /\ \A c \in BanIds : ban'[c] = IF c = b THEN row ELSE ban[c]
  BY <1>1, <1>2, <1>4 DEF BanInv
<1>6. banreq' \in [Workers -> BanRequests] /\ \A x \in Workers : banreq'[x] = IF x = w THEN r ELSE banreq[x]
  BY <1>3, <1>4 DEF BanInv
<1>7. \A c \in BanIds : ban'[c].state # "live" => ban'[c].names = {}
  BY <1>2, <1>5 DEF BanInv
<1>8. ASSUME NEW x \in Workers PROVE BanKnown(banreq[x])'
  <2>1. CASE x = w
    BY <1>3, <1>6, <2>1 DEF BanKnown
  <2>2. CASE x # w
    <3>1. banreq'[x] = banreq[x] /\ BanKnown(banreq[x])
      BY <1>6, <2>2 DEF BanInv
    <3> QED
      BY <1>2, <1>4, <1>5, <3>1 DEF BanKnown
  <2> QED
    BY <2>1, <2>2
<1>9. ASSUME NEW v \in Users, level'[v] = "banned", writer'[v] = "bans", v \notin uncertain' \cup overtaken'
      PROVE  NamedBy(v)' # {} \/ \E x \in Workers : banreq'[x].at = "restoring" /\ v \in banreq'[x].todo
  <2>1. NamedBy(v) # {} \/ \E x \in Workers : banreq[x].at = "restoring" /\ v \in banreq[x].todo
    BY <1>4, <1>9 DEF BanInv, BanIsOnRecord
  <2>2. \A x \in Workers : banreq[x].at = "restoring" => banreq'[x] = banreq[x]
    BY <1>1, <1>6
  <2>3. \A c \in NamedBy(v) : c # b => c \in NamedBy(v)'
    BY <1>5 DEF NamedBy
  <2>4. b \in NamedBy(v) => v \in r.todo
    BY <1>1, <1>3, <1>4, <1>9 DEF NamedBy
  <2> QED
    BY <1>3, <1>6, <2>1, <2>2, <2>3, <2>4
<1>10. BanIsOnRecord'
  BY <1>9 DEF BanIsOnRecord
<1>11. LevelTypes' /\ overtaken' \subseteq Users
  BY <1>4 DEF BanInv, LevelTypes
<1> QED
  BY <1>5, <1>6, <1>7, <1>8, <1>10, <1>11 DEF BanInv

LEMMA BanSteps ==
  ASSUME BanInv, BanStep
  PROVE  BanInv'
<1>0. /\ LevelTypes /\ ban \in [BanIds -> BanRows] /\ banreq \in [Workers -> BanRequests]
      /\ overtaken \subseteq Users /\ \A w \in Workers : BanKnown(banreq[w])
      /\ \A b \in BanIds : ban[b].state # "live" => ban[b].names = {}
  BY DEF BanInv
\* The levels stay, and no request forgets anybody.
<1>1. ASSUME NEW w \in Workers, NEW q \in BanRequests, banreq' = [banreq EXCEPT ![w] = q],
             UNCHANGED <<ban, overtaken>>, SameLevels \/ \E us : Died(us) /\ (banreq[w].at = "restoring" => us = banreq[w].todo),
             banreq[w].at = "restoring" => banreq[w].todo = {} \/ ~SameLevels, BanKnown(q)
      PROVE  BanInv'
  <2>1. UNCHANGED <<level, writer>> /\ uncertain \subseteq uncertain'
    BY <1>1 DEF SameLevels, Died
  <2>2. LevelTypes'
    BY <1>0, <2>1 DEF LevelTypes
  <2>3. banreq[w].at = "restoring" => banreq[w].todo \subseteq uncertain'
    BY <1>1 DEF Died
  <2> QED
    BY <1>1, <2>1, <2>2, <2>3, OneBanRequest
<1>2. BanKnown(BanFree)
  BY BanRecords DEF BanKnown
<1>3. ASSUME NEW w \in Workers, BanStart(w) PROVE BanInv'
  <2>1. ASSUME NEW b \in BanIds, BeginBan(w, b) PROVE BanInv'
    <3>1. PICK kind \in Kinds, m \in Machines, seeds \in SUBSET Users, todo \in SUBSET Users :
            banreq' = [banreq EXCEPT ![w] = [at |-> "banning", ban |-> b, kind |-> kind,
                         machine |-> IF kind = "account" THEN {} ELSE {m}, todo |-> todo]]
      <4>1. \A kind \in Kinds, m \in Machines, seeds \in SUBSET Users :
              Linked(kind, IF kind = "account" THEN {} ELSE {m}, seeds) \in SUBSET Users
        BY DEF Linked, UsersOf
      <4> QED
        BY <2>1, <4>1 DEF BeginBan
    <3> DEFINE r == [at |-> "banning", ban |-> b, kind |-> kind,
                     machine |-> IF kind = "account" THEN {} ELSE {m}, todo |-> todo]
    <3>2. r \in BanRequests /\ r.at = "banning" /\ r.ban = b
      BY DEF BanRequests
    <3>3. UNCHANGED <<ban, overtaken>> /\ (SameLevels \/ Died({}))
      BY <2>1 DEF BeginBan
    <3>4. BanKnown(r)
      BY <3>2 DEF BanKnown
    <3> HIDE DEF r
    <3> QED
      BY <1>1, <1>3, <3>1, <3>2, <3>3, <3>4 DEF r, BanStart
  <2>2. ASSUME NEW b \in BanIds, BeginLift(w, b) PROVE BanInv'
    <3>1. ASSUME NEW z \in BanRequests, NEW us \in SUBSET Users
          PROVE  LET y == [z EXCEPT !.at = "lifting", !.ban = b, !.todo = us]
                 IN  y \in BanRequests /\ y.at = "lifting" /\ y.ban = b /\ y.todo = us
      BY DEF BanRequests
    <3>2. ban[b].names \in SUBSET Users
      BY <1>0 DEF BanRows
    <3>3. PICK q \in BanRequests : /\ q = [BanFree EXCEPT !.at = "lifting", !.ban = b, !.todo = ban[b].names]
                                   /\ q.at = "lifting" /\ q.ban = b /\ q.todo = ban[b].names
      BY <3>1, <3>2, BanRecords
    <3>4. banreq' = [banreq EXCEPT ![w] = q] /\ UNCHANGED <<ban, overtaken>> /\ SameLevels
      BY <2>2, <3>3 DEF BeginLift
    <3>5. BanKnown(q)
      BY <3>3 DEF BanKnown
    <3> QED
      BY <1>1, <1>3, <3>4, <3>5 DEF BanStart
  <2> QED
    BY <1>3, <2>1, <2>2 DEF BanStart
<1>4. ASSUME NEW w \in Workers, NEW u \in Users, BanUser(w, u) PROVE BanInv'
  <2>1. /\ banreq[w].at = "banning" /\ u \in banreq[w].todo /\ Publish(w, {u})
        /\ SetUserLevel(u, "banned", "bans")
    BY <1>4 DEF BanUser
  <2>2. PICK q \in BanRequests : /\ q = [banreq[w] EXCEPT !.todo = @ \ {u}]
                                 /\ q.at = "banning" /\ q.ban = banreq[w].ban
    <3>1. ASSUME NEW z \in BanRequests
          PROVE  LET y == [z EXCEPT !.todo = @ \ {u}] IN y \in BanRequests /\ y.at = z.at /\ y.ban = z.ban
      BY DEF BanRequests
    <3> QED
      BY <1>0, <2>1, <3>1
  <2>3. banreq' = [banreq EXCEPT ![w] = q]
    BY <1>4, <2>2 DEF BanUser
  <2>4. overtaken' = IF \E v \in Workers : banreq[v].at = "lifting" /\ banreq[v].ban = banreq[w].ban
                     THEN overtaken \cup {u} ELSE overtaken
    BY <1>4 DEF BanUser
  <2>5. q.ban \in BanIds
    BY <1>0, <2>1, <2>2 DEF BanKnown
  <2>6. /\ LevelTypes' /\ uncertain \subseteq uncertain'
        /\ \A v \in Users \ {u} : level'[v] = level[v] /\ writer'[v] = writer[v]
    BY <1>0, <2>1, CallOfBans, Tiers
  <2>7. /\ overtaken \subseteq overtaken' /\ overtaken' \subseteq Users
        /\ \A x \in Workers : banreq[x].at = "lifting" /\ banreq[x].ban = banreq[w].ban => {u} \subseteq overtaken'
    BY <1>0, <2>4
  <2>8. q.at # "lifting" /\ {u} \in SUBSET Users
    BY <2>2
  <2> QED
    BY <2>1, <2>2, <2>3, <2>5, <2>6, <2>7, <2>8, PublishKeeps
<1>5. ASSUME NEW w \in Workers, BanRefused(w) PROVE BanInv'
  <2>1. banreq' = [banreq EXCEPT ![w] = BanFree] /\ SameLevels /\ UNCHANGED <<ban, overtaken>> /\ banreq[w].at = "banning"
    BY <1>5 DEF BanRefused
  <2> QED
    BY <1>1, <1>2, <2>1, BanRecords
<1>6. ASSUME NEW w \in Workers, FinishBan(w) PROVE BanInv'
  <2>1. /\ banreq[w].at = "banning" /\ SameLevels /\ UNCHANGED <<level, writer, uncertain, overtaken>>
        /\ UNCHANGED ban \/ Publish(w, {})
    BY <1>6 DEF FinishBan, SameLevels
  <2>2. PICK q \in BanRequests : banreq' = [banreq EXCEPT ![w] = q] /\ q.at \in {"free", "triggering"}
    <3>1. ASSUME NEW z \in BanRequests
          PROVE  LET y == [z EXCEPT !.at = "triggering"] IN y \in BanRequests /\ y.at = "triggering"
      BY DEF BanRequests
    <3>2. \/ banreq' = [banreq EXCEPT ![w] = BanFree]
          \/ banreq' = [banreq EXCEPT ![w] = [banreq[w] EXCEPT !.at = "triggering"]]
      BY <1>6 DEF FinishBan
    <3> QED
      BY <1>0, <3>1, <3>2, BanRecords
  <2>3. LevelTypes'
    BY <1>0, <2>1 DEF LevelTypes
  <2>4. BanKnown(q)
    BY <2>2 DEF BanKnown
  <2>5. CASE UNCHANGED ban
    BY <1>1, <2>1, <2>2, <2>4, <2>5
  <2>6. CASE Publish(w, {})
    BY <1>0, <2>1, <2>2, <2>3, <2>6, PublishKeeps
  <2> QED
    BY <2>1, <2>5, <2>6
<1>7. ASSUME NEW w \in Workers, NEW u \in Users, RestoreUser(w, u) PROVE BanInv'
  <2>1. PICK q \in BanRequests : /\ q = [banreq[w] EXCEPT !.todo = @ \ {u}]
                                 /\ q.at = "restoring" /\ q.todo = banreq[w].todo \ {u}
    <3>1. ASSUME NEW z \in BanRequests
          PROVE  LET y == [z EXCEPT !.todo = @ \ {u}]
                 IN  y \in BanRequests /\ y.at = z.at /\ y.todo = z.todo \ {u}
      BY DEF BanRequests
    <3> QED
      BY <1>0, <1>7, <3>1 DEF RestoreUser
  <2>2. /\ banreq' = [banreq EXCEPT ![w] = q] /\ UNCHANGED <<ban, overtaken>>
        /\ SetUserLevel(u, "member", "bans")
    BY <1>7, <2>1 DEF RestoreUser
  <2>3. /\ LevelTypes' /\ uncertain \subseteq uncertain'
        /\ \A v \in Users \ {u} : level'[v] = level[v] /\ writer'[v] = writer[v]
        /\ level'[u] = "member" \/ u \in uncertain' \/ level'[u] = "absent"
    BY <1>0, <2>2, CallOfBans, Tiers
  <2>4. BanKnown(q)
    BY <2>1 DEF BanKnown
  <2>5. ASSUME NEW v \in Users, level'[v] = "banned", writer'[v] = "bans", v \notin uncertain'
        PROVE  level[v] = "banned" /\ writer[v] = "bans" /\ (v \in banreq[w].todo => v \in q.todo)
    <3>1. v # u
      BY <2>3, <2>5
    <3> QED
      BY <2>1, <2>3, <2>5, <3>1
  <2>6. \A v \in Users : level'[v] = "banned" /\ writer'[v] = "bans" /\ v \notin uncertain' =>
          /\ level[v] = "banned" /\ writer[v] = "bans"
          /\ banreq[w].at = "restoring" /\ v \in banreq[w].todo => q.at = "restoring" /\ v \in q.todo
    BY <2>1, <2>5
  <2>7. ban' = ban /\ overtaken' = overtaken /\ banreq' = [banreq EXCEPT ![w] = q]
    BY <2>2
  <2>8. LevelTypes' /\ uncertain \subseteq uncertain'
    BY <2>3
  <2> QED
    BY <2>4, <2>6, <2>7, <2>8, OneBanRequest
<1>8. ASSUME NEW w \in Workers, Trigger(w) PROVE BanInv'
  <2>1. /\ banreq' = [banreq EXCEPT ![w] = BanFree] /\ SameLevels /\ UNCHANGED <<ban, overtaken>>
        /\ banreq[w].at = "restoring" => banreq[w].todo = {}
    BY <1>8 DEF Trigger
  <2> QED
    BY <1>1, <1>2, <2>1, BanRecords
<1>9. ASSUME NEW w \in Workers, BanFail(w) PROVE BanInv'
  <2>1. banreq' = [banreq EXCEPT ![w] = BanFree] /\ UNCHANGED <<ban, overtaken>>
    BY <1>9 DEF BanFail
  <2>2. CASE \E u \in banreq[w].todo : banreq[w].at = "banning" /\ Unanswered(u, "banned", "bans")
    <3>1. PICK u \in banreq[w].todo : banreq[w].at = "banning" /\ Unanswered(u, "banned", "bans")
      BY <2>2
    <3>2. u \in Users
      BY <1>0 DEF BanRequests
    <3>3. /\ LevelTypes' /\ uncertain \subseteq uncertain' /\ u \in uncertain'
          /\ \A v \in Users \ {u} : level'[v] = level[v] /\ writer'[v] = writer[v]
      BY <1>0, <3>1, <3>2, CallOfBans, Tiers DEF Unanswered
    <3> QED
      BY <1>2, <2>1, <3>1, <3>3, BanRecords, OneBanRequest
  <2>3. CASE Died(IF banreq[w].at = "restoring" THEN banreq[w].todo ELSE {})
    <3>1. /\ UNCHANGED <<level, writer>> /\ uncertain \subseteq uncertain'
          /\ banreq[w].at = "restoring" => banreq[w].todo \subseteq uncertain'
      BY <2>3 DEF Died
    <3>2. LevelTypes'
      BY <1>0, <3>1 DEF LevelTypes
    <3> QED
      BY <1>2, <2>1, <3>1, <3>2, BanRecords, OneBanRequest
  <2> QED
    BY <1>9, <2>2, <2>3 DEF BanFail
<1>10. ASSUME NEW w \in Workers, BanContinue(w) PROVE BanInv'
  BY <1>4, <1>5, <1>6, <1>7, <1>8, <1>10, DeleteKeeps DEF BanContinue
<1> QED
  BY <1>3, <1>9, <1>10 DEF BanStep

LEMMA BanInvariant == Spec => []BanInv
<1>1. BanInv /\ [Next]_vars => BanInv'
  <2> SUFFICES ASSUME BanInv, [Next]_vars PROVE BanInv'
    OBVIOUS
  <2>1. BanStep \/ (SetElsewhere("bans") /\ UNCHANGED requestVars)
    BY ElsewhereThanBans DEF BanInv
  <2> QED
    BY <2>1, BanElsewhere, BanSteps
<1> QED
  BY <1>1, BanInitial, PTL DEF Spec

\* For any users, workers, bans and machines: whoever is locked out by a ban is named by one that can
\* be lifted, or is being restored, unless a call failed or the ban came between a lifting's two steps.
THEOREM BanOnRecord == Spec => []BanIsOnRecord
<1>1. BanInv => BanIsOnRecord
  BY DEF BanInv
<1> QED
  BY <1>1, BanInvariant, PTL

-----------------------------------------------------------------------------
(* Types *)

LevelsTyped == LevelTypes /\ failures \in Nat /\ uncertain \subseteq Users
RequestsTyped == RegistrationTypeOK /\ BanTypeOK /\ SignTypeOK /\ PolicyTypeOK /\ RoleTypeOK

LEMMA CallTyped ==
  ASSUME LevelsTyped, NEW u \in Users, NEW l \in Levels, NEW part \in Parts,
         Answered(u, l, part) \/ Unanswered(u, l, part) \/ SetUserLevel(u, l, part)
  PROVE  LevelsTyped'
<1>1. ASSUME Answered(u, l, part) PROVE LevelsTyped'
  BY <1>1 DEF LevelsTyped, LevelTypes, Answered
<1>2. ASSUME Unanswered(u, l, part) PROVE LevelsTyped'
  BY <1>2 DEF LevelsTyped, LevelTypes, Unanswered
<1>3. ASSUME SameLevels PROVE LevelsTyped'
  BY <1>3 DEF LevelsTyped, LevelTypes, SameLevels
<1> QED
  BY <1>1, <1>2, <1>3 DEF SetUserLevel

LEMMA SameTyped == ASSUME LevelsTyped, SameLevels PROVE LevelsTyped'
BY DEF LevelsTyped, LevelTypes, SameLevels

LEMMA DiedTyped == ASSUME LevelsTyped, NEW us \in SUBSET Users, Died(us) PROVE LevelsTyped'
BY DEF LevelsTyped, LevelTypes, Died

LEMMA RegistrationTyped ==
  ASSUME LevelsTyped, RequestsTyped, NEW w \in Workers,
         RegistrationStart(w) \/ RegistrationContinue(w) \/ RegistrationFail(w)
  PROVE  LevelsTyped' /\ UNCHANGED <<session, rbac>>
<1>0. regreq[w].users \subseteq Users
  BY DEF RequestsTyped, RegistrationTypeOK
<1>1. CASE RegistrationStart(w)
  BY <1>1, CallTyped, SameTyped, Tiers
     DEF RegistrationStart, CreateAccount, FollowLink, ApproveLevel, RejectStatus, RequestEmailChange,
         ConfirmEmailChange
<1>2. CASE RegistrationContinue(w)
  <2>1. ASSUME NEW u \in Users, LockAccount(w, u) \/ Activate(w, u) \/ RejectLevel(w, u) PROVE LevelsTyped'
    BY <2>1, CallTyped, Tiers DEF LockAccount, Activate, RejectLevel
  <2> QED
    BY <1>0, <1>2, <2>1, SameTyped
       DEF RegistrationContinue, RecordApplication, AwaitApproval, MarkActive, RecordApproval
<1>3. CASE RegistrationFail(w)
  BY <1>0, <1>3, CallTyped, DiedTyped, Tiers DEF RegistrationFail
<1> QED
  BY <1>1, <1>2, <1>3

LEMMA BansTyped ==
  ASSUME LevelsTyped, RequestsTyped, NEW w \in Workers, BanStart(w) \/ BanContinue(w) \/ BanFail(w)
  PROVE  LevelsTyped' /\ UNCHANGED <<session, rbac>>
<1>0. banreq[w].todo \in SUBSET Users
  BY DEF RequestsTyped, BanTypeOK, BanRequests
<1>1. CASE BanStart(w)
  BY <1>1, SameTyped, DiedTyped DEF BanStart, BeginBan, BeginLift
<1>2. CASE BanContinue(w)
  <2>1. ASSUME NEW u \in Users, BanUser(w, u) \/ RestoreUser(w, u) PROVE LevelsTyped'
    BY <2>1, CallTyped, Tiers DEF BanUser, RestoreUser
  <2> QED
    BY <1>2, <2>1, SameTyped DEF BanContinue, BanRefused, FinishBan, DeleteBan, Trigger
<1>3. CASE BanFail(w)
  <2>1. \/ \E u \in banreq[w].todo : Unanswered(u, "banned", "bans")
        \/ \E us \in SUBSET Users : Died(us)
    BY <1>0, <1>3 DEF BanFail
  <2> QED
    BY <1>0, <1>3, <2>1, CallTyped, DiedTyped, Tiers DEF BanFail
<1> QED
  BY <1>1, <1>2, <1>3

LEMMA SigningTyped ==
  ASSUME AccountTypeOK, LevelsTyped, NEW w \in Workers, SignStart(w) \/ SignContinue(w) \/ SignFail(w)
  PROVE  LevelsTyped' /\ session' \in [Users -> Levels] /\ UNCHANGED rbac
<1>0. "absent" \in Levels /\ session \in [Users -> Levels] /\ level \in [Users -> Levels]
  BY DEF Levels, AccountTypeOK
<1>1. CASE SignStart(w)
  <2>1. ASSUME NEW u \in Users, Login(u) \/ LogoutAll(u) \/ LogoutFails(u) \/ BeginReset(w, u)
        PROVE  LevelsTyped' /\ session' \in [Users -> Levels]
    BY <1>0, <2>1, SameTyped, DiedTyped DEF Login, LogoutAll, LogoutFails, BeginReset
  <2> QED
    BY <1>0, <1>1, <2>1, SameTyped DEF SignStart, Authorize, ReadCode, ReadReset
<1>2. CASE SignContinue(w)
  BY <1>0, <1>2, SameTyped, DiedTyped
     DEF SignContinue, DeleteCode, Grant, ChangePassword, PasswordUnanswered, BurnResets, RenewReset
<1>3. CASE SignFail(w)
  BY <1>0, <1>3, DiedTyped DEF SignFail
<1> QED
  BY <1>1, <1>2, <1>3

LEMMA PoliciesTyped ==
  ASSUME AccountTypeOK, LevelsTyped, RequestsTyped, NEW w \in Workers,
         PolicyStart(w) \/ PolicyContinue(w) \/ PolicyFail(w)
  PROVE  LevelsTyped' /\ session' \in [Users -> Levels] /\ UNCHANGED rbac
<1>0. session \in [Users -> Levels] /\ polreq[w].users \in SUBSET Users
  BY DEF AccountTypeOK, RequestsTyped, PolicyTypeOK
<1>1. \A u : Restored(u) \in Levels
  BY DEF Restored, Levels, LetIn
<1>2. CASE PolicyStart(w)
  BY <1>0, <1>2, CallTyped, SameTyped, Tiers DEF PolicyStart, BeginBump, BeginAgree, Decline
<1>3. CASE PolicyContinue(w)
  <2>1. ASSUME NEW u \in Users, RestoreLevel(w, u) PROVE LevelsTyped' /\ session' = session
    BY <1>1, <2>1, CallTyped, Tiers DEF RestoreLevel
  <2>2. ASSUME NEW u \in Users, SaveAgreement(w, u) PROVE LevelsTyped' /\ session' \in [Users -> Levels]
    BY <1>0, <1>1, <2>2, SameTyped DEF SaveAgreement
  <2> QED
    BY <1>0, <1>3, <2>1, <2>2, SameTyped DEF PolicyContinue, CommitBump
<1>4. CASE PolicyFail(w)
  BY <1>0, <1>4, DiedTyped DEF PolicyFail
<1> QED
  BY <1>2, <1>3, <1>4

LEMMA RolesTyped ==
  ASSUME AccountTypeOK, LevelsTyped, RequestsTyped, NEW w \in Workers,
         RoleStart(w) \/ RoleContinue(w) \/ RoleFail(w)
  PROVE  LevelsTyped' /\ rbac' \subseteq Users /\ UNCHANGED session /\ RoleTypeOK'
<1> DEFINE R == [at : {"free", "saving", "levelling"}, users : SUBSET Users, read : Levels, grant : BOOLEAN]
<1>0. /\ rolereq \in [Workers -> R] /\ rolereq[w].users \in SUBSET Users /\ rolereq[w].read \in Levels
      /\ rbac \subseteq Users /\ level \in [Users -> Levels]
  BY DEF AccountTypeOK, RequestsTyped, RoleTypeOK
<1>1. RoleFree \in R
  BY DEF RoleFree, Levels
<1>2. ASSUME RoleEnd(w) PROVE RoleTypeOK'
  BY <1>0, <1>1, <1>2 DEF RoleEnd, RoleTypeOK
<1>3. CASE RoleStart(w)
  <2>1. ASSUME NEW u \in Users, NEW granted \in BOOLEAN, ReadLevel(w, u, granted)
        PROVE  LevelsTyped' /\ rbac' = rbac /\ RoleTypeOK'
    <3>1. [at |-> "saving", users |-> {u}, read |-> level[u], grant |-> granted] \in R
      BY <1>0
    <3> QED
      BY <1>0, <2>1, <3>1, SameTyped DEF ReadLevel, RoleTypeOK
  <2>2. ASSUME NEW u \in Users, NEW l \in {"member", "admin", "banned"}, SetByHand(u, l)
        PROVE  LevelsTyped' /\ rbac' = rbac /\ RoleTypeOK'
    <3>1. SetUserLevel(u, l, "roles") /\ UNCHANGED <<rbac, rolereq>> /\ l \in Levels /\ "roles" \in Parts
      BY <2>2, Tiers DEF SetByHand
    <3> QED
      BY <1>0, <3>1, CallTyped DEF RoleTypeOK
  <2> QED
    BY <1>0, <1>3, <2>1, <2>2 DEF RoleStart
<1>4. CASE RoleContinue(w)
  <2>1. ASSUME NEW u \in Users, SaveRoles(w, u) PROVE LevelsTyped' /\ rbac' \subseteq Users /\ RoleTypeOK'
    <3>1. [rolereq[w] EXCEPT !.at = "levelling"] \in R
      BY <1>0
    <3>2. rolereq' = [rolereq EXCEPT ![w] = [rolereq[w] EXCEPT !.at = "levelling"]]
      BY <2>1 DEF SaveRoles
    <3>3. RoleTypeOK'
      BY <1>0, <3>1, <3>2 DEF RoleTypeOK
    <3> QED
      BY <1>0, <2>1, <3>3, SameTyped DEF SaveRoles
  <2>2. ASSUME NEW u \in Users, NormaliseLevel(w, u) PROVE LevelsTyped' /\ rbac' = rbac /\ RoleTypeOK'
    <3> DEFINE l == Normalised(rolereq[w].read, rolereq[w].grant)
    <3>1. l \in Levels
      BY <1>0, NormalisedLetIn, Tiers
    <3>2. (SameLevels \/ SetUserLevel(u, l, "roles")) /\ RoleEnd(w) /\ rbac' = rbac
      BY <2>2 DEF NormaliseLevel
    <3> HIDE DEF l
    <3> QED
      BY <1>2, <3>1, <3>2, SameTyped, CallTyped, Tiers
  <2> QED
    BY <1>0, <1>4, <2>1, <2>2 DEF RoleContinue
<1>5. CASE RoleFail(w)
  BY <1>0, <1>2, <1>5, DiedTyped DEF RoleFail
<1> QED
  BY <1>3, <1>4, <1>5

LEMMA ScriptsTyped == ASSUME LevelsTyped, NEW n \in 1 .. SyncRuns, SyncStep(n)
                      PROVE  LevelsTyped' /\ UNCHANGED <<session, rbac>>
BY SameTyped, DiedTyped
   DEF SyncStep, ReadMacs, ReadIni, OpenIni, WriteIni, RestartRobust, ReadHosts, DropHosts, CommandsFail, ScriptFails

\* What no part can promise alone: the accounts, the roles, and the budget.
Shared == AccountTypeOK /\ RoleTypeOK /\ left \in [Served -> Nat]

LEMMA SharedInitial == Init => Shared
<1> SUFFICES ASSUME Init PROVE Shared
  OBVIOUS
<1>1. AccountTypeOK
  BY DEF Init, AccountInit, AccountTypeOK, Levels, LetIn, Parts
<1>2. RoleTypeOK
  BY DEF Init, RoleInit, RoleFree, RoleTypeOK, Levels
<1>3. left \in [Served -> Nat]
  BY MixAssumption DEF Init
<1> QED
  BY <1>1, <1>2, <1>3 DEF Shared

LEMMA SharedSteps ==
  ASSUME Shared, RegistrationTypeOK, BanTypeOK, SignTypeOK, PolicyTypeOK, [Next]_vars
  PROVE  Shared'
<1>0. LevelsTyped /\ RequestsTyped /\ session \in [Users -> Levels] /\ rbac \subseteq Users
  BY DEF Shared, AccountTypeOK, LevelsTyped, LevelTypes, RequestsTyped
<1>1. ASSUME LevelsTyped', session' \in [Users -> Levels], rbac' \subseteq Users PROVE AccountTypeOK'
  BY <1>1 DEF AccountTypeOK, LevelsTyped, LevelTypes
<1>2. ASSUME UNCHANGED accountVars PROVE LevelsTyped' /\ UNCHANGED <<session, rbac>>
  BY <1>0, <1>2 DEF accountVars, LevelsTyped, LevelTypes
<1>3. ASSUME UNCHANGED rolereq PROVE RoleTypeOK'
  BY <1>3 DEF Shared, RoleTypeOK
<1>4. CASE UNCHANGED vars
  BY <1>0, <1>1, <1>2, <1>3, <1>4 DEF vars, Shared
<1>5. CASE Beside
  <2>1. UNCHANGED rolereq /\ UNCHANGED left
    BY <1>5 DEF Beside, Only, OfAccounts
  <2>2. ASSUME NEW s \in Secrets, Expire(s), UNCHANGED rbac PROVE LevelsTyped' /\ UNCHANGED <<session, rbac>>
    BY <1>0, <2>2, SameTyped DEF Expire
  <2>3. LevelsTyped' /\ UNCHANGED <<session, rbac>>
    BY <1>0, <1>2, <1>5, <2>2, ScriptsTyped DEF Beside, Only, OfAccounts
  <2> QED
    BY <1>0, <1>1, <1>3, <2>1, <2>3 DEF Shared
<1>6. ASSUME NEW w \in Workers, Serve(w) \/ Continue(w) \/ Fail(w) PROVE Shared'
  <2>1. left' \in [Served -> Nat]
    <3>1. ASSUME NEW part \in Served, Comes(part) PROVE left' \in [Served -> Nat]
      BY <3>1 DEF Comes, Shared
    <3>2. \A part \in {"registration", "bans", "signin", "policies", "roles", "regions", "tickets"} : part \in Served
      BY DEF Served
    <3>3. (\E part \in Served : Comes(part)) \/ UNCHANGED left
      BY <1>6, <3>2 DEF Serve, Continue, Fail
    <3> QED
      BY <3>1, <3>3 DEF Shared
  <2>2. \/ UNCHANGED rolereq /\ (RegistrationStart(w) \/ RegistrationContinue(w) \/ RegistrationFail(w))
        \/ UNCHANGED rolereq /\ (BanStart(w) \/ BanContinue(w) \/ BanFail(w))
        \/ UNCHANGED rolereq /\ (SignStart(w) \/ SignContinue(w) \/ SignFail(w))
        \/ UNCHANGED rolereq /\ (PolicyStart(w) \/ PolicyContinue(w) \/ PolicyFail(w))
        \/ RoleStart(w) \/ RoleContinue(w) \/ RoleFail(w)
        \/ UNCHANGED accountVars /\ UNCHANGED rolereq
    BY <1>6 DEF Serve, Continue, Fail, Only, OfAccounts
  <2>3. LevelsTyped' /\ session' \in [Users -> Levels] /\ rbac' \subseteq Users /\ RoleTypeOK'
    BY <1>0, <1>2, <1>3, <2>2, RegistrationTyped, BansTyped, SigningTyped, PoliciesTyped, RolesTyped DEF Shared
  <2> QED
    BY <1>1, <2>1, <2>3 DEF Shared
<1> QED
  BY <1>4, <1>5, <1>6 DEF Next

\* The parts and what they share keep to their types, whatever the others do, for every value of the
\* constants.
THEOREM PortalTypes == Spec => []TypeOK
<1> DEFINE Parted == /\ RegistrationTypeOK /\ BanTypeOK /\ SignTypeOK /\ PolicyTypeOK
                     /\ RegionTypeOK /\ TicketTypeOK /\ IngestTypeOK /\ MigrationTypeOK
<1>1. RejectionInv /\ EnforceInv /\ SignInv /\ PolicyInv /\ RegionInv /\ TicketInv /\ IngestInv /\ MigrationInv
        => Parted
  BY DEF RejectionInv, EnforceInv, SignInv, PolicyInv, RegionInv, TicketInv, IngestInv, MigrationInv
<1>2. Spec => []Parted
  BY <1>1, RejectionInvariant, EnforceInvariant, SignInvariant, PolicyInvariant, RegionInvariant,
     TicketInvariant, IngestInvariant, MigrationInvariant, PTL
<1>3. Parted /\ Shared /\ [Next]_vars => Shared'
  BY SharedSteps
<1>4. Parted /\ Shared => TypeOK
  BY DEF Shared, TypeOK
<1> HIDE DEF Parted
<1> QED
  BY <1>2, <1>3, <1>4, SharedInitial, PTL DEF Spec
=============================================================================
