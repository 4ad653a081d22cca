---------------------------- MODULE AccountsProofs ----------------------------
(***************************************************************************)
(* Proofs about Accounts, for any sets of users, keys and requests and any *)
(* number of passphrase changes.                                           *)
(***************************************************************************)
EXTENDS Accounts, TLAPS

(***************************************************************************)
(* The inductive invariants.  OwnerInv: what a request has read about the  *)
(* users stays true until it writes, because an owner is only made with    *)
(* the user and ids are given out once.  KeyInv: of the kinds a change of  *)
(* the passphrase has read, it has every key in hand but for those written *)
(* since; a change that has ended the keys had read them.                  *)
(***************************************************************************)
OwnerInv ==
  /\ \A u \in Users : IsOwner(u) => "admin" \in caps[u]
  /\ \A r \in Requests :
       /\ At(r, "insert") /\ ~req[r].first => users # {}
       /\ req[r].at \in {"delete", "demote"} =>
            req[r].target \in known /\ ~IsOwner(req[r].target)

\* The kinds of keys that r has read and not yet ended.
Read(r) == IF At(r, "sweep") THEN {"session"} ELSE IF At(r, "revoke") THEN Kinds ELSE {}

InHand(r, k) == k.id \in req[r].seen \/ req[r].change \in k.after

KeyInv ==
  /\ \A u \in Users : \A kind \in Kinds : ended[u] \subseteq swept[u][kind]
  /\ \A r \in Requests : req[r].at \in {"collect", "sweep", "revoke"} => req[r].by \in Users
  /\ \A r \in Requests : \A kind \in Read(r) :
       /\ req[r].change \in swept[req[r].by][kind]
       /\ \A k \in live : k.user = req[r].by /\ k.kind = kind => InHand(r, k)
  /\ RotationRevokes

(***************************************************************************)
(* Types                                                                   *)
(***************************************************************************)
\* What each kind of step writes has the type it should have.
LEMMA NewKeyType ==
  ASSUME TypeOK, NEW id \in Keys, NEW kind \in Kinds, NEW u \in Users
  PROVE  NewKey(id, kind, u) \in Key
BY DEF NewKey, Key, TypeOK

LEMMA IdleType == Idle \in Request
BY AccountsAssumption DEF Idle, Request, Steps, Changes

LEMMA RequestType ==
  ASSUME TypeOK, NEW r \in Requests
  PROVE  req[r] \in Request /\ req[r].by \in Users \cup {NoUser}
BY DEF TypeOK, Request

LEMMA IdsType ==
  ASSUME TypeOK, NEW u
  PROVE  Ids(KeysOf(u)) \in SUBSET Keys
BY DEF TypeOK, Ids, KeysOf, Key

LEMMA ChangeType ==
  ASSUME TypeOK, NEW r \in Requests
  PROVE  req[r].change \in Changes
BY DEF TypeOK, Request

\* A change of the passphrase reads keys, of whichever kinds.
LEMMA SweptType ==
  ASSUME TypeOK, NEW u, NEW kinds \in SUBSET Kinds, NEW c \in Changes, Sweeps(u, kinds, c)
  PROVE  swept' \in [Users -> [Kinds -> SUBSET Changes]]
<1>1. CASE u \in Users
  <2> DEFINE row == [kind \in Kinds |->
                      IF kind \in kinds THEN swept[u][kind] \cup {c} ELSE swept[u][kind]]
  <2>1. row \in [Kinds -> SUBSET Changes]
    BY <1>1 DEF TypeOK
  <2>2. swept' = [swept EXCEPT ![u] = row]
    BY DEF Sweeps
  <2> HIDE DEF row
  <2>. QED BY <2>1, <2>2 DEF TypeOK
<1>2. CASE u \notin Users
  BY <1>2 DEF Sweeps, TypeOK
<1>. QED BY <1>1, <1>2

\* A request changes to a state of the right type, or to Idle.
LEMMA GoesType ==
  ASSUME TypeOK, NEW r \in Requests, NEW state \in Request, Goes(r, state)
  PROVE  req' \in [Requests -> Request]
BY DEF Goes, TypeOK

LEMMA EndsType ==
  ASSUME TypeOK, NEW r \in Requests, Ends(r)
  PROVE  req' \in [Requests -> Request]
BY IdleType, GoesType DEF Ends

\* Types of the tables and of the requests in progress: the keys and rows the
\* handlers write belong to users that were registered.
THEOREM TypeCorrect == Spec => []TypeOK
<1>1. Init => TypeOK
  BY IdleType, AccountsAssumption DEF Init, TypeOK, Capabilities, Changes
<1>2. TypeOK /\ [Next]_vars => TypeOK'
  <2> SUFFICES ASSUME TypeOK, [Next]_vars PROVE TypeOK'
    OBVIOUS
  <2> USE AccountsAssumption
  <2>1. ASSUME NEW r \in Requests, RegisterStep(r) PROVE TypeOK'
    <3>1. CASE BeginRegister(r) \/ BeginBootstrap(r)
      <4>1. [Idle EXCEPT !.at = "count"] \in Request
        BY IdleType DEF Request, Steps, Idle
      <4>. QED BY <4>1, <3>1, GoesType DEF BeginRegister, BeginBootstrap, TypeOK, userState, passState, keyState
    <3>2. CASE CountUsers(r)
      <4>1. [Idle EXCEPT !.at = "insert", !.first = (users = {})] \in Request
        BY IdleType DEF Request, Steps, Idle
      <4>. QED BY <4>1, <3>2, GoesType DEF CountUsers, TypeOK, userState, passState, keyState
    <3>3. CASE InsertUser(r)
      BY <3>3, EndsType DEF InsertUser, TypeOK, passState, keyState, Capabilities
    <3>. QED BY <2>1, <3>1, <3>2, <3>3 DEF RegisterStep
  <2>2. ASSUME NEW r \in Requests, SessionStep(r) PROVE TypeOK'
    <3>1. CASE Login(r)
      <4>1. PICK u \in users, cookie \in {{}} \cup {{k.id} : k \in {s \in live : s.kind = "session"}} :
              Goes(r, [Idle EXCEPT !.at = IF cookie = {} THEN "issue" ELSE "supersede",
                                   !.by = u, !.seen = cookie])
        BY <3>1 DEF Login
      <4>2. cookie \in SUBSET Keys /\ u \in Users
        BY DEF TypeOK, Key
      <4>3. [Idle EXCEPT !.at = IF cookie = {} THEN "issue" ELSE "supersede",
                         !.by = u, !.seen = cookie] \in Request
        BY <4>2, IdleType DEF Request, Steps
      <4>. QED BY <4>1, <4>3, <3>1, GoesType DEF Login, TypeOK, userState, passState, keyState
    <3>2. CASE Supersede(r)
      <4>1. [req[r] EXCEPT !.at = "issue", !.seen = {}] \in Request
        BY DEF TypeOK, Request, Steps
      <4>. QED BY <4>1, <3>2, GoesType DEF Supersede, Without, TypeOK, userState, passState
    <3>3. CASE IssueSession(r)
      <4>1. req[r].by \in Users
        BY <3>3 DEF IssueSession, TypeOK, Request
      <4>2. PICK id \in Keys \ issued :
              /\ issued' = issued \cup {id}
              /\ live' = live \cup {NewKey(id, "session", req[r].by)}
        BY <3>3 DEF IssueSession
      <4>3. NewKey(id, "session", req[r].by) \in Key
        BY <4>1, NewKeyType DEF Kinds
      <4>4. NewKey(id, "session", req[r].by).id = id
        BY DEF NewKey
      <4>5. /\ issued' \subseteq Keys
            /\ live' \subseteq Key /\ \A k \in live' : k.id \in issued'
        BY <4>2, <4>3, <4>4 DEF TypeOK
      <4>. QED BY <4>5, <3>3, EndsType DEF IssueSession, TypeOK, userState, passState
    <3>4. CASE Admit(r)
      <4>1. PICK k \in live :
              /\ k.user \in users
              /\ Goes(r, [Idle EXCEPT !.at = "admitted", !.by = k.user,
                                      !.admin = "admin" \in caps[k.user]])
        BY <3>4 DEF Admit
      <4>2. [Idle EXCEPT !.at = "admitted", !.by = k.user,
                         !.admin = "admin" \in caps[k.user]] \in Request
        <5>1. k.user \in Users
          BY DEF TypeOK, Key
        <5>2. ("admin" \in caps[k.user]) \in BOOLEAN
          OBVIOUS
        <5>3. ASSUME NEW b \in BOOLEAN
              PROVE  [Idle EXCEPT !.at = "admitted", !.by = k.user,
                                  !.admin = b] \in Request
          BY <5>1, IdleType DEF Request, Steps
        <5>. QED BY <5>2, <5>3, Zenon
      <4>. QED BY <4>1, <4>2, <3>4, GoesType DEF Admit, TypeOK, userState, passState, keyState
    <3>5. CASE EndOwnKey(r)
      BY <3>5, EndsType DEF EndOwnKey, TypeOK, userState, passState
    <3>. QED BY <2>2, <3>1, <3>2, <3>3, <3>4, <3>5 DEF SessionStep
  <2>3. ASSUME NEW r \in Requests, TokenStep(r) PROVE TypeOK'
    <3>1. CASE ReadToken(r)
      <4>1. PICK k \in KeysOf(req[r].by) :
              Goes(r, [req[r] EXCEPT !.at = "swap", !.seen = {k.id}])
        BY <3>1 DEF ReadToken
      <4>2. [req[r] EXCEPT !.at = "swap", !.seen = {k.id}] \in Request
        <5>1. {k.id} \in SUBSET Keys
          BY DEF TypeOK, Key, KeysOf
        <5>. QED BY <5>1, RequestType DEF Request, Steps
      <4>. QED BY <4>1, <4>2, <3>1, GoesType DEF ReadToken, TypeOK, userState, passState, keyState
    <3>2. CASE IssueToken(r) \/ SwapToken(r)
      <4>1. req[r].by \in Users
        BY <3>2 DEF IssueToken, SwapToken, TypeOK, Request
      <4>2. PICK id \in Keys \ issued :
              /\ issued' = issued \cup {id}
              /\ live' \subseteq live \cup {NewKey(id, "token", req[r].by)}
        BY <3>2 DEF IssueToken, SwapToken, Without
      <4>3. NewKey(id, "token", req[r].by) \in Key
        BY <4>1, NewKeyType DEF Kinds
      <4>4. NewKey(id, "token", req[r].by).id = id
        BY DEF NewKey
      <4>5. /\ issued' \subseteq Keys
            /\ live' \subseteq Key /\ \A k \in live' : k.id \in issued'
        BY <4>2, <4>3, <4>4 DEF TypeOK
      <4>. QED BY <4>5, <3>2, EndsType DEF IssueToken, SwapToken, TypeOK, userState, passState
    <3>. QED BY <2>3, <3>1, <3>2 DEF TokenStep
  <2>4. ASSUME NEW r \in Requests, PassStep(r) PROVE TypeOK'
    <3>1. CASE BeginRotation(r)
      <4>1. [Idle EXCEPT !.at = "rehash", !.by = req[r].by] \in Request
        BY RequestType, IdleType DEF Request, Idle, Steps
      <4>. QED BY <4>1, <3>1, GoesType DEF BeginRotation, TypeOK, userState, passState, keyState
    <3>2. CASE CommitRotation(r)
      <4>1. changes + 1 \in Changes
        BY <3>2 DEF CommitRotation, TypeOK, Changes
      <4>2. [req[r] EXCEPT !.at = "collect", !.change = changes + 1] \in Request
        BY <4>1 DEF TypeOK, Request, Steps, Changes
      <4>. QED BY <4>1, <4>2, <3>2, GoesType DEF CommitRotation, TypeOK, userState, keyState, Changes
    <3>3. CASE CollectKeys(r)
      <4>1. \A keys \in SUBSET live, step \in {"sweep", "revoke"} :
              [req[r] EXCEPT !.at = step, !.seen = Ids(keys)] \in Request
        <5>1. \A keys \in SUBSET live : Ids(keys) \in SUBSET Keys
          BY DEF TypeOK, Ids, Key
        <5>. QED BY <5>1, RequestType DEF Request, Steps
      <4>2. PICK keys \in SUBSET live, step \in {"sweep", "revoke"}, kinds \in SUBSET Kinds :
              /\ Goes(r, [req[r] EXCEPT !.at = step, !.seen = Ids(keys)])
              /\ Sweeps(req[r].by, kinds, req[r].change)
        BY <3>3 DEF CollectKeys, KeysOf, OfKind, Kinds
      <4>3. req' \in [Requests -> Request]
        BY <4>1, <4>2, GoesType
      <4>4. swept' \in [Users -> [Kinds -> SUBSET Changes]]
        BY <4>2, ChangeType, SweptType
      <4>. QED BY <4>3, <4>4, <3>3 DEF CollectKeys, TypeOK, userState, keyState
    <3>4. CASE SweepKeys(r) \/ RevokeKeys(r)
      <4>1. [req[r] EXCEPT !.at = "issue", !.seen = {}] \in Request
        BY DEF TypeOK, Request, Steps
      <4>2. req' \in [Requests -> Request]
        BY <4>1, <3>4, GoesType DEF SweepKeys, RevokeKeys, Ending
      <4>3. swept' \in [Users -> [Kinds -> SUBSET Changes]]
        <5>1. {"token"} \in SUBSET Kinds
          BY DEF Kinds
        <5>. QED BY <5>1, <3>4, ChangeType, SweptType DEF SweepKeys, RevokeKeys, TypeOK
      <4>4. ended' \in [Users -> SUBSET Changes]
        BY <3>4, ChangeType DEF SweepKeys, RevokeKeys, Ending, TypeOK
      <4>. QED BY <4>2, <4>3, <4>4, <3>4 DEF SweepKeys, RevokeKeys, Ending, Without, TypeOK, userState
    <3>5. CASE ResetPassphrase(r)
      <4>1. changes + 1 \in Changes
        BY <3>5 DEF ResetPassphrase, TypeOK, Changes
      <4>2. PICK u \in users : /\ live' = live \ KeysOf(u)
                               /\ Sweeps(u, Kinds, changes + 1)
                               /\ ended' = [ended EXCEPT ![u] = @ \cup {changes + 1}]
        BY <3>5 DEF ResetPassphrase
      <4>3. swept' \in [Users -> [Kinds -> SUBSET Changes]]
        BY <4>1, <4>2, SweptType
      <4>4. ended' \in [Users -> SUBSET Changes]
        BY <4>1, <4>2 DEF TypeOK
      <4>. QED BY <4>1, <4>2, <4>3, <4>4, <3>5 DEF ResetPassphrase, TypeOK, userState
    <3>. QED BY <2>4, <3>1, <3>2, <3>3, <3>4, <3>5 DEF PassStep
  <2>5. ASSUME NEW r \in Requests, AdminStep(r) PROVE TypeOK'
    <3>1. CASE BeginCreate(r)
      <4>1. [Idle EXCEPT !.at = "count"] \in Request
        BY IdleType DEF Request, Steps, Idle
      <4>. QED BY <4>1, <3>1, GoesType DEF BeginCreate, TypeOK, userState, passState, keyState
    <3>2. CASE Grant(r)
      BY <3>2, EndsType DEF Grant, TypeOK, passState, keyState, Capabilities
    <3>3. CASE CheckDelete(r) \/ CheckDemote(r)
      <4>1. PICK u \in known :
              \E step \in {"delete", "demote"} : Goes(r, [Idle EXCEPT !.at = step, !.target = u])
        BY <3>3 DEF CheckDelete, CheckDemote
      <4>2. \A step \in {"delete", "demote"} : [Idle EXCEPT !.at = step, !.target = u] \in Request
        <5>1. u \in Users
          BY DEF TypeOK
        <5>. QED BY <5>1, IdleType DEF Request, Idle, Steps
      <4>3. req' \in [Requests -> Request]
        BY <4>1, <4>2, GoesType
      <4>. QED BY <4>3, <3>3 DEF CheckDelete, CheckDemote, TypeOK, userState, passState, keyState
    <3>4. CASE DeleteUser(r)
      BY <3>4, EndsType DEF DeleteUser, passState, TypeOK
    <3>5. CASE Demote(r)
      BY <3>5, EndsType DEF Demote, TypeOK, passState, keyState
    <3>. QED BY <2>5, <3>1, <3>2, <3>3, <3>4, <3>5 DEF AdminStep
  <2>6. ASSUME NEW r \in Requests, Abort(r) PROVE TypeOK'
    BY <2>6, EndsType DEF Abort, TypeOK, userState, passState, keyState
  <2>7. ASSUME NEW k \in live, EndSession(k) PROVE TypeOK'
    BY <2>7 DEF EndSession, TypeOK, userState, passState
  <2>8. CASE UNCHANGED vars
    BY <2>8 DEF TypeOK, vars, userState, passState, keyState
  <2>. QED BY <2>1, <2>2, <2>3, <2>4, <2>5, <2>6, <2>7, <2>8 DEF Next
<1>. QED BY <1>1, <1>2, PTL DEF Spec

(***************************************************************************)
(* Foreign keys                                                            *)
(***************************************************************************)
\* A new key is its writer's.
LEMMA NewKeyFields ==
  ASSUME NEW id, NEW kind, NEW u
  PROVE  /\ NewKey(id, kind, u).id = id
         /\ NewKey(id, kind, u).user = u
         /\ NewKey(id, kind, u).kind = kind
         /\ NewKey(id, kind, u).after = swept[u][kind]
BY DEF NewKey

\* What a step writes of live beyond what it keeps.
LEMMA IssueAdds ==
  ASSUME NEW r \in Requests, IssueSession(r) \/ IssueToken(r) \/ SwapToken(r)
  PROVE  /\ req[r].by \in users
         /\ \E id \in Keys \ issued, kind \in Kinds :
              live' \subseteq live \cup {NewKey(id, kind, req[r].by)}
BY DEF IssueSession, IssueToken, SwapToken, Without, Kinds

LEMMA NoOrphansStep ==
  ASSUME TypeOK, NoOrphans, [Next]_vars
  PROVE  NoOrphans'
<1> DEFINE Same == UNCHANGED <<users, caps>> /\ live' \subseteq live
<1>0. ASSUME Same PROVE NoOrphans'
  BY <1>0 DEF NoOrphans
<1>1. ASSUME NEW r \in Requests, RegisterStep(r) PROVE NoOrphans'
  <2>1. CASE InsertUser(r)
    BY <2>1 DEF InsertUser, NoOrphans, TypeOK, keyState
  <2>2. CASE ~InsertUser(r)
    BY <2>2, <1>1, <1>0 DEF RegisterStep, BeginRegister, BeginBootstrap, CountUsers, userState, keyState
  <2>. QED BY <2>1, <2>2
<1>2. ASSUME NEW r \in Requests, IssueSession(r) \/ IssueToken(r) \/ SwapToken(r) PROVE NoOrphans'
  <2>1. UNCHANGED <<users, caps>>
    BY <1>2 DEF IssueSession, IssueToken, SwapToken, userState
  <2>. QED BY <2>1, <1>2, IssueAdds, NewKeyFields DEF NoOrphans
<1>3. ASSUME NEW r \in Requests, SessionStep(r), ~IssueSession(r) PROVE NoOrphans'
  BY <1>3, <1>0 DEF SessionStep, Login, Supersede, Admit, EndOwnKey, Without, userState, keyState
<1>4. ASSUME NEW r \in Requests, TokenStep(r), ~IssueToken(r), ~SwapToken(r) PROVE NoOrphans'
  BY <1>4, <1>0 DEF TokenStep, ReadToken, userState, keyState
<1>5. ASSUME NEW r \in Requests, PassStep(r) PROVE NoOrphans'
  BY <1>5, <1>0 DEF PassStep, BeginRotation, CommitRotation, CollectKeys, SweepKeys,
                    RevokeKeys, ResetPassphrase, Ending, Without, userState, keyState
<1>6. ASSUME NEW r \in Requests, AdminStep(r) PROVE NoOrphans'
  <2>1. CASE BeginCreate(r) \/ CheckDelete(r) \/ CheckDemote(r)
    BY <2>1, <1>0 DEF BeginCreate, CheckDelete, CheckDemote, userState, keyState
  <2>2. CASE Grant(r)
    BY <2>2 DEF Grant, NoOrphans, TypeOK, keyState
  <2>3. CASE DeleteUser(r)
    BY <2>3 DEF DeleteUser, NoOrphans, TypeOK, KeysOf
  <2>4. CASE Demote(r)
    BY <2>4 DEF Demote, NoOrphans, TypeOK, keyState
  <2>. QED BY <1>6, <2>1, <2>2, <2>3, <2>4 DEF AdminStep
<1>7. ASSUME NEW r \in Requests, Abort(r) PROVE NoOrphans'
  BY <1>7, <1>0 DEF Abort, userState, keyState
<1>8. ASSUME NEW k \in live, EndSession(k) PROVE NoOrphans'
  BY <1>8, <1>0 DEF EndSession, userState
<1>9. CASE UNCHANGED vars
  BY <1>9, <1>0 DEF vars, userState, keyState
<1>. QED BY <1>1, <1>2, <1>3, <1>4, <1>5, <1>6, <1>7, <1>8, <1>9 DEF Next, SessionStep, TokenStep

\* No key and no right outlives its user: the foreign keys refuse what a
\* handler writes for a user that was deleted after it looked.
THEOREM NothingOutlivesItsUser == Spec => []NoOrphans
<1>1. Init => NoOrphans
  BY DEF Init, NoOrphans
<1>2. TypeOK /\ NoOrphans /\ [Next]_vars => NoOrphans'
  BY NoOrphansStep
<1>. QED BY <1>1, <1>2, TypeCorrect, PTL DEF Spec

(***************************************************************************)
(* The owner                                                               *)
(***************************************************************************)
\* Nobody becomes an owner but with the registration, and no step takes a
\* right from an owner that is there.
LEMMA OwnerKeptStep ==
  ASSUME TypeOK, NoOrphans, OwnerInv, [Next]_vars, NEW u \in users, IsOwner(u)
  PROVE  u \in users' /\ caps[u] \subseteq caps'[u]
<1>1. ASSUME NEW r \in Requests, RegisterStep(r) PROVE u \in users' /\ caps[u] \subseteq caps'[u]
  BY <1>1 DEF RegisterStep, BeginRegister, BeginBootstrap, CountUsers, InsertUser, TypeOK, userState
<1>2. ASSUME NEW r \in Requests, SessionStep(r) \/ TokenStep(r) \/ PassStep(r) \/ Abort(r)
      PROVE  UNCHANGED <<users, caps>>
  BY <1>2 DEF SessionStep, Login, Supersede, IssueSession, Admit, EndOwnKey, TokenStep, IssueToken,
    ReadToken, SwapToken, PassStep, BeginRotation, CommitRotation, CollectKeys, SweepKeys,
    RevokeKeys, ResetPassphrase, Ending, Abort, userState
<1>3. ASSUME NEW r \in Requests, AdminStep(r) PROVE u \in users' /\ caps[u] \subseteq caps'[u]
  <2>1. CASE BeginCreate(r) \/ CheckDelete(r) \/ CheckDemote(r)
    BY <2>1 DEF BeginCreate, CheckDelete, CheckDemote, userState
  <2>2. CASE Grant(r)
    BY <2>2 DEF Grant, TypeOK
  <2>3. CASE DeleteUser(r) \/ Demote(r)
    <3>1. req[r].target # u
      BY <2>3 DEF OwnerInv, DeleteUser, Demote, At
    <3>. QED BY <3>1, <2>3 DEF DeleteUser, Demote, TypeOK
  <2>. QED BY <1>3, <2>1, <2>2, <2>3 DEF AdminStep
<1>4. ASSUME NEW k \in live, EndSession(k) PROVE UNCHANGED <<users, caps>>
  BY <1>4 DEF EndSession, userState
<1>5. CASE UNCHANGED vars
  BY <1>5 DEF vars, userState
<1>. QED BY <1>1, <1>2, <1>3, <1>4, <1>5 DEF Next

\* What a step does to the table of users and to the capabilities.
LEMMA UsersStep ==
  ASSUME TypeOK, [Next]_vars
  PROVE  /\ known \subseteq known'
         /\ \/ UNCHANGED <<users, caps>>
            \/ \E r \in Requests : InsertUser(r) \/ Grant(r) \/ DeleteUser(r) \/ Demote(r)
<1>1. ASSUME NEW r \in Requests, RegisterStep(r), ~InsertUser(r) PROVE UNCHANGED userState
  BY <1>1 DEF RegisterStep, BeginRegister, BeginBootstrap, CountUsers
<1>2. ASSUME NEW r \in Requests, SessionStep(r) \/ TokenStep(r) \/ PassStep(r) \/ Abort(r)
      PROVE  UNCHANGED userState
  BY <1>2 DEF SessionStep, Login, Supersede, IssueSession, Admit, EndOwnKey, TokenStep, IssueToken,
    ReadToken, SwapToken, PassStep, BeginRotation, CommitRotation, CollectKeys, SweepKeys,
    RevokeKeys, ResetPassphrase, Ending, Abort
<1>3. ASSUME NEW r \in Requests, AdminStep(r), ~Grant(r), ~DeleteUser(r), ~Demote(r)
      PROVE  UNCHANGED userState
  BY <1>3 DEF AdminStep, BeginCreate, CheckDelete, CheckDemote
<1>4. ASSUME NEW k \in live, EndSession(k) PROVE UNCHANGED userState
  BY <1>4 DEF EndSession
<1>5. CASE UNCHANGED vars
  BY <1>5 DEF vars, userState
<1>6. ASSUME NEW r \in Requests, InsertUser(r) \/ Grant(r) \/ DeleteUser(r) \/ Demote(r)
      PROVE  known \subseteq known'
  BY <1>6 DEF InsertUser, Grant, DeleteUser, Demote
<1>. QED BY <1>1, <1>2, <1>3, <1>4, <1>5, <1>6 DEF Next, userState

\* Owners are made with a fresh id and all rights.
LEMMA OwnersAreBorn ==
  ASSUME TypeOK, [Next]_vars, NEW u \in Users, ~IsOwner(u), IsOwner(u)'
  PROVE  u \notin known /\ caps'[u] = Capabilities
<1>1. CASE UNCHANGED <<users, caps>>
  BY <1>1 DEF IsOwner
<1>2. ASSUME NEW r \in Requests, Grant(r) \/ DeleteUser(r) \/ Demote(r) PROVE FALSE
  BY <1>2 DEF Grant, DeleteUser, Demote, IsOwner, TypeOK
<1>3. ASSUME NEW r \in Requests, InsertUser(r) PROVE u \notin known /\ caps'[u] = Capabilities
  BY <1>3 DEF InsertUser, IsOwner, TypeOK
<1>. QED BY <1>1, <1>2, <1>3, UsersStep

LEMMA GoesTo ==
  ASSUME TypeOK, NEW r \in Requests, NEW state, Goes(r, state), NEW q \in Requests
  PROVE  req'[q] = IF q = r THEN state ELSE req[q]
BY DEF TypeOK, Goes

LEMMA EndsAt ==
  ASSUME TypeOK, NEW r \in Requests, Ends(r), NEW q \in Requests
  PROVE  req'[q] = IF q = r THEN Idle ELSE req[q]
BY GoesTo DEF Ends

\* A request comes to a write of the users only by the read before it.
LEMMA RequestsRead ==
  ASSUME TypeOK, [Next]_vars, NEW q \in Requests, req'[q].at \in {"insert", "delete", "demote"}
  PROVE  UNCHANGED req[q] \/ CountUsers(q) \/ CheckDelete(q) \/ CheckDemote(q)
<1> DEFINE Done == UNCHANGED req[q] \/ CountUsers(q) \/ CheckDelete(q) \/ CheckDemote(q)
<1>0. ASSUME NEW r \in Requests, Ends(r) PROVE Done
  BY <1>0, EndsAt DEF Idle
<1>1. ASSUME NEW r \in Requests, RegisterStep(r) PROVE Done
  <2>1. CASE BeginRegister(r) \/ BeginBootstrap(r)
    <3>1. [Idle EXCEPT !.at = "count"].at = "count"
      BY DEF Idle
    <3>. QED BY <2>1, <3>1, GoesTo DEF BeginRegister, BeginBootstrap
  <2>2. CASE CountUsers(r)
    BY <2>2, GoesTo DEF CountUsers
  <2>3. CASE InsertUser(r)
    BY <2>3, <1>0 DEF InsertUser
  <2>. QED BY <1>1, <2>1, <2>2, <2>3 DEF RegisterStep
<1>2. ASSUME NEW r \in Requests, SessionStep(r) PROVE Done
  <2>1. CASE Login(r)
    <3>1. PICK u \in users, cookie \in {{}} \cup {{k.id} : k \in {s \in live : s.kind = "session"}} :
            Goes(r, [Idle EXCEPT !.at = IF cookie = {} THEN "issue" ELSE "supersede",
                                 !.by = u, !.seen = cookie])
      BY <2>1 DEF Login
    <3>2. [Idle EXCEPT !.at = IF cookie = {} THEN "issue" ELSE "supersede",
                       !.by = u, !.seen = cookie].at \in {"issue", "supersede"}
      BY DEF Idle
    <3>. QED BY <3>1, <3>2, GoesTo
  <2>2. CASE Supersede(r)
    <3>1. [req[r] EXCEPT !.at = "issue", !.seen = {}].at = "issue"
      BY RequestType DEF Request
    <3>. QED BY <2>2, <3>1, GoesTo DEF Supersede
  <2>3. CASE Admit(r)
    <3>1. PICK k \in live :
            Goes(r, [Idle EXCEPT !.at = "admitted", !.by = k.user,
                                 !.admin = "admin" \in caps[k.user]])
      BY <2>3 DEF Admit
    <3>2. [Idle EXCEPT !.at = "admitted", !.by = k.user,
                       !.admin = "admin" \in caps[k.user]].at = "admitted"
      BY DEF Idle
    <3>. QED BY <3>1, <3>2, GoesTo
  <2>. QED BY <1>2, <1>0, <2>1, <2>2, <2>3 DEF SessionStep, IssueSession, EndOwnKey
<1>3. ASSUME NEW r \in Requests, TokenStep(r) PROVE Done
  <2>1. CASE ReadToken(r)
    <3>1. PICK k \in live : Goes(r, [req[r] EXCEPT !.at = "swap", !.seen = {k.id}])
      BY <2>1 DEF ReadToken, KeysOf
    <3>2. [req[r] EXCEPT !.at = "swap", !.seen = {k.id}].at = "swap"
      BY RequestType DEF Request
    <3>. QED BY <3>1, <3>2, GoesTo
  <2>. QED BY <1>3, <1>0, <2>1 DEF TokenStep, IssueToken, SwapToken
<1>4. ASSUME NEW r \in Requests, PassStep(r) PROVE Done
  <2>1. CASE BeginRotation(r)
    <3>1. [Idle EXCEPT !.at = "rehash", !.by = req[r].by].at = "rehash"
      BY DEF Idle
    <3>. QED BY <2>1, <3>1, GoesTo DEF BeginRotation
  <2>2. CASE CommitRotation(r)
    <3>1. [req[r] EXCEPT !.at = "collect", !.change = changes + 1].at = "collect"
      BY RequestType DEF Request
    <3>. QED BY <2>2, <3>1, GoesTo DEF CommitRotation
  <2>3. CASE CollectKeys(r)
    <3>1. PICK step \in {"sweep", "revoke"} :
            \E ids : Goes(r, [req[r] EXCEPT !.at = step, !.seen = ids])
      BY <2>3 DEF CollectKeys
    <3>2. PICK ids : Goes(r, [req[r] EXCEPT !.at = step, !.seen = ids])
      BY <3>1
    <3>3. [req[r] EXCEPT !.at = step, !.seen = ids].at = step
      BY RequestType DEF Request
    <3>. QED BY <3>2, <3>3, GoesTo
  <2>4. CASE SweepKeys(r) \/ RevokeKeys(r)
    <3>1. [req[r] EXCEPT !.at = "issue", !.seen = {}].at = "issue"
      BY RequestType DEF Request
    <3>. QED BY <2>4, <3>1, GoesTo DEF SweepKeys, RevokeKeys, Ending
  <2>5. CASE ResetPassphrase(r)
    BY <2>5 DEF ResetPassphrase
  <2>. QED BY <1>4, <2>1, <2>2, <2>3, <2>4, <2>5 DEF PassStep
<1>5. ASSUME NEW r \in Requests, AdminStep(r) PROVE Done
  <2>1. CASE BeginCreate(r)
    <3>1. [Idle EXCEPT !.at = "count"].at = "count"
      BY DEF Idle
    <3>. QED BY <2>1, <3>1, GoesTo DEF BeginCreate
  <2>2. CASE CheckDelete(r) \/ CheckDemote(r)
    <3>1. \E state : Goes(r, state)
      BY <2>2 DEF CheckDelete, CheckDemote
    <3>. QED BY <2>2, <3>1, GoesTo
  <2>. QED BY <1>5, <1>0, <2>1, <2>2 DEF AdminStep, Grant, DeleteUser, Demote
<1>6. ASSUME NEW r \in Requests, Abort(r) PROVE Done
  BY <1>6, <1>0 DEF Abort
<1>7. ASSUME NEW k \in live, EndSession(k) PROVE Done
  BY <1>7 DEF EndSession
<1>8. CASE UNCHANGED vars
  BY <1>8 DEF vars
<1>. QED BY <1>1, <1>2, <1>3, <1>4, <1>5, <1>6, <1>7, <1>8 DEF Next

LEMMA OwnerPresentStep ==
  ASSUME TypeOK, NoOrphans, OwnerInv, OwnerPresent, [Next]_vars
  PROVE  OwnerPresent'
<1>1. CASE users # {}
  <2>1. PICK u \in users : Capabilities \subseteq caps[u]
    BY <1>1 DEF OwnerPresent
  <2>2. IsOwner(u)
    BY <2>1 DEF IsOwner, Capabilities
  <2>3. u \in users' /\ caps[u] \subseteq caps'[u]
    BY <2>2, OwnerKeptStep
  <2>. QED BY <2>1, <2>3 DEF OwnerPresent
<1>2. CASE users = {}
  <2>1. ASSUME NEW r \in Requests, InsertUser(r) PROVE OwnerPresent'
    <3>1. req[r].first
      BY <2>1, <1>2 DEF InsertUser, OwnerInv
    <3>. QED BY <2>1, <3>1 DEF InsertUser, OwnerPresent, TypeOK
  <2>2. ASSUME NEW r \in Requests, Grant(r) \/ DeleteUser(r) \/ Demote(r) PROVE users' = {}
    BY <2>2, <1>2 DEF Grant, DeleteUser, Demote
  <2>. QED BY <2>1, <2>2, <1>2, UsersStep DEF OwnerPresent
<1>. QED BY <1>1, <1>2

LEMMA OwnerInvStep ==
  ASSUME TypeOK, NoOrphans, OwnerInv, OwnerPresent, [Next]_vars
  PROVE  OwnerInv'
<1>1. ASSUME NEW u \in Users, IsOwner(u)' PROVE "admin" \in caps'[u]
  <2>1. CASE IsOwner(u)
    <3>1. u \in users /\ "admin" \in caps[u]
      BY <2>1 DEF NoOrphans, OwnerInv, IsOwner
    <3>. QED BY <3>1, <2>1, OwnerKeptStep
  <2>2. CASE ~IsOwner(u)
    BY <2>2, <1>1, OwnersAreBorn DEF Capabilities
  <2>. QED BY <2>1, <2>2
<1>2. ASSUME NEW r \in Requests, At(r, "insert")', ~req'[r].first PROVE users' # {}
  <2>1. UNCHANGED req[r] \/ CountUsers(r)
    <3>1. req'[r].at = "insert"
      BY <1>2 DEF At
    <3>2. ASSUME CheckDelete(r) \/ CheckDemote(r) PROVE FALSE
      <4>1. PICK u \in known, step \in {"delete", "demote"} :
              Goes(r, [Idle EXCEPT !.at = step, !.target = u])
        BY <3>2 DEF CheckDelete, CheckDemote
      <4>2. [Idle EXCEPT !.at = step, !.target = u].at = step
        BY DEF Idle
      <4>. QED BY <3>1, <4>1, <4>2, GoesTo
    <3>. QED BY <3>1, <3>2, RequestsRead
  <2>2. users # {}
    <3>1. CASE UNCHANGED req[r]
      BY <3>1, <1>2 DEF OwnerInv, At
    <3>2. CASE CountUsers(r)
      <4>1. \A b : [Idle EXCEPT !.at = "insert", !.first = b].first = b
        BY DEF Idle
      <4>2. req'[r] = [Idle EXCEPT !.at = "insert", !.first = (users = {})]
        BY <3>2, GoesTo DEF CountUsers
      <4>. QED BY <4>1, <4>2, <1>2
    <3>. QED BY <2>1, <3>1, <3>2
  <2>3. PICK u \in users : IsOwner(u)
    BY <2>2 DEF OwnerPresent, IsOwner, Capabilities
  <2>. QED BY <2>3, OwnerKeptStep
<1>3. ASSUME NEW r \in Requests, req'[r].at \in {"delete", "demote"}
      PROVE  req'[r].target \in known' /\ "owner" \notin caps'[req'[r].target]
  <2>1. req'[r].target \in known /\ ~IsOwner(req'[r].target)
    <3>1. CASE UNCHANGED req[r]
      BY <3>1, <1>3 DEF OwnerInv
    <3>2. CASE CheckDelete(r) \/ CheckDemote(r)
      <4>1. PICK u \in known, step \in {"delete", "demote"} :
              ~IsOwner(u) /\ Goes(r, [Idle EXCEPT !.at = step, !.target = u])
        BY <3>2 DEF CheckDelete, CheckDemote
      <4>2. [Idle EXCEPT !.at = step, !.target = u].target = u
        BY DEF Idle
      <4>3. req'[r].target = u
        BY <4>1, <4>2, GoesTo
      <4>. QED BY <4>1, <4>3
    <3>3. CASE CountUsers(r)
      <4>1. [Idle EXCEPT !.at = "insert", !.first = (users = {})].at = "insert"
        BY DEF Idle
      <4>. QED BY <4>1, <3>3, <1>3, GoesTo DEF CountUsers
    <3>. QED BY <1>3, <3>1, <3>2, <3>3, RequestsRead
  <2>2. req'[r].target \in Users
    BY <2>1 DEF TypeOK
  <2>3. ASSUME NEW u \in Users, u \in known, ~IsOwner(u) PROVE u \in known' /\ "owner" \notin caps'[u]
    BY <2>3, UsersStep, OwnersAreBorn DEF IsOwner
  <2>. QED BY <2>1, <2>2, <2>3
<1>. QED BY <1>1, <1>2, <1>3 DEF OwnerInv, IsOwner

LEMMA OwnersAreSafe == Spec => [](OwnerInv /\ OwnerPresent)
<1>1. Init => OwnerInv /\ OwnerPresent
  BY DEF Init, OwnerInv, OwnerPresent, IsOwner, At, Idle
<1>2. TypeOK /\ NoOrphans /\ OwnerInv /\ OwnerPresent /\ [Next]_vars => (OwnerInv /\ OwnerPresent)'
  BY OwnerInvStep, OwnerPresentStep
<1>. QED BY <1>1, <1>2, TypeCorrect, NothingOutlivesItsUser, PTL DEF Spec

\* An install with users has an owner that is an admin, whatever deletions,
\* demotions and registrations run at the same time.
THEOREM AnOwnerRemains == Spec => []OwnerPresent
BY OwnersAreSafe, PTL

\* An owner is neither deleted nor demoted.
THEOREM OwnersAreKept == Spec => OwnerKept
<1>1. TypeOK /\ NoOrphans /\ OwnerInv /\ [Next]_vars =>
        [\A u \in users : IsOwner(u) => u \in users' /\ Capabilities \subseteq caps'[u]]_vars
  <2> SUFFICES ASSUME TypeOK, NoOrphans, OwnerInv, [Next]_vars, NEW u \in users, IsOwner(u)
               PROVE  u \in users' /\ Capabilities \subseteq caps'[u]
    OBVIOUS
  <2>1. Capabilities \subseteq caps[u]
    BY DEF OwnerInv, IsOwner, Capabilities, TypeOK
  <2>. QED BY <2>1, OwnerKeptStep
<1>. QED BY <1>1, TypeCorrect, NothingOutlivesItsUser, OwnersAreSafe, PTL DEF Spec, OwnerKept

(***************************************************************************)
(* Passphrases and keys                                                    *)
(***************************************************************************)
LEMMA SweepsAdd ==
  ASSUME TypeOK, NEW u \in Users, NEW kinds \in SUBSET Kinds, NEW c, Sweeps(u, kinds, c)
  PROVE  /\ \A v \in Users, kind \in Kinds :
              swept'[v][kind] = IF v = u /\ kind \in kinds THEN swept[v][kind] \cup {c}
                                                           ELSE swept[v][kind]
         /\ \A v \in Users, kind \in Kinds : swept[v][kind] \subseteq swept'[v][kind]
         /\ \A kind \in kinds : c \in swept'[u][kind]
<1> DEFINE row == [k \in Kinds |-> IF k \in kinds THEN swept[u][k] \cup {c} ELSE swept[u][k]]
<1>1. swept' = [swept EXCEPT ![u] = row]
  BY DEF Sweeps
<1>2. \A kind \in Kinds :
        row[kind] = IF kind \in kinds THEN swept[u][kind] \cup {c} ELSE swept[u][kind]
  OBVIOUS
<1> HIDE DEF row
<1>3. \A v \in Users, kind \in Kinds :
        swept'[v][kind] = IF v = u /\ kind \in kinds THEN swept[v][kind] \cup {c}
                                                     ELSE swept[v][kind]
  BY <1>1, <1>2 DEF TypeOK
<1>4. ASSUME NEW v \in Users, NEW kind \in Kinds PROVE swept[v][kind] \subseteq swept'[v][kind]
  BY <1>3
<1>5. ASSUME NEW kind \in kinds PROVE c \in swept'[u][kind]
  BY <1>3
<1>. QED BY <1>3, <1>4, <1>5

\* What the steps share that let a request of r read no keys: no other request
\* changes, and a key is new only with what was read before it.
LEMMA FrameKeeps ==
  ASSUME TypeOK, KeyInv, NEW r \in Requests, NEW state, Goes(r, state),
         state.at \notin {"sweep", "revoke"}, state.at = "collect" => state.by \in Users,
         UNCHANGED <<swept, ended>>,
         \A k \in live' : k \in live \/ k.after = swept[k.user][k.kind],
         live' \subseteq Key
  PROVE  KeyInv'
<1>1. req'[r] = state /\ \A q \in Requests \ {r} : req'[q] = req[q]
  BY GoesTo
<1>2. \A k \in live' : k.user \in Users /\ k.kind \in Kinds
  BY DEF Key
<1>3. ASSUME NEW k \in live' PROVE ended'[k.user] \subseteq k.after
  BY <1>2, <1>3 DEF KeyInv, RotationRevokes
<1>4. ASSUME NEW q \in Requests, NEW kind \in Read(q)'
      PROVE  /\ req'[q].change \in swept'[req'[q].by][kind]
             /\ \A k \in live' : k.user = req'[q].by /\ k.kind = kind => InHand(q, k)'
  <2>1. q # r
    BY <1>1, <1>4 DEF Read, At
  <2>2. req'[q] = req[q] /\ kind \in Read(q)
    BY <1>1, <1>4, <2>1 DEF Read, At
  <2>3. req[q].change \in swept[req[q].by][kind]
    BY <2>2 DEF KeyInv
  <2>4. ASSUME NEW k \in live', k.user = req[q].by, k.kind = kind PROVE InHand(q, k)
    BY <2>2, <2>3, <2>4 DEF KeyInv, InHand
  <2>. QED BY <2>2, <2>3, <2>4 DEF InHand
<1>5. \A q \in Requests : req'[q].at \in {"collect", "sweep", "revoke"} => req'[q].by \in Users
  BY <1>1 DEF KeyInv
<1>6. \A u \in Users : \A kind \in Kinds : ended'[u] \subseteq swept'[u][kind]
  BY DEF KeyInv
<1>. QED BY <1>3, <1>4, <1>5, <1>6 DEF KeyInv, RotationRevokes

\* What a change reads, it has in hand.
LEMMA CollectKeeps ==
  ASSUME TypeOK, KeyInv, NEW r \in Requests, CollectKeys(r)
  PROVE  KeyInv'
<1> DEFINE u == req[r].by
           c == req[r].change
<1>1. u \in Users /\ UNCHANGED <<ended, live>>
  BY DEF CollectKeys, At, KeyInv, keyState
<1>2. PICK step \in {"sweep", "revoke"}, ids \in SUBSET Keys, kinds \in SUBSET Kinds :
        /\ Goes(r, [req[r] EXCEPT !.at = step, !.seen = ids])
        /\ Sweeps(u, kinds, c)
        /\ kinds = IF step = "sweep" THEN {"session"} ELSE Kinds
        /\ \A k \in live : k.user = u /\ k.kind \in kinds => k.id \in ids
  <2> DEFINE sessions == OfKind(KeysOf(u), "session")
  <2>0. Ids(sessions) \in SUBSET Keys /\ Ids(KeysOf(u)) \in SUBSET Keys
    BY DEF Ids, OfKind, KeysOf, TypeOK, Key
  <2>1. CASE /\ Goes(r, [req[r] EXCEPT !.at = "sweep", !.seen = Ids(sessions)])
             /\ Sweeps(u, {"session"}, c)
    <3>1. {"session"} \in SUBSET Kinds
      BY DEF Kinds
    <3>2. \A k \in live : k.user = u /\ k.kind \in {"session"} => k.id \in Ids(sessions)
      BY DEF Ids, OfKind, KeysOf
    <3>3. /\ "sweep" \in {"sweep", "revoke"}
          /\ {"session"} = IF "sweep" = "sweep" THEN {"session"} ELSE Kinds
      OBVIOUS
    <3> HIDE DEF sessions, u, c
    <3>. QED BY <2>0, <2>1, <3>1, <3>2, <3>3, Zenon
  <2>2. CASE /\ Goes(r, [req[r] EXCEPT !.at = "revoke", !.seen = Ids(KeysOf(u))])
             /\ Sweeps(u, Kinds, c)
    <3>1. \A k \in live : k.user = u /\ k.kind \in Kinds => k.id \in Ids(KeysOf(u))
      BY DEF Ids, KeysOf
    <3>. QED BY <2>0, <2>2, <3>1
  <2>. QED BY <2>1, <2>2 DEF CollectKeys
<1> DEFINE state == [req[r] EXCEPT !.at = step, !.seen = ids]
<1>3. state.at = step /\ state.seen = ids /\ state.by = u /\ state.change = c
  BY RequestType DEF Request
<1>4. req'[r] = state /\ \A q \in Requests \ {r} : req'[q] = req[q]
  BY <1>2, GoesTo
<1> HIDE DEF state, u, c
<1>5. /\ \A v \in Users, kind \in Kinds : swept[v][kind] \subseteq swept'[v][kind]
      /\ \A kind \in kinds : c \in swept'[u][kind]
  <2>1. u \in Users /\ Sweeps(u, kinds, c)
    BY <1>1, <1>2
  <2>. QED BY <2>1, SweepsAdd
<1>6. Read(r)' = kinds
  BY <1>2, <1>3, <1>4 DEF Read, At
<1>7. ASSUME NEW q \in Requests, NEW kind \in Read(q)'
      PROVE  /\ req'[q].change \in swept'[req'[q].by][kind]
             /\ \A k \in live' : k.user = req'[q].by /\ k.kind = kind => InHand(q, k)'
  <2>1. CASE q = r
    BY <1>1, <1>2, <1>3, <1>4, <1>5, <1>6, <1>7, <2>1 DEF InHand
  <2>2. CASE q # r
    <3>1. req'[q] = req[q] /\ kind \in Read(q)
      BY <1>4, <1>7, <2>2 DEF Read, At
    <3>2. req[q].by \in Users /\ kind \in Kinds
      BY <3>1 DEF KeyInv, Read, At, Kinds
    <3>3. req[q].change \in swept[req[q].by][kind]
      BY <3>1 DEF KeyInv
    <3>4. \A k \in live : k.user = req[q].by /\ k.kind = kind => InHand(q, k)
      BY <3>1 DEF KeyInv
    <3>. QED BY <1>1, <1>5, <3>1, <3>2, <3>3, <3>4 DEF InHand
  <2>. QED BY <2>1, <2>2
<1>8. \A q \in Requests : req'[q].at \in {"collect", "sweep", "revoke"} => req'[q].by \in Users
  BY <1>1, <1>3, <1>4 DEF KeyInv
<1>9. \A v \in Users : \A kind \in Kinds : ended'[v] \subseteq swept'[v][kind]
  BY <1>1, <1>5 DEF KeyInv
<1>. QED BY <1>1, <1>7, <1>8, <1>9 DEF KeyInv, RotationRevokes

\* And all of that it ends.
LEMMA EndingKeeps ==
  ASSUME TypeOK, KeyInv, NEW r \in Requests, SweepKeys(r) \/ RevokeKeys(r)
  PROVE  KeyInv'
<1> DEFINE u == req[r].by
           c == req[r].change
           state == [req[r] EXCEPT !.at = "issue", !.seen = {}]
<1>1. /\ u \in Users
      /\ live' \subseteq {k \in live : k.id \notin req[r].seen}
      /\ ended' = [ended EXCEPT ![u] = @ \cup {c}]
      /\ Goes(r, state)
  BY DEF SweepKeys, RevokeKeys, Ending, Without, At, KeyInv
<1>2. state.at = "issue"
  BY RequestType DEF Request
<1>3. req'[r] = state /\ \A q \in Requests \ {r} : req'[q] = req[q]
  BY <1>1, GoesTo
<1>4. \A v \in Users, kind \in Kinds : swept[v][kind] \subseteq swept'[v][kind]
  <2>1. CASE SweepKeys(r)
    <3>1. {"token"} \in SUBSET Kinds /\ Sweeps(u, {"token"}, c)
      BY <2>1 DEF Kinds, SweepKeys
    <3>2. u \in Users
      BY <1>1
    <3> HIDE DEF u, c
    <3>. QED BY <3>1, <3>2, SweepsAdd
  <2>2. CASE RevokeKeys(r)
    BY <2>2 DEF RevokeKeys
  <2>. QED BY <2>1, <2>2
<1>5. \A kind \in Kinds : c \in swept'[u][kind]
  <2>1. CASE SweepKeys(r)
    <3>1. {"token"} \in SUBSET Kinds /\ Sweeps(u, {"token"}, c) /\ "token" \in Kinds
      BY <2>1 DEF Kinds, SweepKeys
    <3>2. c \in swept'[u]["token"]
      <4>1. u \in Users
        BY <1>1
      <4> HIDE DEF u, c
      <4>. QED BY <3>1, <4>1, SweepsAdd
    <3>3. "session" \in Kinds /\ c \in swept[u]["session"]
      BY <2>1 DEF SweepKeys, KeyInv, Read, Kinds
    <3>. QED BY <1>1, <1>4, <3>2, <3>3 DEF Kinds
  <2>2. CASE RevokeKeys(r)
    <3>1. Read(r) = Kinds
      BY <2>2 DEF RevokeKeys, Read, At
    <3>. QED BY <1>1, <1>4, <3>1 DEF KeyInv
  <2>. QED BY <2>1, <2>2
<1>6. ASSUME NEW k \in live', k.user = u PROVE c \in k.after
  <2>1. k \in live /\ k.id \notin req[r].seen /\ k.kind \in Kinds
    BY <1>1, <1>6 DEF TypeOK, Key
  <2>2. k.kind \in Read(r)
    <3>1. CASE SweepKeys(r)
      <4>1. k.kind # "token"
        BY <1>6, <2>1, <3>1 DEF SweepKeys, OfKind, KeysOf
      <4>. QED BY <2>1, <3>1, <4>1 DEF SweepKeys, Read, Kinds
    <3>2. CASE RevokeKeys(r)
      BY <2>1, <3>2 DEF RevokeKeys, Read, At
    <3>. QED BY <3>1, <3>2
  <2>3. InHand(r, k)
    BY <1>6, <2>1, <2>2 DEF KeyInv
  <2>. QED BY <2>1, <2>3 DEF InHand
<1> HIDE DEF state, u, c
<1>7. \A v \in Users : ended'[v] = IF v = u THEN ended[v] \cup {c} ELSE ended[v]
  BY <1>1 DEF TypeOK
<1>8. ASSUME NEW k \in live' PROVE ended'[k.user] \subseteq k.after
  <2>1. k \in live /\ k.user \in Users
    BY <1>1, <1>8 DEF TypeOK, Key
  <2>2. ended[k.user] \subseteq k.after
    BY <2>1 DEF KeyInv, RotationRevokes
  <2>. QED BY <1>6, <1>7, <2>1, <2>2
<1>9. ASSUME NEW q \in Requests, NEW kind \in Read(q)'
      PROVE  /\ req'[q].change \in swept'[req'[q].by][kind]
             /\ \A k \in live' : k.user = req'[q].by /\ k.kind = kind => InHand(q, k)'
  <2>1. q # r
    BY <1>2, <1>3, <1>9 DEF Read, At
  <2>2. req'[q] = req[q] /\ kind \in Read(q)
    BY <1>3, <1>9, <2>1 DEF Read, At
  <2>3. req[q].by \in Users /\ kind \in Kinds
    BY <2>2 DEF KeyInv, Read, At, Kinds
  <2>4. req[q].change \in swept[req[q].by][kind]
    BY <2>2 DEF KeyInv
  <2>5. \A k \in live : k.user = req[q].by /\ k.kind = kind => InHand(q, k)
    BY <2>2 DEF KeyInv
  <2>. QED BY <1>1, <1>4, <2>2, <2>3, <2>4, <2>5 DEF InHand
<1>10. \A q \in Requests : req'[q].at \in {"collect", "sweep", "revoke"} => req'[q].by \in Users
  BY <1>2, <1>3 DEF KeyInv
<1>11. ASSUME NEW v \in Users, NEW kind \in Kinds PROVE ended'[v] \subseteq swept'[v][kind]
  <2>1. ended[v] \subseteq swept'[v][kind]
    BY <1>4 DEF KeyInv
  <2>. QED BY <1>5, <1>7, <2>1
<1>. QED BY <1>8, <1>9, <1>10, <1>11 DEF KeyInv, RotationRevokes

\* A reset leaves its user no key.
LEMMA ResetKeeps ==
  ASSUME TypeOK, KeyInv, NEW r \in Requests, ResetPassphrase(r)
  PROVE  KeyInv'
<1>1. PICK u \in users : /\ live' = live \ KeysOf(u)
                         /\ Sweeps(u, Kinds, changes + 1)
                         /\ ended' = [ended EXCEPT ![u] = @ \cup {changes + 1}]
  BY DEF ResetPassphrase
<1>2. u \in Users /\ req' = req
  BY DEF ResetPassphrase, TypeOK
<1>3. \A v \in Users, kind \in Kinds :
        swept'[v][kind] = IF v = u THEN swept[v][kind] \cup {changes + 1} ELSE swept[v][kind]
  BY <1>1, <1>2, SweepsAdd
<1>4. \A v \in Users : ended'[v] = IF v = u THEN ended[v] \cup {changes + 1} ELSE ended[v]
  BY <1>1 DEF TypeOK
<1>5. ASSUME NEW k \in live' PROVE ended'[k.user] \subseteq k.after
  <2>1. k \in live /\ k.user # u /\ k.user \in Users
    BY <1>1, <1>5 DEF KeysOf, TypeOK, Key
  <2>. QED BY <1>4, <2>1 DEF KeyInv, RotationRevokes
<1>6. ASSUME NEW q \in Requests, NEW kind \in Read(q)'
      PROVE  /\ req'[q].change \in swept'[req'[q].by][kind]
             /\ \A k \in live' : k.user = req'[q].by /\ k.kind = kind => InHand(q, k)'
  <2>1. kind \in Read(q)
    BY <1>2, <1>6 DEF Read, At
  <2>2. req[q].by \in Users /\ kind \in Kinds
    BY <2>1 DEF KeyInv, Read, At, Kinds
  <2>3. req[q].change \in swept[req[q].by][kind]
    BY <2>1 DEF KeyInv
  <2>4. \A k \in live : k.user = req[q].by /\ k.kind = kind => InHand(q, k)
    BY <2>1 DEF KeyInv
  <2>. QED BY <1>1, <1>2, <1>3, <2>2, <2>3, <2>4 DEF InHand
<1>7. ASSUME NEW v \in Users, NEW kind \in Kinds PROVE ended'[v] \subseteq swept'[v][kind]
  <2>1. ended[v] \subseteq swept[v][kind]
    BY DEF KeyInv
  <2>. QED BY <1>3, <1>4, <2>1
<1>. QED BY <1>2, <1>5, <1>6, <1>7 DEF KeyInv, RotationRevokes

\* The steps that read and end no keys for a change of the passphrase.
LEMMA FrameAction ==
  ASSUME TypeOK, NEW r \in Requests,
         \/ RegisterStep(r) \/ SessionStep(r) \/ TokenStep(r) \/ AdminStep(r) \/ Abort(r)
         \/ BeginRotation(r) \/ CommitRotation(r)
  PROVE  /\ \E state : /\ Goes(r, state)
                       /\ state.at \notin {"sweep", "revoke"}
                       /\ state.at = "collect" => state.by \in Users
         /\ UNCHANGED <<swept, ended>>
         /\ \A k \in live' : k \in live \/ k.after = swept[k.user][k.kind]
<1> DEFINE Frame == /\ \E state : /\ Goes(r, state)
                                  /\ state.at \notin {"sweep", "revoke"}
                                  /\ state.at = "collect" => state.by \in Users
                    /\ UNCHANGED <<swept, ended>>
                    /\ \A k \in live' : k \in live \/ k.after = swept[k.user][k.kind]
<1>0. Idle.at = "idle"
  BY DEF Idle
<1>1. ASSUME BeginRegister(r) \/ BeginBootstrap(r) \/ BeginCreate(r) PROVE Frame
  <2>1. [Idle EXCEPT !.at = "count"].at = "count"
    BY DEF Idle
  <2>. QED BY <1>1, <2>1 DEF BeginRegister, BeginBootstrap, BeginCreate, keyState, passState
<1>2. ASSUME CountUsers(r) PROVE Frame
  <2>1. [Idle EXCEPT !.at = "insert", !.first = (users = {})].at = "insert"
    BY DEF Idle
  <2>. QED BY <1>2, <2>1 DEF CountUsers, keyState, passState
<1>3. ASSUME InsertUser(r) PROVE Frame
  BY <1>0, <1>3 DEF InsertUser, Ends, keyState, passState
<1>4. ASSUME Login(r) PROVE Frame
  <2>1. PICK u \in users, cookie \in {{}} \cup {{k.id} : k \in {s \in live : s.kind = "session"}} :
          Goes(r, [Idle EXCEPT !.at = IF cookie = {} THEN "issue" ELSE "supersede",
                               !.by = u, !.seen = cookie])
    BY <1>4 DEF Login
  <2>2. [Idle EXCEPT !.at = IF cookie = {} THEN "issue" ELSE "supersede",
                     !.by = u, !.seen = cookie].at \in {"issue", "supersede"}
    BY DEF Idle
  <2>3. \E state : Goes(r, state) /\ state.at \in {"issue", "supersede"}
    BY <2>1, <2>2, Zenon
  <2>. QED BY <1>4, <2>3 DEF Login, keyState, passState
<1>5. ASSUME Supersede(r) PROVE Frame
  <2>1. [req[r] EXCEPT !.at = "issue", !.seen = {}].at = "issue"
    BY RequestType DEF Request
  <2>. QED BY <1>5, <2>1 DEF Supersede, Without, passState
<1>6. ASSUME Admit(r) PROVE Frame
  <2>1. PICK k \in live :
          Goes(r, [Idle EXCEPT !.at = "admitted", !.by = k.user,
                               !.admin = "admin" \in caps[k.user]])
    BY <1>6 DEF Admit
  <2>2. [Idle EXCEPT !.at = "admitted", !.by = k.user,
                     !.admin = "admin" \in caps[k.user]].at = "admitted"
    BY DEF Idle
  <2>. QED BY <1>6, <2>1, <2>2 DEF Admit, keyState, passState
<1>7. ASSUME EndOwnKey(r) PROVE Frame
  BY <1>0, <1>7 DEF EndOwnKey, Ends, passState
<1>8. ASSUME ReadToken(r) PROVE Frame
  <2>1. PICK k \in live : Goes(r, [req[r] EXCEPT !.at = "swap", !.seen = {k.id}])
    BY <1>8 DEF ReadToken, KeysOf
  <2>2. [req[r] EXCEPT !.at = "swap", !.seen = {k.id}].at = "swap"
    BY RequestType DEF Request
  <2>. QED BY <1>8, <2>1, <2>2 DEF ReadToken, keyState, passState
<1>9. ASSUME IssueSession(r) \/ IssueToken(r) \/ SwapToken(r) PROVE Frame
  <2>1. PICK id \in Keys \ issued, kind \in Kinds :
          live' \subseteq live \cup {NewKey(id, kind, req[r].by)}
    BY <1>9, IssueAdds
  <2>2. Goes(r, Idle) /\ UNCHANGED <<swept, ended>>
    BY <1>9 DEF IssueSession, IssueToken, SwapToken, Ends, passState
  <2>. QED BY <1>0, <2>1, <2>2, NewKeyFields
<1>10. ASSUME Grant(r) \/ Demote(r) \/ DeleteUser(r) \/ Abort(r) PROVE Frame
  BY <1>0, <1>10 DEF Grant, Demote, DeleteUser, Abort, Ends, keyState, passState
<1>11. ASSUME CheckDelete(r) \/ CheckDemote(r) PROVE Frame
  <2>1. PICK u \in known, step \in {"delete", "demote"} :
          Goes(r, [Idle EXCEPT !.at = step, !.target = u])
    BY <1>11 DEF CheckDelete, CheckDemote
  <2>2. [Idle EXCEPT !.at = step, !.target = u].at = step
    BY DEF Idle
  <2>. QED BY <1>11, <2>1, <2>2 DEF CheckDelete, CheckDemote, keyState, passState
<1>12. ASSUME BeginRotation(r) PROVE Frame
  <2>1. [Idle EXCEPT !.at = "rehash", !.by = req[r].by].at = "rehash"
    BY DEF Idle
  <2>. QED BY <1>12, <2>1 DEF BeginRotation, keyState, passState
<1>13. ASSUME CommitRotation(r) PROVE Frame
  <2>1. LET state == [req[r] EXCEPT !.at = "collect", !.change = changes + 1]
        IN  state.at = "collect" /\ state.by = req[r].by
    BY RequestType DEF Request
  <2>2. req[r].by \in Users
    BY <1>13 DEF CommitRotation, TypeOK
  <2>. QED BY <1>13, <2>1, <2>2 DEF CommitRotation, keyState
<1>. QED BY <1>1, <1>2, <1>3, <1>4, <1>5, <1>6, <1>7, <1>8, <1>9, <1>10, <1>11, <1>12, <1>13
  DEF RegisterStep, SessionStep, TokenStep, AdminStep

LEMMA KeyInvStep ==
  ASSUME TypeOK, TypeOK', KeyInv, [Next]_vars
  PROVE  KeyInv'
<1>0. live' \subseteq Key
  BY DEF TypeOK
<1>1. ASSUME NEW r \in Requests,
             \/ RegisterStep(r) \/ SessionStep(r) \/ TokenStep(r) \/ AdminStep(r) \/ Abort(r)
             \/ BeginRotation(r) \/ CommitRotation(r)
      PROVE  KeyInv'
  BY <1>0, <1>1, FrameAction, FrameKeeps
<1>2. ASSUME NEW r \in Requests, PassStep(r), ~BeginRotation(r), ~CommitRotation(r) PROVE KeyInv'
  BY <1>2, CollectKeeps, EndingKeeps, ResetKeeps DEF PassStep
<1>3. ASSUME NEW k \in live, EndSession(k) PROVE KeyInv'
  BY <1>3 DEF EndSession, KeyInv, RotationRevokes, Read, InHand, At, passState
<1>4. CASE UNCHANGED vars
  BY <1>4 DEF vars, passState, keyState, KeyInv, RotationRevokes, Read, InHand, At
<1>. QED BY <1>1, <1>2, <1>3, <1>4 DEF Next

\* A change of the passphrase that has come to its end has ended every key but
\* those written after it had read the keys of their kind: concurrent changes,
\* resets, logins, refreshes and deletions included.
THEOREM ChangesEndOldKeys == Spec => []RotationRevokes
<1>1. Init => KeyInv
  BY DEF Init, KeyInv, RotationRevokes, Read, At, Idle
<1>2. TypeOK /\ TypeOK' /\ KeyInv /\ [Next]_vars => KeyInv'
  BY KeyInvStep
<1>3. KeyInv => RotationRevokes
  BY DEF KeyInv
<1>. QED BY <1>1, <1>2, <1>3, TypeCorrect, PTL DEF Spec
=============================================================================
