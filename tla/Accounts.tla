------------------------------- MODULE Accounts -------------------------------
(***************************************************************************)
(* Users, capabilities, passphrases and the keys that stand for a user:    *)
(* browser sessions and personal tokens.  auth/default.py, auth/token.py,  *)
(* server/middleware.py, server/routers/auth.py, the user part of          *)
(* server/routers/settings.py, and the two commands of cli/main.py that    *)
(* open the same database from another process.                            *)
(*                                                                         *)
(* A request is a handler in progress.  Reads run outside a transaction,   *)
(* and the writes of a handler with their commit are one transaction, so a *)
(* handler is a step per transaction with the reads it acts on in a step   *)
(* before it.  What a handler checks before its last await may be stale    *)
(* when it writes; foreign keys and the version check of an UPDATE are the *)
(* only guards a write has of its own.                                     *)
(*                                                                         *)
(* E-mail addresses, display names and labels are left out: a refused      *)
(* duplicate changes nothing.  So are the passphrases: a write looks only  *)
(* at what its handler verified before.  Changes of a passphrase are       *)
(* numbered in the order of their commits.                                 *)
(***************************************************************************)
EXTENDS Naturals, FiniteSets

CONSTANTS
  Users,       \* ids of users, each used once
  Keys,        \* ids of sessions and tokens, each used once
  Requests,    \* handlers that run at the same time
  MaxChanges,  \* bound on passphrase changes
  NoUser

ASSUME AccountsAssumption ==
  /\ MaxChanges \in Nat
  /\ NoUser \notin Users

VARIABLES
  known,    \* ids given out
  users,    \* rows of users
  caps,     \* caps[u]: rows of capabilities
  changes,  \* how many changes of a passphrase there were
  swept,    \* history, swept[u][kind]: changes that have read u's keys of the kind
  ended,    \* history, ended[u]: changes that have ended the keys of u
  issued,   \* ids of keys given out
  live,     \* the keys the middleware accepts
  req       \* req[r]: where the handler is and what it remembers

userState == <<known, users, caps>>
passState == <<changes, swept, ended>>
keyState  == <<issued, live>>
vars      == <<userState, passState, keyState, req>>

Capabilities == {"admin", "owner"}
Steps == {"idle", "admitted", "count", "insert", "supersede", "issue", "swap",
          "rehash", "collect", "revoke", "sweep", "delete", "demote"}
Kinds == {"session", "token"}
Changes == 0..MaxChanges

\* after: history, the changes that had read the user's keys of the kind already
\* when this one was written.
Key == [id : Keys, kind : Kinds, user : Users, after : SUBSET Changes]

\* change: the change of the passphrase that the handler has committed, or 0.
Request == [at : Steps, by : Users \cup {NoUser}, admin : BOOLEAN, first : BOOLEAN,
            change : Changes, target : Users \cup {NoUser}, seen : SUBSET Keys]

Idle == [at |-> "idle", by |-> NoUser, admin |-> FALSE, first |-> FALSE,
         change |-> 0, target |-> NoUser, seen |-> {}]

TypeOK ==
  /\ known \subseteq Users /\ users \subseteq known
  /\ caps \in [Users -> SUBSET Capabilities]
  /\ changes \in Changes
  /\ swept \in [Users -> [Kinds -> SUBSET Changes]] /\ ended \in [Users -> SUBSET Changes]
  /\ issued \subseteq Keys
  /\ live \subseteq Key /\ \A k \in live : k.id \in issued
  /\ req \in [Requests -> Request]

Init ==
  /\ known = {} /\ users = {}
  /\ caps = [u \in Users |-> {}]
  /\ changes = 0
  /\ swept = [u \in Users |-> [kind \in Kinds |-> {}]] /\ ended = [u \in Users |-> {}]
  /\ issued = {} /\ live = {}
  /\ req = [r \in Requests |-> Idle]

(***************************************************************************)
(* Helpers                                                                 *)
(***************************************************************************)
At(r, step) == req[r].at = step
Goes(r, state) == req' = [req EXCEPT ![r] = state]
Ends(r) == Goes(r, Idle)

KeysOf(u)   == {k \in live : k.user = u}
OfKind(keys, kind) == {k \in keys : k.kind = kind}
Ids(keys)   == {k.id : k \in keys}
Without(ids) == {k \in live : k.id \notin ids}

NewKey(id, kind, u) ==
  [id |-> id, kind |-> kind, user |-> u, after |-> swept[u][kind]]

\* Change c has read the keys of u of these kinds.
Sweeps(u, kinds, c) ==
  swept' = [swept EXCEPT ![u] = [kind \in Kinds |->
              IF kind \in kinds THEN @[kind] \cup {c} ELSE @[kind]]]

(***************************************************************************)
(* Registration                                                            *)
(***************************************************************************)
\* POST /register goes on only while there is no user.
BeginRegister(r) ==
  /\ At(r, "idle") /\ users = {}
  /\ Goes(r, [Idle EXCEPT !.at = "count"])
  /\ UNCHANGED <<userState, passState, keyState>>

\* bootstrap-admin registers without that check.
BeginBootstrap(r) ==
  /\ At(r, "idle")
  /\ Goes(r, [Idle EXCEPT !.at = "count"])
  /\ UNCHANGED <<userState, passState, keyState>>

\* Mutant: the new user is among the users that are counted.
CountUsersAndNew(r) ==
  /\ At(r, "count")
  /\ Goes(r, [Idle EXCEPT !.at = "insert"])
  /\ UNCHANGED <<userState, passState, keyState>>

\* DefaultAuther.register reads the users to find out whether it is the first.
CountUsers(r) ==
  /\ At(r, "count")
  /\ Goes(r, [Idle EXCEPT !.at = "insert", !.first = (users = {})])
  /\ UNCHANGED <<userState, passState, keyState>>

\* One transaction for the user, the passphrase and the first user's rights.
InsertUser(r) ==
  /\ At(r, "insert")
  /\ \E u \in Users \ known :
       /\ known' = known \cup {u}
       /\ users' = users \cup {u}
       /\ caps' = [caps EXCEPT ![u] = IF req[r].first THEN Capabilities ELSE {}]
  /\ Ends(r)
  /\ UNCHANGED <<passState, keyState>>

(***************************************************************************)
(* Sessions                                                                *)
(***************************************************************************)
\* A login that has verified the passphrase; the request may carry a session cookie.
Login(r) ==
  /\ At(r, "idle")
  /\ \E u \in users, cookie \in {{}} \cup {{k.id} : k \in {s \in live : s.kind = "session"}} :
       Goes(r, [Idle EXCEPT !.at = IF cookie = {} THEN "issue" ELSE "supersede",
                            !.by = u, !.seen = cookie])
  /\ UNCHANGED <<userState, passState, keyState>>

\* The session of the incoming cookie is revoked.
Supersede(r) ==
  /\ At(r, "supersede")
  /\ live' = Without(req[r].seen)
  /\ Goes(r, [req[r] EXCEPT !.at = "issue", !.seen = {}])
  /\ UNCHANGED <<userState, passState, issued>>

\* Mutant: foreign keys are not enforced.
IssueSessionUnchecked(r) ==
  /\ At(r, "issue")
  /\ \E id \in Keys \ issued :
       /\ issued' = issued \cup {id}
       /\ live' = live \cup {NewKey(id, "session", req[r].by)}
  /\ Ends(r)
  /\ UNCHANGED <<userState, passState>>

\* The foreign key refuses the row of a user that is gone.
IssueSession(r) ==
  /\ At(r, "issue") /\ req[r].by \in users
  /\ \E id \in Keys \ issued :
       /\ issued' = issued \cup {id}
       /\ live' = live \cup {NewKey(id, "session", req[r].by)}
  /\ Ends(r)
  /\ UNCHANGED <<userState, passState>>

\* Logging out needs the cookie alone; expiry has the same effect.
EndSession(k) ==
  /\ k.kind = "session"
  /\ live' = live \ {k}
  /\ UNCHANGED <<userState, passState, issued, req>>

\* The middleware loads the identity once: the handler works with this copy.
Admit(r) ==
  /\ At(r, "idle")
  /\ \E k \in live :
       /\ k.user \in users
       /\ Goes(r, [Idle EXCEPT !.at = "admitted", !.by = k.user,
                               !.admin = "admin" \in caps[k.user]])
  /\ UNCHANGED <<userState, passState, keyState>>

\* revoke_my_session and delete_my_token.
EndOwnKey(r) ==
  /\ At(r, "admitted")
  /\ \E k \in KeysOf(req[r].by) : live' = live \ {k}
  /\ Ends(r)
  /\ UNCHANGED <<userState, passState, issued>>

(***************************************************************************)
(* Tokens                                                                  *)
(***************************************************************************)
IssueToken(r) ==
  /\ At(r, "admitted") /\ req[r].by \in users
  /\ \E id \in Keys \ issued :
       /\ issued' = issued \cup {id}
       /\ live' = live \cup {NewKey(id, "token", req[r].by)}
  /\ Ends(r)
  /\ UNCHANGED <<userState, passState>>

\* A refresh reads the token it replaces ...
ReadToken(r) ==
  /\ At(r, "admitted")
  /\ \E k \in KeysOf(req[r].by) :
       /\ k.kind = "token"
       /\ Goes(r, [req[r] EXCEPT !.at = "swap", !.seen = {k.id}])
  /\ UNCHANGED <<userState, passState, keyState>>

\* ... and deletes it with the insertion of the new one.  That the old one is
\* gone already does not stop it.
SwapToken(r) ==
  /\ At(r, "swap") /\ req[r].by \in users
  /\ \E id \in Keys \ issued :
       /\ issued' = issued \cup {id}
       /\ live' = Without(req[r].seen) \cup {NewKey(id, "token", req[r].by)}
  /\ Ends(r)
  /\ UNCHANGED <<userState, passState>>

(***************************************************************************)
(* Passphrases                                                             *)
(***************************************************************************)
\* update_passphrase has verified the old passphrase.
BeginRotation(r) ==
  /\ At(r, "admitted") /\ req[r].by \in users
  /\ Goes(r, [Idle EXCEPT !.at = "rehash", !.by = req[r].by])
  /\ UNCHANGED <<userState, passState, keyState>>

\* The first transaction: the new hash, whatever the stored one is by now.
CommitRotation(r) ==
  /\ At(r, "rehash") /\ req[r].by \in users
  /\ changes < MaxChanges
  /\ changes' = changes + 1
  /\ Goes(r, [req[r] EXCEPT !.at = "collect", !.change = changes + 1])
  /\ UNCHANGED <<userState, swept, ended, keyState>>

\* Mutant: rows are kept where ids are meant.
CollectRows(r) ==
  /\ At(r, "collect")
  /\ Goes(r, [req[r] EXCEPT !.at = "revoke", !.seen = KeysOf(req[r].by)])
  /\ Sweeps(req[r].by, Kinds, req[r].change)
  /\ UNCHANGED <<userState, changes, ended, keyState>>

\* The second transaction reads the user's sessions.  Where there are any, expired
\* ones included, marking them revoked takes the write lock before the tokens are
\* read; else the tokens are read without it.
CollectKeys(r) ==
  /\ At(r, "collect")
  /\ LET u == req[r].by
         sessions == OfKind(KeysOf(u), "session")
     IN \/ /\ Goes(r, [req[r] EXCEPT !.at = "sweep", !.seen = Ids(sessions)])
           /\ Sweeps(u, {"session"}, req[r].change)
        \/ /\ sessions = {}
           /\ Goes(r, [req[r] EXCEPT !.at = "revoke", !.seen = Ids(KeysOf(u))])
           /\ Sweeps(u, Kinds, req[r].change)
  /\ UNCHANGED <<userState, changes, ended, keyState>>

Ending(r) ==
  /\ ended' = [ended EXCEPT ![req[r].by] = @ \cup {req[r].change}]
  /\ Goes(r, [req[r] EXCEPT !.at = "issue", !.seen = {}])
  /\ UNCHANGED <<userState, changes, issued>>

\* Mutant: the tokens are left out.
SweepSessions(r) ==
  /\ At(r, "sweep")
  /\ live' = Without(req[r].seen)
  /\ Sweeps(req[r].by, {"token"}, req[r].change)
  /\ Ending(r)

\* Under the lock the tokens are read and deleted with the sessions that were
\* read before it.  The caller then gets a session of its own.
SweepKeys(r) ==
  /\ At(r, "sweep")
  /\ live' = Without(req[r].seen) \ OfKind(KeysOf(req[r].by), "token")
  /\ Sweeps(req[r].by, {"token"}, req[r].change)
  /\ Ending(r)

\* There was no session: what ends are the tokens that were read.
RevokeKeys(r) ==
  /\ At(r, "revoke")
  /\ live' = Without(req[r].seen)
  /\ Ending(r) /\ UNCHANGED swept

\* reset-passphrase, a process of its own.  Its new hash is flushed, which takes
\* the write lock, before it reads the keys.
ResetPassphrase(r) ==
  /\ At(r, "idle")
  /\ changes < MaxChanges
  /\ changes' = changes + 1
  /\ \E u \in users :
       /\ live' = live \ KeysOf(u)
       /\ Sweeps(u, Kinds, changes + 1)
       /\ ended' = [ended EXCEPT ![u] = @ \cup {changes + 1}]
  /\ UNCHANGED <<userState, issued, req>>

(***************************************************************************)
(* Administration, by a request that was an admin's when it was admitted   *)
(***************************************************************************)
BeginCreate(r) ==
  /\ At(r, "admitted") /\ req[r].admin
  /\ Goes(r, [Idle EXCEPT !.at = "count"])
  /\ UNCHANGED <<userState, passState, keyState>>

\* The owner capability cannot be granted.
Grant(r) ==
  /\ At(r, "admitted") /\ req[r].admin
  /\ \E u \in users : caps' = [caps EXCEPT ![u] = @ \cup {"admin"}]
  /\ Ends(r)
  /\ UNCHANGED <<known, users, passState, keyState>>

IsOwner(u) == "owner" \in caps[u]

\* Mutants: the owner is not asked for.
CheckDeleteAny(r) ==
  /\ At(r, "admitted") /\ req[r].admin
  /\ \E u \in known \ {req[r].by} :
       Goes(r, [Idle EXCEPT !.at = "delete", !.target = u])
  /\ UNCHANGED <<userState, passState, keyState>>

CheckDemoteAny(r) ==
  /\ At(r, "admitted") /\ req[r].admin
  /\ \E u \in known \ {req[r].by} :
       Goes(r, [Idle EXCEPT !.at = "demote", !.target = u])
  /\ UNCHANGED <<userState, passState, keyState>>

\* Neither the owner nor oneself, by a read before the transaction.
CheckDelete(r) ==
  /\ At(r, "admitted") /\ req[r].admin
  /\ \E u \in known \ {req[r].by} :
       ~IsOwner(u) /\ Goes(r, [Idle EXCEPT !.at = "delete", !.target = u])
  /\ UNCHANGED <<userState, passState, keyState>>

CheckDemote(r) ==
  /\ At(r, "admitted") /\ req[r].admin
  /\ \E u \in known \ {req[r].by} :
       ~IsOwner(u) /\ Goes(r, [Idle EXCEPT !.at = "demote", !.target = u])
  /\ UNCHANGED <<userState, passState, keyState>>

\* The user's passphrase, capabilities, sessions and tokens go with the row.
DeleteUser(r) ==
  /\ At(r, "delete") /\ req[r].target \in users
  /\ users' = users \ {req[r].target}
  /\ caps' = [caps EXCEPT ![req[r].target] = {}]
  /\ live' = live \ KeysOf(req[r].target)
  /\ Ends(r)
  /\ UNCHANGED <<known, passState, issued>>

Demote(r) ==
  /\ At(r, "demote") /\ "admin" \in caps[req[r].target]
  /\ caps' = [caps EXCEPT ![req[r].target] = @ \ {"admin"}]
  /\ Ends(r)
  /\ UNCHANGED <<known, users, passState, keyState>>

(***************************************************************************)
(* Any handler may end at an await: the process stops, the database is     *)
(* locked, a row it wants to write is gone, or it answers with an error.   *)
(* A change of the passphrase that ends so after its first transaction has *)
(* ended no key.                                                           *)
(***************************************************************************)
Abort(r) ==
  /\ ~At(r, "idle")
  /\ Ends(r)
  /\ UNCHANGED <<userState, passState, keyState>>

RegisterStep(r) == BeginRegister(r) \/ BeginBootstrap(r) \/ CountUsers(r) \/ InsertUser(r)
SessionStep(r) ==
  Login(r) \/ Supersede(r) \/ IssueSession(r) \/ Admit(r) \/ EndOwnKey(r)
TokenStep(r) == IssueToken(r) \/ ReadToken(r) \/ SwapToken(r)
PassStep(r) ==
  BeginRotation(r) \/ CommitRotation(r) \/ CollectKeys(r) \/ SweepKeys(r)
    \/ RevokeKeys(r) \/ ResetPassphrase(r)
AdminStep(r) ==
  BeginCreate(r) \/ Grant(r) \/ CheckDelete(r) \/ CheckDemote(r) \/ DeleteUser(r) \/ Demote(r)

Next ==
  \/ \E r \in Requests :
       RegisterStep(r) \/ SessionStep(r) \/ TokenStep(r) \/ PassStep(r) \/ AdminStep(r) \/ Abort(r)
  \/ \E k \in live : EndSession(k)

Spec == Init /\ [][Next]_vars

(***************************************************************************)
(* Properties                                                              *)
(***************************************************************************)
\* No key and no capability outlives its user, although handlers write rows
\* for users they looked up before: delete_user, and the foreign keys that
\* refuse the late row.
NoOrphans ==
  /\ \A k \in live : k.user \in users
  /\ \A u \in Users \ users : caps[u] = {}

\* While there are users one of them is an owner with the admin capability:
\* the install cannot lose its last admin, by whatever sequence of deletions
\* and demotions admins run at the same time.
OwnerPresent ==
  users # {} => \E u \in users : Capabilities \subseteq caps[u]

\* No step deletes or demotes an owner, though delete_user and
\* revoke_capability ask for the owner before their transaction.
OwnerKept ==
  [][\A u \in users : IsOwner(u) => u \in users' /\ Capabilities \subseteq caps'[u]]_vars

\* A change of the passphrase that has come to its end (update_passphrase,
\* reset_passphrase_by_email) has ended every key there was when it read the keys
\* of that kind, those written between its two transactions included, whatever
\* other changes, resets, refreshes and logins of the user run beside it.  What is
\* live then was written after that read, by a handler that was under way or that
\* came later.
RotationRevokes ==
  \A k \in live : ended[k.user] \subseteq k.after

\* The first user registered becomes the owner: there is one owner
\* (docs/quickstart.md).  DefaultAuther.register counts the users before the
\* transaction that writes the owner.
OneOwner == \A u, v \in users : IsOwner(u) /\ IsOwner(v) => u = v
=============================================================================
