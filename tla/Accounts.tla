------------------------------ MODULE Accounts ------------------------------
(***************************************************************************)
(* Accounts and the tokens that speak for them: AuthService (password      *)
(* login, GitLab login with provisioning), JwtStrategyFastify, the         *)
(* password routes of UsersService and the account routes of               *)
(* AdminUsersService.                                                      *)
(*                                                                         *)
(* One query or $transaction is one step.  bcrypt's compare and hash work  *)
(* on what a query returned, so they belong to that query's step and only  *)
(* delay the next one.  A request that is refused changes nothing: where   *)
(* the refusal answers the first query it is not a step.                   *)
(* Roles, and so who may take the administrator's steps, belong to the     *)
(* access component.                                                       *)
(***************************************************************************)
EXTENDS Integers, FiniteSets

CONSTANTS Ids,         \* user ids, handed out to accounts as they are created
          Names,       \* usernames
          Passwords,   \* plain texts; compare succeeds on the hashed one only
          Identities,  \* (provider, providerId) pairs
          Clients,     \* each with one request at a time
          Kinds,       \* the requests of this instance
          MaxVersion,  \* bound on tokenVersion
          MaxTokens,   \* bound on the tokens in circulation
          Absent, Retired, NoPassword, Nobody, Idle

ASSUME KindsAssumption ==
  Kinds \subseteq {"login", "oauth", "set", "change", "create", "reset", "remove"}
ASSUME BoundAssumption == MaxVersion \in Nat /\ MaxTokens \in Nat
ASSUME NullAssumption == Nobody \notin Ids /\ NoPassword \notin Passwords /\ Retired \notin Names

VARIABLES users,   \* Ids -> the account's row, or Absent
          link,    \* Identities -> the account an AuthProvider row names, or Nobody
          tokens,  \* the signed, unexpired tokens
          req      \* Clients -> its request in progress, or Idle

vars == <<users, link, tokens, req>>

Account == [name : Names \cup {Retired}, password : Passwords \cup {NoPassword},
            version : Nat, deleted : BOOLEAN]
\* sub and version are the payload.  password and identity are history: the
\* password the account had, and the identity it was entered by, if any, when
\* the row behind the token was read.
Token == [sub : Ids, version : Nat, password : Passwords \cup {NoPassword},
          identity : Identities \cup {Nobody}]
Request == [pc : {"pick", "suffix", "create"}, identity : Identities, name : Names]
      \cup [pc : {"sign"}, token : Token]
      \cup [pc : {"find", "write"}, kind : {"set", "change"}, id : Ids,
            old : Passwords \cup {NoPassword}, new : Passwords]
      \cup [pc : {"remove"}, id : Ids]

ASSUME MoreNullsAssumption ==
  Absent \notin Account /\ Idle \notin Request

TypeOK ==
  /\ users \in [Ids -> Account \cup {Absent}]
  /\ link \in [Identities -> Ids \cup {Nobody}]
  /\ tokens \subseteq Token
  /\ req \in [Clients -> Request \cup {Idle}]

Init ==
  /\ users = [u \in Ids |-> Absent]
  /\ link = [i \in Identities |-> Nobody]
  /\ tokens = {}
  /\ req = [c \in Clients |-> Idle]

Exists(u) == users[u] # Absent
Active(u) == Exists(u) /\ ~users[u].deleted
NameFree(n) == \A u \in Ids : Exists(u) => users[u].name # n
At(c, pc) == req[c] # Idle /\ req[c].pc = pc
NewAccount(n, p) == [name |-> n, password |-> p, version |-> 1, deleted |-> FALSE]

Goto(c, q) == req' = [req EXCEPT ![c] = q]
Start(c, kind, q) == req[c] = Idle /\ kind \in Kinds /\ Goto(c, q)

-----------------------------------------------------------------------------
(* Getting a token. *)

TokenOf(u, i) == [sub |-> u, version |-> users[u].version,
                  password |-> users[u].password, identity |-> i]
Signing(u, i) == [pc |-> "sign", token |-> TokenOf(u, i)]

\* POST /auth/login with the right password of an account not deleted.
ValidateUser(c) ==
  /\ \E u \in Ids : /\ Active(u) /\ users[u].password # NoPassword
                    /\ Start(c, "login", Signing(u, Nobody))
  /\ UNCHANGED <<users, link, tokens>>

\* The GitLab callback for an identity i whose profile has username n.
ValidateOAuthUser(c) ==
  /\ \E i \in Identities, n \in Names :
       \/ /\ link[i] # Nobody /\ Active(link[i])
          /\ Start(c, "oauth", Signing(link[i], i))
       \/ /\ link[i] = Nobody
          /\ Start(c, "oauth", [pc |-> "pick", identity |-> i, name |-> n])
  /\ UNCHANGED <<users, link, tokens>>

\* The username itself if it is free; else the first candidate, by suffix or
\* by number, that is free when it is asked for.
FindAvailableUsername(c) ==
  /\ \/ /\ At(c, "pick")
        /\ Goto(c, [req[c] EXCEPT !.pc = IF NameFree(req[c].name) THEN "create" ELSE "suffix"])
     \/ /\ At(c, "suffix")
        /\ \E n \in Names \ {req[c].name} :
             /\ NameFree(n)
             /\ Goto(c, [pc |-> "create", identity |-> req[c].identity, name |-> n])
  /\ UNCHANGED <<users, link, tokens>>

\* Mutants: the schema without one of the two unique indexes.
CollidesByName(i, n) == ~NameFree(n)
CollidesByIdentity(i, n) == link[i] # Nobody
\* User.username and AuthProvider (provider, providerId) are unique.
Collides(i, n) == ~NameFree(n) \/ link[i] # Nobody

\* user.create with its authProvider; a collision is caught, the login refused.
Provision(c) ==
  /\ At(c, "create")
  /\ LET i == req[c].identity  n == req[c].name  a == NewAccount(n, NoPassword)
     IN  \/ /\ ~Collides(i, n)
            /\ \E u \in Ids :
                 /\ ~Exists(u)
                 /\ users' = [users EXCEPT ![u] = a]
                 /\ link' = [link EXCEPT ![i] = u]
                 /\ Goto(c, [pc |-> "sign", token |-> [sub |-> u, version |-> a.version,
                                                       password |-> a.password, identity |-> i]])
         \/ /\ Collides(i, n)
            /\ Goto(c, Idle)
            /\ UNCHANGED <<users, link>>
  /\ UNCHANGED <<tokens>>

\* Mutant: login reads the version again when it signs.
LoginRereads(c) ==
  /\ At(c, "sign")
  /\ Cardinality(tokens) < MaxTokens
  /\ tokens' = tokens \cup {[req[c].token EXCEPT !.version = users[req[c].token.sub].version]}
  /\ Goto(c, Idle)
  /\ UNCHANGED <<users, link>>

\* login() signs what the strategy read; GitLab's callback awaits the session first.
Login(c) ==
  /\ At(c, "sign")
  /\ Cardinality(tokens) < MaxTokens
  /\ tokens' = tokens \cup {req[c].token}
  /\ Goto(c, Idle)
  /\ UNCHANGED <<users, link>>

\* A token ends with its expiresIn (or its holder forgets it).
Expire(t) ==
  /\ tokens' = tokens \ {t}
  /\ UNCHANGED <<users, link, req>>

-----------------------------------------------------------------------------
(* Using a token. *)

\* The gateways ask for the version only, the strategy of the routes also for
\* the deletion.
Current(t) == Exists(t.sub) /\ users[t.sub].version = t.version
Accepts(t) == Active(t.sub) /\ users[t.sub].version = t.version

\* POST /users/set-password and /users/change-password, past the guard.
SendPassword(c, t) ==
  /\ Accepts(t)
  /\ \E new \in Passwords :
       \/ Start(c, "set", [pc |-> "find", kind |-> "set", id |-> t.sub,
                           old |-> NoPassword, new |-> new])
       \/ \E old \in Passwords \ {new} :
            Start(c, "change", [pc |-> "find", kind |-> "change", id |-> t.sub,
                                old |-> old, new |-> new])
  /\ UNCHANGED <<users, link, tokens>>

\* set: the account must have no password; change: it must have this one.
FindUser(c) ==
  /\ At(c, "find")
  /\ Goto(c, IF users[req[c].id].password = req[c].old
             THEN [req[c] EXCEPT !.pc = "write"] ELSE Idle)
  /\ UNCHANGED <<users, link, tokens>>

\* Mutant: the sessions go on.
RepasswordOnly(a, p) == [a EXCEPT !.password = p]
\* An account with another password, which ends its sessions.
Repassword(a, p) == [a EXCEPT !.password = p, !.version = @ + 1]

WritePassword(c) ==
  /\ At(c, "write")
  /\ users[req[c].id].version < MaxVersion
  /\ users' = [users EXCEPT ![req[c].id] = Repassword(@, req[c].new)]
  /\ Goto(c, Idle)
  /\ UNCHANGED <<link, tokens>>

-----------------------------------------------------------------------------
(* The administrator's routes. *)

Create(u, n, p) ==
  /\ "create" \in Kinds
  /\ ~Exists(u) /\ NameFree(n)
  /\ users' = [users EXCEPT ![u] = NewAccount(n, p)]
  /\ UNCHANGED <<link, tokens, req>>

\* PATCH with a password, of any account, deleted ones included.  (Without a
\* password it changes the role and the teams only.)
Update(u, p) ==
  /\ "reset" \in Kinds
  /\ Exists(u) /\ users[u].version < MaxVersion
  /\ users' = [users EXCEPT ![u] = Repassword(@, p)]
  /\ UNCHANGED <<link, tokens, req>>

FindToRemove(c, u) ==
  /\ Active(u)
  /\ Start(c, "remove", [pc |-> "remove", id |-> u])
  /\ UNCHANGED <<users, link, tokens>>

\* Mutants: the version stays; the row is made anonymous but not deleted.
RemovedInPlace(a) == [name |-> Retired, password |-> NoPassword,
                      version |-> a.version, deleted |-> TRUE]
RemovedInName(a) == [name |-> Retired, password |-> NoPassword,
                     version |-> a.version + 1, deleted |-> a.deleted]
\* Soft deletion: the name is freed by a suffix no login uses.
Removed(a) == [name |-> Retired, password |-> NoPassword,
               version |-> a.version + 1, deleted |-> TRUE]

Remove(c) ==
  /\ At(c, "remove")
  /\ users[req[c].id].version < MaxVersion
  /\ users' = [users EXCEPT ![req[c].id] = Removed(@)]
  /\ Goto(c, Idle)
  /\ UNCHANGED <<link, tokens>>

\* The process ends: rows and tokens outlive it, requests do not.
Restart ==
  /\ req' = [c \in Clients |-> Idle]
  /\ UNCHANGED <<users, link, tokens>>

-----------------------------------------------------------------------------
Next ==
  \/ \E c \in Clients :
       \/ ValidateUser(c) \/ ValidateOAuthUser(c) \/ FindAvailableUsername(c)
       \/ Provision(c) \/ Login(c)
       \/ FindUser(c) \/ WritePassword(c) \/ Remove(c)
       \/ \E t \in tokens : SendPassword(c, t)
       \/ \E u \in Ids : FindToRemove(c, u)
  \/ \E t \in tokens : Expire(t)
  \/ \E u \in Ids, p \in Passwords : Update(u, p) \/ \E n \in Names : Create(u, n, p)
  \/ Restart

Spec == Init /\ [][Next]_vars

-----------------------------------------------------------------------------
(* Properties. *)

\* Tokens in circulation, and those a login under way is about to sign.
Issued == tokens \cup {req[c].token : c \in {x \in Clients : At(x, "sign")}}

\* An accepted token speaks for the account as it is: the password it has now
\* is the one it had when the token's row was read, and the identity that
\* entered is still its own.  (login reads the row and signs later; see
\* JwtStrategyFastify.validate.)
TokenVouches ==
  \A t \in tokens : Accepts(t) =>
    /\ t.password = users[t.sub].password
    /\ t.identity # Nobody => link[t.identity] = t.sub

\* The gateways need not ask whether the user is deleted: no token of a deleted
\* account has its version, whatever resets and logins overlap with the removal.
RemovedShutOut ==
  \A t \in Issued : Exists(t.sub) /\ users[t.sub].deleted => ~Current(t)

\* Setting, changing or resetting a password, and removing an account, end
\* every session at once, those whose login is still under way included.
\* ("This will invalidate the user's existing sessions", UpdateUserDto.)
ChangeRevokes ==
  [][\A u \in Ids : Exists(u) /\ users'[u] # users[u] =>
       \A t \in Issued' : t.sub = u => ~Accepts(t)']_vars

\* An account that is not deleted can be entered: it has a password, or some
\* identity is linked to it.
Enterable ==
  \A u \in Ids : Active(u) =>
    users[u].password # NoPassword \/ \E i \in Identities : link[i] = u

\* Two accounts never share a username, although provisioning chooses it two
\* queries before it writes.
NamesUnique ==
  \A u, v \in Ids : Exists(u) /\ Exists(v) /\ users[u].name = users[v].name =>
    u = v \/ users[u].name = Retired

\* An identity stays with the account it first got, also when two first logins
\* race or the account is removed: whoever was removed does not come back as new.
IdentityStays ==
  [][\A i \in Identities : link[i] # Nobody => link'[i] = link[i]]_vars
=============================================================================
