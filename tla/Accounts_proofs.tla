-------------------------- MODULE Accounts_proofs --------------------------
(***************************************************************************)
(* What holds of Accounts for all sets of accounts, names, identities and  *)
(* clients, and, in the second half, of the accounts' profile pictures.    *)
(*                                                                         *)
(* The argument about tokens: the row behind a token is Past, that is, its *)
(* version is at most the account's, and equal only while the password is  *)
(* what it was and the account is not deleted.  Every write that changes   *)
(* either counts the version up, so a token becomes older and stays Past;  *)
(* a login under way holds such a row as well.                             *)
(***************************************************************************)
EXTENDS Accounts, PictureState, TLAPS

\* What a request under way may rely on: its account exists.
TargetsExist ==
  \A c \in Clients : At(c, "find") \/ At(c, "write") \/ At(c, "remove") => Exists(req[c].id)

Past(t) ==
  LET a == users[t.sub]
  IN  /\ Exists(t.sub) /\ t.version <= a.version
      /\ t.version = a.version => ~a.deleted /\ a.password = t.password
      /\ t.identity # Nobody => link[t.identity] = t.sub

AllPast == \A t \in Issued : Past(t)

IInv == TypeOK /\ TargetsExist /\ AllPast

-----------------------------------------------------------------------------
(* Requests. *)

LEMMA RequestShapes ==
  ASSUME NEW q \in Request
  PROVE  /\ q.pc \in {"pick", "suffix", "create"} =>
              /\ q.identity \in Identities /\ q.name \in Names
              /\ q \in [pc : {"pick", "suffix", "create"}, identity : Identities, name : Names]
         /\ q.pc = "sign" => q.token \in Token
         /\ q.pc \in {"find", "write"} =>
              /\ q.id \in Ids /\ q.new \in Passwords
              /\ q \in [pc : {"find", "write"}, kind : {"set", "change"}, id : Ids,
                        old : Passwords \cup {NoPassword}, new : Passwords]
         /\ q.pc = "remove" => q.id \in Ids
  BY DEF Request

LEMMA RequestAt ==
  ASSUME TypeOK, NEW c \in Clients, NEW pc, At(c, pc)
  PROVE  req[c] \in Request /\ req[c].pc = pc
  BY DEF TypeOK, At

\* The pc's move within one route keeps the request's shape.
LEMMA NamingMoves ==
  ASSUME NEW q \in [pc : {"pick", "suffix", "create"}, identity : Identities, name : Names],
         NEW n \in Names, NEW pc \in {"suffix", "create"}
  PROVE  /\ [q EXCEPT !.pc = pc] \in Request
         /\ [pc |-> pc, identity |-> q.identity, name |-> n] \in Request
  <1>1. [q EXCEPT !.pc = pc] = [pc |-> pc, identity |-> q.identity, name |-> q.name]
    OBVIOUS
  <1>2. q.identity \in Identities /\ q.name \in Names
    OBVIOUS
  <1> QED
    BY <1>1, <1>2 DEF Request

LEMMA PasswordMoves ==
  ASSUME NEW q \in [pc : {"find", "write"}, kind : {"set", "change"}, id : Ids,
                    old : Passwords \cup {NoPassword}, new : Passwords]
  PROVE  [q EXCEPT !.pc = "write"] \in Request
  <1>1. [q EXCEPT !.pc = "write"]
          = [pc |-> "write", kind |-> q.kind, id |-> q.id, old |-> q.old, new |-> q.new]
    OBVIOUS
  <1> QED
    BY <1>1 DEF Request

LEMMA NewAccountShape ==
  ASSUME NEW n \in Names, NEW p \in Passwords \cup {NoPassword}
  PROVE  NewAccount(n, p) \in Account
  BY DEF NewAccount, Account

LEMMA RemovedShape ==
  ASSUME NEW a \in Account
  PROVE  Removed(a) \in Account /\ Removed(a).version = a.version + 1
  <1>1. a.version + 1 \in Nat
    BY DEF Account
  <1> QED
    BY <1>1 DEF Removed, Account

LEMMA RepasswordShape ==
  ASSUME NEW a \in Account, NEW p \in Passwords
  PROVE  Repassword(a, p) \in Account /\ Repassword(a, p).version = a.version + 1
  <1> DEFINE b == [a EXCEPT !.password = p]
  <1>1. b \in Account /\ b.version = a.version
    BY DEF Account
  <1>2. Repassword(a, p) = [b EXCEPT !.version = b.version + 1]
    BY <1>1 DEF Repassword, Account
  <1>3. b.version + 1 \in Nat
    BY <1>1 DEF Account
  <1> HIDE DEF b
  <1> QED
    BY <1>1, <1>2, <1>3 DEF Account

LEMMA TokenShapes ==
  ASSUME TypeOK, NEW u \in Ids, Exists(u), NEW i \in Identities \cup {Nobody}
  PROVE  TokenOf(u, i) \in Token /\ Signing(u, i) \in Request
  <1>1. users[u] \in Account
    BY DEF TypeOK, Exists
  <1>2. TokenOf(u, i) \in Token
    BY <1>1 DEF TokenOf, Token, Account
  <1> QED
    BY <1>2 DEF Signing, Request

-----------------------------------------------------------------------------
(* Type correctness, and that requests find their account. *)

LEMMA InitInv == Init => IInv
  BY DEF Init, IInv, TypeOK, TargetsExist, AllPast, Issued, At

\* The account a request names.
LEMMA Target ==
  ASSUME TypeOK, TargetsExist, NEW c \in Clients,
         At(c, "find") \/ At(c, "write") \/ At(c, "remove")
  PROVE  /\ req[c].id \in Ids /\ Exists(req[c].id)
         /\ users[req[c].id] \in Account
  <1>1. req[c] \in Request /\ req[c].pc \in {"find", "write", "remove"}
    BY RequestAt DEF At
  <1>2. req[c].id \in Ids
    BY <1>1, RequestShapes
  <1> QED
    BY <1>2 DEF TargetsExist, TypeOK, Exists

LEMMA GotoType ==
  ASSUME TypeOK, NEW c \in Clients, NEW q \in Request \cup {Idle}, Goto(c, q)
  PROVE  req' \in [Clients -> Request \cup {Idle}]
  BY DEF TypeOK, Goto

LEMMA NextType == TypeOK /\ TargetsExist /\ [Next]_vars => TypeOK'
  <1> SUFFICES ASSUME TypeOK, TargetsExist, [Next]_vars
               PROVE  TypeOK'
    OBVIOUS
  <1>1. ASSUME NEW c \in Clients, ValidateUser(c)
        PROVE  TypeOK'
    <2>1. PICK u \in Ids : Active(u) /\ Goto(c, Signing(u, Nobody))
      BY <1>1 DEF ValidateUser, Start
    <2>2. Signing(u, Nobody) \in Request
      BY <2>1, TokenShapes DEF Active
    <2> QED
      BY <1>1, <2>1, <2>2, GotoType DEF ValidateUser, TypeOK
  <1>2. ASSUME NEW c \in Clients, ValidateOAuthUser(c)
        PROVE  TypeOK'
    <2>1. PICK i \in Identities, n \in Names :
            \/ link[i] # Nobody /\ Active(link[i]) /\ Goto(c, Signing(link[i], i))
            \/ Goto(c, [pc |-> "pick", identity |-> i, name |-> n])
      BY <1>2 DEF ValidateOAuthUser, Start
    <2>2. [pc |-> "pick", identity |-> i, name |-> n] \in Request
      BY DEF Request
    <2>3. CASE link[i] # Nobody /\ Active(link[i]) /\ Goto(c, Signing(link[i], i))
      <3>1. link[i] \in Ids
        BY <2>3 DEF TypeOK
      <3>2. Signing(link[i], i) \in Request
        BY <2>3, <3>1, TokenShapes DEF Active
      <3> QED
        BY <1>2, <2>3, <3>2, GotoType DEF ValidateOAuthUser, TypeOK
    <2> QED
      BY <1>2, <2>1, <2>2, <2>3, GotoType DEF ValidateOAuthUser, TypeOK
  <1>3. ASSUME NEW c \in Clients, FindAvailableUsername(c)
        PROVE  TypeOK'
    <2>1. req[c] \in Request /\ req[c].pc \in {"pick", "suffix"}
      BY <1>3, RequestAt DEF FindAvailableUsername
    <2>2. PICK q \in Request : Goto(c, q)
      BY <1>3, <2>1, RequestShapes, NamingMoves DEF FindAvailableUsername
    <2> QED
      BY <1>3, <2>2, GotoType DEF FindAvailableUsername, TypeOK
  <1>4. ASSUME NEW c \in Clients, Provision(c)
        PROVE  TypeOK'
    <2> DEFINE i == req[c].identity
               n == req[c].name
               a == NewAccount(n, NoPassword)
               t(u) == [sub |-> u, version |-> a.version, password |-> a.password, identity |-> i]
    <2>1. i \in Identities /\ n \in Names
      BY <1>4, RequestAt, RequestShapes DEF Provision
    <2>2. a \in Account
      BY <2>1, NewAccountShape
    <2>3. CASE Goto(c, Idle) /\ UNCHANGED <<users, link>>
      BY <1>4, <2>3, GotoType DEF Provision, TypeOK
    <2>4. ASSUME NEW u \in Ids, users' = [users EXCEPT ![u] = a], link' = [link EXCEPT ![i] = u],
                 Goto(c, [pc |-> "sign", token |-> t(u)])
          PROVE  TypeOK'
      <3>1. t(u) \in Token
        BY <2>1, <2>2 DEF Token, Account
      <3>2. [pc |-> "sign", token |-> t(u)] \in Request
        BY <3>1 DEF Request
      <3> HIDE DEF t, a, i
      <3>3. /\ users' \in [Ids -> Account \cup {Absent}]
            /\ link' \in [Identities -> Ids \cup {Nobody}]
        BY <2>1, <2>2, <2>4 DEF TypeOK
      <3> QED
        BY <1>4, <2>4, <3>2, <3>3, GotoType DEF Provision, TypeOK
    <2> QED
      BY <1>4, <2>3, <2>4 DEF Provision
  <1>5. ASSUME NEW c \in Clients, Login(c)
        PROVE  TypeOK'
    <2>1. req[c].token \in Token
      BY <1>5, RequestAt, RequestShapes DEF Login
    <2> QED
      BY <1>5, <2>1, GotoType DEF Login, TypeOK
  <1>6. ASSUME NEW c \in Clients, FindUser(c)
        PROVE  TypeOK'
    <2>1. req[c] \in Request /\ req[c].pc = "find"
      BY <1>6, RequestAt DEF FindUser
    <2>2. [req[c] EXCEPT !.pc = "write"] \in Request
      BY <2>1, RequestShapes, PasswordMoves
    <2> QED
      BY <1>6, <2>2, GotoType DEF FindUser, TypeOK
  <1>7. ASSUME NEW c \in Clients, WritePassword(c)
        PROVE  TypeOK'
    <2> DEFINE a == Repassword(users[req[c].id], req[c].new)
    <2>1. req[c].new \in Passwords
      BY <1>7, RequestAt, RequestShapes DEF WritePassword
    <2>2. a \in Account
      BY <1>7, <2>1, Target, RepasswordShape DEF WritePassword
    <2>3. users' = [users EXCEPT ![req[c].id] = a]
      BY <1>7 DEF WritePassword
    <2> HIDE DEF a
    <2> QED
      BY <1>7, <2>2, <2>3, GotoType DEF WritePassword, TypeOK
  <1>8. ASSUME NEW c \in Clients, Remove(c)
        PROVE  TypeOK'
    <2> DEFINE a == Removed(users[req[c].id])
    <2>1. a \in Account
      BY <1>8, Target, RemovedShape DEF Remove
    <2>2. users' = [users EXCEPT ![req[c].id] = a]
      BY <1>8 DEF Remove
    <2> HIDE DEF a
    <2> QED
      BY <1>8, <2>1, <2>2, GotoType DEF Remove, TypeOK
  <1>9. ASSUME NEW c \in Clients, NEW t \in tokens, SendPassword(c, t)
         PROVE  TypeOK'
    <2>1. PICK q : q \in Request /\ Goto(c, q)
      <3>1. t.sub \in Ids
        BY DEF TypeOK, Token
      <3> QED
        BY <1>9, <3>1 DEF SendPassword, Start, Request
    <2> QED
      BY <1>9, <2>1, GotoType DEF SendPassword, TypeOK
  <1>10. ASSUME NEW c \in Clients, NEW u \in Ids, FindToRemove(c, u)
         PROVE  TypeOK'
    <2>1. [pc |-> "remove", id |-> u] \in Request
      BY DEF Request
    <2> QED
      BY <1>10, <2>1, GotoType DEF FindToRemove, Start, TypeOK
  <1>11. ASSUME NEW t \in tokens, Expire(t)
         PROVE  TypeOK'
    BY <1>11 DEF Expire, TypeOK
  <1>12. ASSUME NEW u \in Ids, NEW p \in Passwords, Update(u, p)
         PROVE  TypeOK'
    <2> DEFINE a == Repassword(users[u], p)
    <2>1. a \in Account
      BY <1>12, RepasswordShape DEF Update, TypeOK, Exists
    <2>2. users' = [users EXCEPT ![u] = a]
      BY <1>12 DEF Update
    <2> HIDE DEF a
    <2> QED
      BY <1>12, <2>1, <2>2 DEF Update, TypeOK
  <1>13. ASSUME NEW u \in Ids, NEW p \in Passwords, NEW n \in Names, Create(u, n, p)
         PROVE  TypeOK'
    <2> DEFINE a == NewAccount(n, p)
    <2>1. a \in Account
      BY NewAccountShape
    <2>2. users' = [users EXCEPT ![u] = a]
      BY <1>13 DEF Create
    <2> HIDE DEF a
    <2> QED
      BY <1>13, <2>1, <2>2 DEF Create, TypeOK
  <1>14. CASE Restart
    BY <1>14 DEF Restart, TypeOK
  <1>15. CASE UNCHANGED vars
    BY <1>15 DEF vars, TypeOK
  <1> QED
    BY <1>1, <1>2, <1>3, <1>4, <1>5, <1>6, <1>7, <1>8, <1>9, <1>10, <1>11,
       <1>12, <1>13, <1>14, <1>15 DEF Next

-----------------------------------------------------------------------------
(* What a step does to the accounts: nothing, or one account is created      *)
(* under a free name, or one gets another password or is removed.            *)

Created(u, n, p) ==
  /\ ~Exists(u) /\ NameFree(n)
  /\ users' = [users EXCEPT ![u] = NewAccount(n, p)]
Linked(u, i) == link[i] = Nobody /\ link' = [link EXCEPT ![i] = u]
Replaced(u, a) ==
  /\ Exists(u) /\ users' = [users EXCEPT ![u] = a] /\ link' = link
  /\ Issued' \subseteq Issued

AccountStep ==
  \/ users' = users /\ link' = link
  \/ \E u \in Ids, n \in Names, i \in Identities : Created(u, n, NoPassword) /\ Linked(u, i)
  \/ \E u \in Ids, n \in Names, p \in Passwords : Created(u, n, p) /\ link' = link
  \/ \E u \in Ids, p \in Passwords : Replaced(u, Repassword(users[u], p))
  \/ \E u \in Ids : Replaced(u, Removed(users[u]))

\* A client's step can add to the tokens issued only the one it is about to sign.
LEMMA IssuedByGoto ==
  ASSUME TypeOK, NEW c \in Clients, NEW q, Goto(c, q), tokens' \subseteq Issued,
         NEW t \in Issued'
  PROVE  t \in Issued \/ (q # Idle /\ q.pc = "sign" /\ t = q.token)
  <1>1. CASE t \in tokens'
    BY <1>1
  <1>2. ASSUME NEW x \in Clients, At(x, "sign")', t = req'[x].token, x # c
        PROVE  t \in Issued
    BY <1>2 DEF TypeOK, Goto, At, Issued
  <1>3. ASSUME At(c, "sign")', t = req'[c].token
        PROVE  q # Idle /\ q.pc = "sign" /\ t = q.token
    BY <1>3 DEF TypeOK, Goto, At
  <1> QED
    BY <1>1, <1>2, <1>3 DEF Issued

LEMMA IssuedTyped == TypeOK => Issued \subseteq Token
  BY RequestAt, RequestShapes DEF TypeOK, Issued

LEMMA StepsOnAccounts == TypeOK /\ TargetsExist /\ [Next]_vars => AccountStep
  <1> SUFFICES ASSUME TypeOK, TargetsExist, [Next]_vars
               PROVE  AccountStep
    OBVIOUS
  <1>1. ASSUME NEW c \in Clients, Provision(c)
        PROVE  AccountStep
    <2>1. req[c].identity \in Identities /\ req[c].name \in Names
      BY <1>1, RequestAt, RequestShapes DEF Provision
    <2> QED
      BY <1>1, <2>1 DEF Provision, Collides, AccountStep, Created, Linked
  <1>2. ASSUME NEW c \in Clients, WritePassword(c)
        PROVE  AccountStep
    <2>1. req[c].id \in Ids /\ req[c].new \in Passwords /\ Exists(req[c].id)
      BY <1>2, Target, RequestAt, RequestShapes DEF WritePassword
    <2>2. Issued' \subseteq Issued
      BY <1>2, IssuedByGoto DEF WritePassword, Issued
    <2> QED
      BY <1>2, <2>1, <2>2 DEF WritePassword, AccountStep, Replaced
  <1>3. ASSUME NEW c \in Clients, Remove(c)
        PROVE  AccountStep
    <2>1. req[c].id \in Ids /\ Exists(req[c].id)
      BY <1>3, Target DEF Remove
    <2>2. Issued' \subseteq Issued
      BY <1>3, IssuedByGoto DEF Remove, Issued
    <2> QED
      BY <1>3, <2>1, <2>2 DEF Remove, AccountStep, Replaced
  <1>4. ASSUME NEW u \in Ids, NEW p \in Passwords, Update(u, p)
        PROVE  AccountStep
    BY <1>4 DEF Update, AccountStep, Replaced, Issued, At
  <1>5. ASSUME NEW u \in Ids, NEW p \in Passwords, NEW n \in Names, Create(u, n, p)
        PROVE  AccountStep
    BY <1>5 DEF Create, AccountStep, Created
  <1>6. ASSUME users' = users, link' = link
        PROVE  AccountStep
    BY <1>6 DEF AccountStep
  <1> QED
    BY <1>1, <1>2, <1>3, <1>4, <1>5, <1>6
    DEF Next, vars, ValidateUser, ValidateOAuthUser, FindAvailableUsername, Login,
        FindUser, SendPassword, FindToRemove,
        Expire, Restart

\* Accounts stay; when one changes, its version rises, and the links stay.
LEMMA AccountsGrow ==
  ASSUME TypeOK, AccountStep
  PROVE  /\ \A u \in Ids : Exists(u) =>
              Exists(u)' /\ (users'[u] = users[u] \/ users'[u].version > users[u].version)
         /\ \A i \in Identities : link[i] # Nobody => link'[i] = link[i]
  <1>1. ASSUME NEW u \in Ids, NEW n \in Names, NEW p, Created(u, n, p)
        PROVE  \A v \in Ids : Exists(v) => Exists(v)' /\ users'[v] = users[v]
    BY <1>1 DEF Created, TypeOK, Exists
  <1>2. ASSUME NEW u \in Ids, NEW a \in Account, a.version = users[u].version + 1,
               Replaced(u, a)
        PROVE  \A v \in Ids : Exists(v) =>
                 Exists(v)' /\ (users'[v] = users[v] \/ users'[v].version > users[v].version)
    <2>1. a # Absent
      BY MoreNullsAssumption
    <2>2. users[u] \in Account /\ users[u].version \in Nat
      BY <1>2 DEF Replaced, TypeOK, Exists, Account
    <2> QED
      BY <1>2, <2>1, <2>2 DEF Replaced, TypeOK, Exists
  <1>3. ASSUME NEW u \in Ids, NEW p \in Passwords, Replaced(u, Repassword(users[u], p))
        PROVE  Repassword(users[u], p) \in Account
                 /\ Repassword(users[u], p).version = users[u].version + 1
    BY <1>3, RepasswordShape DEF Replaced, TypeOK, Exists
  <1>4. ASSUME NEW u \in Ids, Replaced(u, Removed(users[u]))
        PROVE  Removed(users[u]) \in Account
                 /\ Removed(users[u]).version = users[u].version + 1
    BY <1>4, RemovedShape DEF Replaced, TypeOK, Exists
  <1>5. \A i \in Identities : link[i] # Nobody => link'[i] = link[i]
    BY DEF AccountStep, Linked, Replaced, TypeOK
  <1> DEFINE Grow == \A u \in Ids : Exists(u) =>
               Exists(u)' /\ (users'[u] = users[u] \/ users'[u].version > users[u].version)
  <1>6. ASSUME users' = users
        PROVE  Grow
    BY <1>6 DEF Exists
  <1>7. ASSUME NEW u \in Ids, NEW n \in Names, NEW p, Created(u, n, p)
        PROVE  Grow
    BY <1>7, <1>1
  <1>8. ASSUME NEW u \in Ids, NEW p \in Passwords, Replaced(u, Repassword(users[u], p))
        PROVE  Grow
    <2> HIDE DEF Grow
    <2>1. \A v \in Ids : Exists(v) =>
            Exists(v)' /\ (users'[v] = users[v] \/ users'[v].version > users[v].version)
      BY <1>8, <1>2, <1>3
    <2> QED
      BY <2>1 DEF Grow
  <1>9. ASSUME NEW u \in Ids, Replaced(u, Removed(users[u]))
        PROVE  Grow
    <2> HIDE DEF Grow
    <2>1. \A v \in Ids : Exists(v) =>
            Exists(v)' /\ (users'[v] = users[v] \/ users'[v].version > users[v].version)
      BY <1>9, <1>2, <1>4
    <2> QED
      BY <2>1 DEF Grow
  <1>10. Grow
    <2> HIDE DEF Grow
    <2> QED
      BY <1>6, <1>7, <1>8, <1>9 DEF AccountStep
  <1> QED
    BY <1>5, <1>10

LEMMA NextTargets == TypeOK /\ TargetsExist /\ [Next]_vars => TargetsExist'
  <1> SUFFICES ASSUME TypeOK, TargetsExist, [Next]_vars, NEW c \in Clients,
                      At(c, "find")' \/ At(c, "write")' \/ At(c, "remove")'
               PROVE  Exists(req[c].id)'
    BY DEF TargetsExist
  <1>1. AccountStep
    BY StepsOnAccounts
  <1>2. \A u \in Ids : Exists(u) => Exists(u)'
    BY <1>1, AccountsGrow
  <1>3. TypeOK'
    BY NextType
  <1>4. req'[c] \in Request /\ req'[c].pc \in {"find", "write", "remove"} /\ req'[c].id \in Ids
    BY <1>3, RequestShapes DEF TypeOK, At
  <1>5. SUFFICES Exists(req'[c].id)
    BY <1>2, <1>4 DEF Exists
  <1>6. CASE req'[c] = req[c]
    BY <1>6 DEF TargetsExist, At
  <1>7. ASSUME NEW x \in Clients, NEW q, Goto(x, q), req'[c] # req[c]
        PROVE  req'[c] = q
    BY <1>7 DEF Goto, TypeOK
  <1>8. ASSUME NEW x \in Clients, FindUser(x), req'[c] # req[c]
        PROVE  Exists(req'[c].id)
    <2>1. x = c /\ req'[c] = [req[c] EXCEPT !.pc = "write"] /\ At(c, "find")
      BY <1>8, <1>4, MoreNullsAssumption DEF FindUser, Goto, TypeOK
    <2>2. req'[c].id = req[c].id
      BY <2>1, RequestAt, RequestShapes
    <2> QED
      BY <2>1, <2>2, Target
  <1>9. ASSUME NEW x \in Clients, NEW t \in tokens, SendPassword(x, t), req'[c] # req[c]
        PROVE  Exists(req'[c].id)
    <2>1. PICK kind, new, old :
            Goto(x, [pc |-> "find", kind |-> kind, id |-> t.sub, old |-> old, new |-> new])
      BY <1>9 DEF SendPassword, Start
    <2>2. req'[c].id = t.sub
      BY <1>9, <2>1, <1>7
    <2> QED
      BY <1>9, <2>2 DEF SendPassword, Accepts, Active
  <1>10. ASSUME NEW x \in Clients, NEW u \in Ids, FindToRemove(x, u), req'[c] # req[c]
         PROVE  Exists(req'[c].id)
    BY <1>10, <1>7 DEF FindToRemove, Start, Active
  <1>11. ASSUME NEW x \in Clients, NEW q, Goto(x, q),
                q = Idle \/ q.pc \in {"pick", "suffix", "create", "sign"}
         PROVE  Exists(req'[c].id)
    BY <1>11, <1>6, <1>7, <1>4, MoreNullsAssumption
  <1>12. ASSUME NEW x \in Clients,
                \/ ValidateUser(x) \/ ValidateOAuthUser(x) \/ FindAvailableUsername(x)
                \/ Provision(x) \/ Login(x) \/ WritePassword(x) \/ Remove(x)
         PROVE  Exists(req'[c].id)
    <2>1. ASSUME At(x, "pick")
          PROVE  \A pc : [req[x] EXCEPT !.pc = pc].pc = pc
      BY <2>1, RequestAt DEF Request
    <2>2. CASE FindAvailableUsername(x)
      BY <2>1, <2>2, <1>11 DEF FindAvailableUsername
    <2>3. CASE ValidateUser(x) \/ ValidateOAuthUser(x)
      BY <2>3, <1>11 DEF ValidateUser, ValidateOAuthUser, Start, Signing
    <2>4. CASE Provision(x)
      BY <2>4, <1>11 DEF Provision
    <2> QED
      BY <1>12, <1>11, <2>2, <2>3, <2>4 DEF Login, WritePassword, Remove
  <1>13. CASE Restart
    BY <1>13, <1>4, MoreNullsAssumption DEF Restart
  <1>14. CASE req' = req
    BY <1>14, <1>6
  <1> QED
    BY <1>6, <1>8, <1>9, <1>10, <1>12, <1>13, <1>14
    DEF Next, vars, Expire, Update, Create

-----------------------------------------------------------------------------
(* Tokens stay Past. *)

\* What was past before a step is past after it.
LEMMA PastStaysPast ==
  ASSUME TypeOK, TypeOK', AccountStep, NEW t \in Token, Past(t)
  PROVE  Past(t)'
  <1>1. t.sub \in Ids /\ t.version \in Nat /\ t.identity \in Identities \cup {Nobody}
    BY DEF Token
  <1>2. users[t.sub] \in Account /\ users'[t.sub] \in Account /\ Exists(t.sub)'
    BY <1>1, AccountsGrow DEF Past, TypeOK, Exists
  <1>3. users[t.sub].version \in Nat /\ users'[t.sub].version \in Nat
    BY <1>2 DEF Account
  <1>4. users'[t.sub] = users[t.sub] \/ users'[t.sub].version > users[t.sub].version
    BY <1>1, AccountsGrow DEF Past
  <1>5. t.identity # Nobody => link'[t.identity] = t.sub
    BY <1>1, AccountsGrow, NullAssumption DEF Past
  <1>6. CASE users'[t.sub] = users[t.sub]
    BY <1>2, <1>5, <1>6 DEF Past
  <1>7. CASE users'[t.sub].version > users[t.sub].version
    BY <1>1, <1>2, <1>3, <1>5, <1>7 DEF Past
  <1> QED
    BY <1>4, <1>6, <1>7

\* A token made of an active account's row is past already.
LEMMA FreshIsPast ==
  ASSUME TypeOK, NEW u \in Ids, Active(u), NEW i \in Identities \cup {Nobody},
         i # Nobody => link[i] = u
  PROVE  Past(TokenOf(u, i))
  <1>1. users[u] \in Account
    BY DEF TypeOK, Active, Exists
  <1>2. users[u].version \in Nat
    BY <1>1 DEF Account
  <1> QED
    BY <1>2 DEF Past, TokenOf, Active

\* What a step adds to the tokens issued is past after it.
LEMMA NewIsPast ==
  ASSUME TypeOK, TypeOK', TargetsExist, [Next]_vars, NEW t \in Issued'
  PROVE  t \in Issued \/ Past(t)'
  <1> SUFFICES ASSUME t \notin Issued
               PROVE  Past(t)'
    OBVIOUS
  <1>1. ASSUME NEW c \in Clients, ValidateUser(c)
        PROVE  Past(t)'
    <2>1. PICK u \in Ids : Active(u) /\ Goto(c, Signing(u, Nobody))
      BY <1>1 DEF ValidateUser, Start
    <2>2. t = TokenOf(u, Nobody)
      BY <1>1, <2>1, IssuedByGoto DEF ValidateUser, Issued, Signing
    <2> QED
      BY <1>1, <2>1, <2>2, FreshIsPast DEF ValidateUser, Past, Exists
  <1>2. ASSUME NEW c \in Clients, ValidateOAuthUser(c)
        PROVE  Past(t)'
    <2>1. PICK i \in Identities, n \in Names :
            \/ link[i] # Nobody /\ Active(link[i]) /\ Goto(c, Signing(link[i], i))
            \/ Goto(c, [pc |-> "pick", identity |-> i, name |-> n])
      BY <1>2 DEF ValidateOAuthUser, Start
    <2>2. tokens' \subseteq Issued
      BY <1>2 DEF ValidateOAuthUser, Issued
    <2>3. link[i] # Nobody /\ Active(link[i]) /\ t = TokenOf(link[i], i)
      BY <2>1, <2>2, IssuedByGoto DEF Signing
    <2>4. Past(t)
      BY <2>3, FreshIsPast DEF TypeOK
    <2> QED
      BY <1>2, <2>4 DEF ValidateOAuthUser, Past, Exists
  <1>3. ASSUME NEW c \in Clients, Provision(c)
        PROVE  Past(t)'
    <2> DEFINE i == req[c].identity
               n == req[c].name
               a == NewAccount(n, NoPassword)
               s(u) == [sub |-> u, version |-> a.version, password |-> a.password, identity |-> i]
    <2>1. i \in Identities /\ n \in Names
      BY <1>3, RequestAt, RequestShapes DEF Provision
    <2>2. tokens' \subseteq Issued
      BY <1>3 DEF Provision, Issued
    <2>3. PICK u \in Ids : /\ users' = [users EXCEPT ![u] = a]
                           /\ link' = [link EXCEPT ![i] = u]
                           /\ Goto(c, [pc |-> "sign", token |-> s(u)])
      BY <1>3, <2>2, IssuedByGoto DEF Provision
    <2>4. t = s(u)
      BY <2>2, <2>3, IssuedByGoto
    <2>5. users'[u] = a /\ link'[i] = u
      BY <2>1, <2>3 DEF TypeOK
    <2>6. a # Absent
      BY <2>1, NewAccountShape, MoreNullsAssumption
    <2> QED
      BY <2>4, <2>5, <2>6 DEF Past, Exists, NewAccount
  <1>4. ASSUME NEW c \in Clients, FindAvailableUsername(c)
        PROVE  FALSE
    <2>1. tokens' \subseteq Issued
      BY <1>4 DEF FindAvailableUsername, Issued
    <2>2. ASSUME NEW q, Goto(c, q), q.pc # "sign"
          PROVE  FALSE
      BY <2>1, <2>2, IssuedByGoto
    <2>3. CASE At(c, "pick")
      <3> DEFINE pc == IF NameFree(req[c].name) THEN "create" ELSE "suffix"
                 q == [req[c] EXCEPT !.pc = pc]
      <3>1. q.pc = pc /\ pc # "sign"
        BY <2>3, RequestAt DEF Request
      <3>2. Goto(c, q)
        BY <1>4, <2>3 DEF FindAvailableUsername, At
      <3> QED
        BY <2>2, <3>1, <3>2
    <2>4. CASE At(c, "suffix")
      <3>1. PICK n \in Names :
              Goto(c, [pc |-> "create", identity |-> req[c].identity, name |-> n])
        BY <1>4, <2>4 DEF FindAvailableUsername, At
      <3> QED
        BY <2>2, <3>1
    <2> QED
      BY <1>4, <2>3, <2>4 DEF FindAvailableUsername
  <1>5. ASSUME NEW c \in Clients, Login(c) \/ WritePassword(c) \/ Remove(c)
        PROVE  FALSE
    <2>1. Goto(c, Idle) /\ tokens' \subseteq Issued
      BY <1>5 DEF Login, WritePassword, Remove, Issued
    <2> QED
      BY <2>1, IssuedByGoto
  <1>6. ASSUME NEW c \in Clients, FindUser(c)
        PROVE  FALSE
    <2>1. tokens' \subseteq Issued /\ At(c, "find")
      BY <1>6 DEF FindUser, Issued
    <2>2. [req[c] EXCEPT !.pc = "write"].pc = "write"
      BY <2>1, RequestAt, RequestShapes
    <2> QED
      BY <1>6, <2>1, <2>2, IssuedByGoto DEF FindUser
  <1>7. ASSUME NEW c \in Clients, NEW x \in tokens, SendPassword(c, x)
        PROVE  FALSE
    <2>1. PICK kind, new, old :
            Goto(c, [pc |-> "find", kind |-> kind, id |-> x.sub, old |-> old, new |-> new])
      BY <1>7 DEF SendPassword, Start
    <2>2. tokens' \subseteq Issued
      BY <1>7 DEF SendPassword, Issued
    <2> QED
      BY <2>1, <2>2, IssuedByGoto
  <1>8. ASSUME NEW c \in Clients, NEW u \in Ids, FindToRemove(c, u)
        PROVE  FALSE
    <2>1. Goto(c, [pc |-> "remove", id |-> u]) /\ tokens' \subseteq Issued
      BY <1>8 DEF FindToRemove, Start, Issued
    <2> QED
      BY <2>1, IssuedByGoto
  <1>9. ASSUME tokens' \subseteq tokens, req' = req
        PROVE  FALSE
    BY <1>9 DEF Issued, At
  <1>10. CASE Restart
    BY <1>10 DEF Restart, Issued, At
  <1> QED
    BY <1>1, <1>2, <1>3, <1>4, <1>5, <1>6, <1>7, <1>8, <1>9, <1>10
    DEF Next, vars, Expire, Update, Create

LEMMA NextInv == IInv /\ [Next]_vars => IInv'
  <1> SUFFICES ASSUME IInv, [Next]_vars
               PROVE  IInv'
    OBVIOUS
  <1>1. TypeOK' /\ TargetsExist' /\ AccountStep
    BY NextType, NextTargets, StepsOnAccounts DEF IInv
  <1>2. ASSUME NEW t \in Issued'
        PROVE  Past(t)'
    <2>1. CASE t \in Issued
      BY <1>1, <2>1, IssuedTyped, PastStaysPast DEF IInv, AllPast
    <2> QED
      BY <1>1, <2>1, NewIsPast DEF IInv
  <1> QED
    BY <1>1, <1>2 DEF IInv, AllPast

LEMMA InvHolds == Spec => []IInv
  BY InitInv, NextInv, PTL DEF Spec

-----------------------------------------------------------------------------
(* The theorems. *)

\* Accounts, links, tokens and requests keep their types.
THEOREM TypeCorrect == Spec => []TypeOK
  <1>1. IInv => TypeOK
    BY DEF IInv
  <1> QED
    BY <1>1, InvHolds, PTL

\* An accepted token speaks for the account as it is: neither its password nor
\* the identity behind it has changed since the row was read (JwtStrategyFastify).
THEOREM TokensVouch == Spec => []TokenVouches
  <1>1. IInv => TokenVouches
    BY DEF IInv, AllPast, Issued, TokenVouches, Accepts, Past
  <1> QED
    BY <1>1, InvHolds, PTL

\* No token of a deleted account has its version, so the gateways' check,
\* which leaves deletion out, refuses all of them.
THEOREM RemovedAreShutOut == Spec => []RemovedShutOut
  <1>1. IInv => RemovedShutOut
    BY DEF IInv, AllPast, RemovedShutOut, Current, Past
  <1> QED
    BY <1>1, InvHolds, PTL

\* A new password, or the removal, ends every session of the account at once,
\* those whose login is under way included (UsersService, AdminUsersService).
THEOREM ChangesRevoke == Spec => ChangeRevokes
  <1>1. ASSUME IInv, [Next]_vars, NEW u \in Ids, Exists(u), users'[u] # users[u],
               NEW t \in Issued', t.sub = u
        PROVE  ~Accepts(t)'
    <2>1. AccountStep /\ TypeOK'
      BY <1>1, StepsOnAccounts, NextType DEF IInv
    <2>2. Issued' \subseteq Issued
      <3>1. ASSUME NEW v \in Ids, NEW n, NEW p, Created(v, n, p)
            PROVE  FALSE
        BY <1>1, <3>1 DEF Created, TypeOK, IInv
      <3>2. ASSUME NEW v, NEW a, Replaced(v, a)
            PROVE  Issued' \subseteq Issued
        BY <3>2 DEF Replaced
      <3> QED
        BY <1>1, <2>1, <3>1, <3>2 DEF AccountStep
    <2>3. t \in Token /\ t.version \in Nat /\ t.version <= users[u].version
      BY <1>1, <2>2, IssuedTyped DEF IInv, AllPast, Past, Token
    <2>4. users[u] \in Account /\ users'[u] \in Account
      BY <1>1, <2>1, AccountsGrow DEF IInv, TypeOK, Exists
    <2>5. users'[u].version > users[u].version
      BY <1>1, <2>1, AccountsGrow DEF IInv
    <2>6. users[u].version \in Nat /\ users'[u].version \in Nat
      BY <2>4 DEF Account
    <2>7. users'[u].version # t.version
      BY <2>3, <2>5, <2>6
    <2> QED
      BY <1>1, <2>7 DEF Accepts
  <1>2. IInv /\ [Next]_vars =>
          [\A u \in Ids : Exists(u) /\ users'[u] # users[u] =>
             \A t \in Issued' : t.sub = u => ~Accepts(t)']_vars
    BY <1>1
  <1> QED
    BY <1>2, InvHolds, PTL DEF Spec, ChangeRevokes

\* Usernames stay unique, although provisioning chooses one two queries before
\* it writes (findAvailableUsername, admin create).
THEOREM NamesAreUnique == Spec => []NamesUnique
  <1>1. Init => NamesUnique
    BY DEF Init, NamesUnique, Exists
  <1>2. IInv /\ NamesUnique /\ [Next]_vars => NamesUnique'
    <2> SUFFICES ASSUME IInv, NamesUnique, [Next]_vars
                 PROVE  NamesUnique'
      OBVIOUS
    <2>1. AccountStep /\ TypeOK
      BY StepsOnAccounts DEF IInv
    <2>2. CASE users' = users
      BY <2>2 DEF NamesUnique, Exists
    <2>3. ASSUME NEW u \in Ids, NEW n \in Names, NEW p, Created(u, n, p)
          PROVE  NamesUnique'
      <3>1. NewAccount(n, p).name = n
        BY DEF NewAccount
      <3> QED
        BY <2>1, <2>3, <3>1 DEF Created, NameFree, NamesUnique, Exists, TypeOK
    <2>4. ASSUME NEW u \in Ids, NEW a, Replaced(u, a), a.name \in {users[u].name, Retired}
          PROVE  NamesUnique'
      BY <2>1, <2>4 DEF Replaced, NamesUnique, Exists, TypeOK
    <2>5. ASSUME NEW u \in Ids, NEW p \in Passwords, Replaced(u, Repassword(users[u], p))
          PROVE  Repassword(users[u], p).name = users[u].name
      BY <2>1, <2>5 DEF Repassword, Replaced, TypeOK, Exists, Account
    <2>6. ASSUME NEW u \in Ids
          PROVE  Removed(users[u]).name = Retired
      BY DEF Removed
    <2> QED
      BY <2>1, <2>2, <2>3, <2>4, <2>5, <2>6 DEF AccountStep
  <1> QED
    BY <1>1, <1>2, InvHolds, PTL DEF Spec

\* An identity stays with the account it first got (validateOAuthUser).
THEOREM IdentitiesStay == Spec => IdentityStays
  <1>1. IInv /\ [Next]_vars =>
          [\A i \in Identities : link[i] # Nobody => link'[i] = link[i]]_vars
    BY StepsOnAccounts, AccountsGrow DEF IInv
  <1> QED
    BY <1>1, InvHolds, PTL DEF Spec, IdentityStays

\* Every account not deleted has a password or a linked identity, so nobody is
\* locked out by a provisioning, a reset or a removal that overlaps with others.
THEOREM AccountsAreEnterable == Spec => []Enterable
  <1>1. Init => Enterable
    BY DEF Init, Enterable, Active, Exists
  <1>2. IInv /\ Enterable /\ [Next]_vars => Enterable'
    <2> SUFFICES ASSUME IInv, Enterable, [Next]_vars, NEW v \in Ids, Active(v)',
                        users'[v].password = NoPassword
                 PROVE  \E i \in Identities : link'[i] = v
      BY DEF Enterable
    <2>1. AccountStep /\ TypeOK
      BY StepsOnAccounts DEF IInv
    <2>2. ASSUME Active(v), users'[v].password = users[v].password
          PROVE  \E i \in Identities : link'[i] = v
      <3>1. PICK i \in Identities : link[i] = v
        BY <2>2 DEF Enterable
      <3>2. link'[i] = v
        BY <2>1, <3>1, AccountsGrow, NullAssumption
      <3> QED
        BY <3>2
    <2>3. ASSUME users' = users
          PROVE  \E i \in Identities : link'[i] = v
      BY <2>2, <2>3 DEF Active, Exists
    <2>4. ASSUME NEW u \in Ids, NEW n \in Names, NEW i \in Identities,
                 Created(u, n, NoPassword), Linked(u, i)
          PROVE  \E j \in Identities : link'[j] = v
      BY <2>1, <2>2, <2>4 DEF Created, Linked, TypeOK, Active, Exists
    <2>5. ASSUME NEW u \in Ids, NEW n \in Names, NEW p \in Passwords, Created(u, n, p)
          PROVE  \E i \in Identities : link'[i] = v
      <3>1. NewAccount(n, p).password # NoPassword
        BY NullAssumption DEF NewAccount
      <3> QED
        BY <2>1, <2>2, <2>5, <3>1 DEF Created, TypeOK, Active, Exists
    <2>6. ASSUME NEW u \in Ids, NEW p \in Passwords, Replaced(u, Repassword(users[u], p))
          PROVE  \E i \in Identities : link'[i] = v
      <3>1. Repassword(users[u], p).password # NoPassword
        BY <2>1, <2>6, NullAssumption DEF Repassword, Replaced, TypeOK, Exists, Account
      <3> HIDE DEF Repassword
      <3> QED
        BY <2>1, <2>2, <2>6, <3>1 DEF Replaced, TypeOK, Active, Exists
    <2>7. ASSUME NEW u \in Ids, Replaced(u, Removed(users[u]))
          PROVE  \E i \in Identities : link'[i] = v
      <3>1. Removed(users[u]).deleted
        BY DEF Removed
      <3> HIDE DEF Removed
      <3> QED
        BY <2>1, <2>2, <2>7, <3>1 DEF Replaced, TypeOK, Active, Exists
    <2> QED
      BY <2>1, <2>3, <2>4, <2>5, <2>6, <2>7 DEF AccountStep
  <1> QED
    BY <1>1, <1>2, InvHolds, PTL DEF Spec

-----------------------------------------------------------------------------
(***************************************************************************)
(* Profile pictures: what holds of ProfilePictures for all sets of users   *)
(* and uploads.                                                            *)
(*                                                                         *)
(* A name given once belongs to one request, and then to one row: nobody   *)
(* but those who replace that row's picture unlinks it.  A picture that is *)
(* missing is about to be replaced, by a request that has unlinked it and  *)
(* writes the row next, unless that request failed or was cut off.         *)
(***************************************************************************)
Pic == INSTANCE ProfilePictures

\* The absent picture is none of the paths.
LEMMA NoPicture == None \notin Users \cup Pic!Path
  BY NoneAssumption DEF Path, Pic!Path

\* What a request knows at each point.
RequestsKnow ==
  \A r \in Requests :
    /\ Pic!InProgress(r) => upload[r].user \in Users
    /\ upload[r].pc \in {"new", "uploaded", "done"} => upload[r].new = None /\ upload[r].old = None
    /\ upload[r].pc \notin {"new", "uploaded", "done"} =>
         upload[r].new \in Pic!Path /\ upload[r].new.user = upload[r].user
    /\ upload[r].pc = "clean" => upload[r].old # None
    /\ upload[r].old # None => upload[r].old.user = upload[r].user
    /\ upload[r].pc = "undo" => upload[r].user \in cut

PicturesOwn == \A u \in Users : picture[u] # None => picture[u].user = u

\* Every name in use has been given.
AllGiven ==
  /\ \A r \in Requests : upload[r].new \in given \cup {None} /\ upload[r].old \in given \cup {None}
  /\ \A u \in Users : picture[u] \in given \cup {None}

\* A name not shared is one request's, and no row has it yet.
Distinct ==
  \A r \in Requests : upload[r].new # None /\ upload[r].new \notin shared =>
    /\ \A x \in Requests : upload[x].old # upload[r].new /\ (x # r => upload[x].new # upload[r].new)
    /\ \A u \in Users : picture[u] # upload[r].new

\* What was moved is there, unless it has a name that was given to another.
Moved ==
  \A r \in Requests : upload[r].pc \in {"clean", "row"} =>
    upload[r].new \in avatars \/ (destination = Pic!AtRoot /\ upload[r].new \in shared)

\* Who is about to write the row whose picture he has unlinked.
Replaces(r, u) == upload[r].pc = "row" /\ upload[r].user = u /\ upload[r].old = picture[u]
Missing ==
  \A u \in Users :
    \/ picture[u] \in avatars \cup {None}
    \/ /\ destination = Pic!AtRoot
       /\ u \in cut \/ picture[u] \in shared \/ \E r \in Requests : Replaces(r, u)

Naming == RequestsKnow /\ PicturesOwn /\ AllGiven /\ Distinct
Files == Moved /\ Missing
PicturesInv == Pic!TypeOK /\ Naming /\ Files

-----------------------------------------------------------------------------
(* Uploads. *)

Pcs == {"new", "uploaded", "move", "clean", "row", "undo", "done"}

LEMMA MovesOn ==
  ASSUME Pic!TypeOK, NEW r \in Requests, NEW pc \in Pcs, Pic!Goto(r, pc)
  PROVE  /\ upload' \in [Requests -> Pic!Request]
         /\ upload'[r].pc = pc /\ upload'[r].op = upload[r].op /\ upload'[r].user = upload[r].user
         /\ upload'[r].old = upload[r].old /\ upload'[r].new = upload[r].new
         /\ \A x \in Requests \ {r} : upload'[x] = upload[x]
  <1> DEFINE q == [upload[r] EXCEPT !.pc = pc]
  <1>1. /\ q \in Pic!Request /\ q.pc = pc /\ q.op = upload[r].op /\ q.user = upload[r].user
        /\ q.old = upload[r].old /\ q.new = upload[r].new
    BY DEF Pic!TypeOK, Pic!Request, Pcs
  <1>2. upload' = [upload EXCEPT ![r] = q]
    BY DEF Pic!Goto
  <1> HIDE DEF q
  <1> QED
    BY <1>1, <1>2 DEF Pic!TypeOK

LEMMA Blanks ==
  ASSUME NEW pc \in Pcs
  PROVE  /\ Pic!Blank(pc) \in Pic!Request /\ Pic!Blank(pc).pc = pc /\ Pic!Blank(pc).user = None
         /\ Pic!Blank(pc).old = None /\ Pic!Blank(pc).new = None
  BY DEF Pic!Blank, Pic!Request, Pcs

LEMMA Ends ==
  ASSUME Pic!TypeOK, NEW r \in Requests, Pic!Done(r)
  PROVE  /\ upload' \in [Requests -> Pic!Request]
         /\ upload'[r].pc = "done" /\ upload'[r].user = None /\ upload'[r].old = None /\ upload'[r].new = None
         /\ \A x \in Requests \ {r} : upload'[x] = upload[x]
  <1>1. "done" \in Pcs
    BY DEF Pcs
  <1> QED
    BY <1>1, Blanks DEF Pic!Done, Pic!TypeOK

LEMMA InterceptEffect ==
  ASSUME Pic!TypeOK, NEW r \in Requests, NEW op \in {"create", "update"}, NEW u \in Users, Pic!Intercept(r, op, u)
  PROVE  /\ upload' \in [Requests -> Pic!Request]
         /\ upload'[r].pc = "uploaded" /\ upload'[r].user = u /\ upload'[r].old = None /\ upload'[r].new = None
         /\ \A x \in Requests \ {r} : upload'[x] = upload[x]
  <1> DEFINE q == [pc |-> "uploaded", op |-> op, user |-> u, old |-> None, new |-> None]
  <1>1. q \in Pic!Request /\ q.pc = "uploaded" /\ q.user = u /\ q.old = None /\ q.new = None
    BY DEF Pic!Request
  <1>2. upload' = [upload EXCEPT ![r] = q]
    BY DEF Pic!Intercept
  <1> HIDE DEF q
  <1> QED
    BY <1>1, <1>2 DEF Pic!TypeOK

\* A request gets its name, and the picture it replaces if there is one.
LEMMA FindUserEffect ==
  ASSUME Pic!TypeOK, RequestsKnow, NEW r \in Requests, Pic!FindUser(r)
  PROVE  /\ upload' \in [Requests -> Pic!Request]
         /\ upload'[r].pc = "move" /\ upload'[r].user = upload[r].user /\ upload[r].user \in Users
         /\ upload'[r].new \in Pic!Path /\ upload'[r].new.user = upload[r].user
         /\ upload'[r].old \in {None, picture[upload[r].user]}
         /\ given' = given \cup {upload'[r].new}
         /\ shared' = shared \cup (given \cap {upload'[r].new})
         /\ \A x \in Requests \ {r} : upload'[x] = upload[x]
         /\ UNCHANGED <<destination, taken, picture, avatars, tmp, now, cut>>
  <1> DEFINE new == Pic!NameNow(r)
             old == IF upload[r].op = "create" THEN None ELSE picture[upload[r].user]
             q == [pc |-> "move", op |-> upload[r].op, user |-> upload[r].user, old |-> old, new |-> new]
  <1>1. upload[r].user \in Users
    BY DEF Pic!FindUser, Pic!At, RequestsKnow, Pic!InProgress
  <1>2. new \in Pic!Path /\ new.user = upload[r].user
    BY <1>1 DEF Pic!NameNow, Pic!Path, Pic!TypeOK
  <1>3. old \in {None, picture[upload[r].user]} /\ old \in Pic!Path \cup {None}
    BY <1>1 DEF Pic!TypeOK
  <1>4. /\ upload' = [upload EXCEPT ![r] = q]
        /\ given' = given \cup {new} /\ shared' = shared \cup (given \cap {new})
        /\ UNCHANGED <<destination, taken, picture, avatars, tmp, now, cut>>
    BY DEF Pic!FindUser, Pic!rowVars, Pic!fileVars
  <1>5. upload[r].op \in {"create", "update"}
    BY DEF Pic!TypeOK, Pic!Request
  <1> HIDE DEF new, old
  <1>6. q \in Pic!Request /\ q.pc = "move" /\ q.user = upload[r].user /\ q.old = old /\ q.new = new
    BY <1>1, <1>2, <1>3, <1>5 DEF Pic!Request
  <1> HIDE DEF q
  <1>7. upload'[r] = q
    BY <1>4 DEF Pic!TypeOK
  <1> QED
    BY <1>1, <1>2, <1>3, <1>4, <1>6, <1>7 DEF Pic!TypeOK

\* The end of the process ends every request it finds in progress.
LEMMA RestartEffect ==
  ASSUME Pic!TypeOK, Pic!Restart
  PROVE  /\ upload' \in [Requests -> Pic!Request]
         /\ \A r \in Requests :
              IF Pic!InProgress(r)
              THEN /\ upload'[r].pc = "done" /\ upload'[r].user = None
                   /\ upload'[r].old = None /\ upload'[r].new = None
                   /\ upload[r].user \in cut'
              ELSE upload'[r] = upload[r]
         /\ cut \subseteq cut'
         /\ UNCHANGED <<destination, taken, picture, avatars, tmp, now, given, shared>>
  <1>1. "done" \in Pcs
    BY DEF Pcs
  <1>2. upload' = [r \in Requests |-> IF Pic!InProgress(r) THEN Pic!Blank("done") ELSE upload[r]]
    BY DEF Pic!Restart
  <1> QED
    BY <1>1, <1>2, Blanks DEF Pic!Restart, Pic!TypeOK, Pic!rowVars, Pic!fileVars

-----------------------------------------------------------------------------
(* Type correctness. *)

LEMMA PicturesInit == Pic!Init => PicturesInv
  <1> SUFFICES ASSUME Pic!Init
               PROVE  PicturesInv
    OBVIOUS
  <1>1. "new" \in Pcs
    BY DEF Pcs
  <1>2. Pic!TypeOK
    BY <1>1, Blanks, UsersAssumption, ClockAssumption DEF Pic!Init, Pic!TypeOK
  <1>3. \A r \in Requests : upload[r].pc = "new" /\ upload[r].new = None /\ upload[r].old = None
    BY <1>1, Blanks DEF Pic!Init
  <1>4. \A u \in Users : picture[u] = None
    BY DEF Pic!Init
  <1>5. Naming
    BY <1>3, <1>4 DEF Naming, RequestsKnow, PicturesOwn, AllGiven, Distinct, Pic!InProgress
  <1>6. Files
    BY <1>3, <1>4 DEF Files, Moved, Missing
  <1> QED
    BY <1>2, <1>5, <1>6 DEF PicturesInv

LEMMA UnlinksSome ==
  ASSUME Pic!TypeOK, NEW path
  PROVE  /\ Pic!Unlinks(path) \subseteq avatars /\ \A p \in avatars : p # path => p \in Pic!Unlinks(path)
         /\ destination # Pic!AtRoot => Pic!Unlinks(path) = avatars
  BY DEF Pic!Unlinks

LEMMA TypeStep ==
  ASSUME PicturesInv, [Pic!Next]_(Pic!vars)
  PROVE  Pic!TypeOK'
  <1>0. Pic!TypeOK /\ RequestsKnow
    BY DEF PicturesInv, Naming
  <1>1. CASE UNCHANGED Pic!vars
    BY <1>0, <1>1 DEF Pic!TypeOK, Pic!vars, Pic!rowVars, Pic!fileVars, Pic!historyVars
  <1>2. ASSUME NEW r \in Requests, NEW op \in {"create", "update"}, NEW u \in Users, Pic!Intercept(r, op, u)
        PROVE  Pic!TypeOK'
    BY <1>0, <1>2, InterceptEffect DEF Pic!TypeOK, Pic!Intercept, Pic!rowVars, Pic!historyVars
  <1>3. ASSUME NEW r \in Requests, Pic!Reject(r) \/ Pic!FailToMove(r)
        PROVE  Pic!TypeOK'
    BY <1>0, <1>3, Ends DEF Pic!TypeOK, Pic!Reject, Pic!FailToMove, Pic!rowVars, Pic!fileVars, Pic!historyVars
  <1>4. ASSUME NEW r \in Requests, Pic!FindUser(r)
        PROVE  Pic!TypeOK'
    BY <1>0, <1>4, FindUserEffect DEF Pic!TypeOK
  <1>5. ASSUME NEW r \in Requests, Pic!Move(r)
        PROVE  Pic!TypeOK'
    <2>1. upload[r].new \in Pic!Path
      BY <1>0, <1>5 DEF Pic!Move, Pic!At, RequestsKnow
    <2>2. avatars' \subseteq Pic!Path /\ tmp' \subseteq Requests
      BY <1>0, <1>5, <2>1 DEF Pic!Move, Pic!Moves, Pic!TypeOK
    <2>3. upload' \in [Requests -> Pic!Request]
      <3>1. Pic!Goto(r, "row") \/ Pic!Goto(r, "clean")
        BY <1>5 DEF Pic!Move
      <3> QED
        BY <1>0, <3>1, MovesOn DEF Pcs
    <2> QED
      BY <1>0, <1>5, <2>2, <2>3 DEF Pic!Move, Pic!TypeOK, Pic!rowVars, Pic!historyVars
  <1>6. ASSUME NEW r \in Requests, Pic!Clean(r) \/ Pic!Undo(r)
        PROVE  Pic!TypeOK'
    <2>1. upload' \in [Requests -> Pic!Request]
      BY <1>0, <1>6, MovesOn, Ends DEF Pic!Clean, Pic!Undo, Pcs
    <2>2. avatars' \subseteq Pic!Path
      BY <1>0, <1>6, UnlinksSome DEF Pic!Clean, Pic!Undo, Pic!TypeOK
    <2> QED
      BY <1>0, <1>6, <2>1, <2>2 DEF Pic!Clean, Pic!Undo, Pic!TypeOK, Pic!rowVars, Pic!historyVars
  <1>7. ASSUME NEW r \in Requests, Pic!WriteRow(r)
        PROVE  Pic!TypeOK'
    <2>1. upload[r].new \in Pic!Path /\ upload[r].user \in Users
      BY <1>0, <1>7 DEF Pic!WriteRow, Pic!At, RequestsKnow, Pic!InProgress
    <2>2. upload' \in [Requests -> Pic!Request]
      BY <1>0, <1>7, Ends DEF Pic!WriteRow
    <2>3. taken' \subseteq Users /\ picture' \in [Users -> Pic!Path \cup {None}]
      BY <1>0, <1>7, <2>1 DEF Pic!WriteRow, Pic!TypeOK
    <2> QED
      BY <1>0, <1>7, <2>2, <2>3 DEF Pic!WriteRow, Pic!TypeOK, Pic!fileVars, Pic!historyVars
  <1>8. ASSUME NEW r \in Requests, Pic!FailToWrite(r)
        PROVE  Pic!TypeOK'
    <2>1. upload' \in [Requests -> Pic!Request] /\ upload[r].user \in Users
      BY <1>0, <1>8, MovesOn DEF Pic!FailToWrite, Pic!At, RequestsKnow, Pic!InProgress, Pcs
    <2> QED
      BY <1>0, <1>8, <2>1 DEF Pic!FailToWrite, Pic!TypeOK, Pic!rowVars, Pic!fileVars
  <1>9. CASE Pic!Restart
    <2>1. cut' \subseteq Users
      BY <1>0, <1>9 DEF Pic!Restart, Pic!TypeOK, RequestsKnow
    <2> QED
      BY <1>0, <1>9, <2>1, RestartEffect DEF Pic!TypeOK
  <1>10. CASE Pic!Tick
    BY <1>0, <1>10, ClockAssumption DEF Pic!Tick, Pic!TypeOK, Pic!rowVars, Pic!fileVars, Pic!historyVars
  <1> QED
    BY <1>1, <1>2, <1>3, <1>4, <1>5, <1>6, <1>7, <1>8, <1>9, <1>10 DEF Pic!Next, Pic!Upload

-----------------------------------------------------------------------------
(* Names. *)

\* A request moves on with what it has.
LEMMA NamesMoveOn ==
  ASSUME Pic!TypeOK, Naming, NEW r \in Requests, NEW pc \in {"clean", "row", "undo"}, Pic!Goto(r, pc),
         upload[r].pc \in {"move", "clean", "row"},
         pc = "clean" => upload[r].old # None, pc = "undo" => upload[r].user \in cut',
         UNCHANGED <<picture, given, shared>>, cut \subseteq cut'
  PROVE  Naming'
  <1> USE DEF Naming
  <1>1. /\ upload'[r].pc = pc /\ upload'[r].user = upload[r].user
        /\ upload'[r].old = upload[r].old /\ upload'[r].new = upload[r].new
        /\ \A x \in Requests \ {r} : upload'[x] = upload[x]
    BY MovesOn DEF Pcs
  <1>2. \A x \in Requests : upload'[x].new = upload[x].new /\ upload'[x].old = upload[x].old /\ upload'[x].user = upload[x].user
    BY <1>1
  <1>3. RequestsKnow'
    BY <1>1 DEF RequestsKnow, Pic!InProgress
  <1>4. PicturesOwn' /\ AllGiven'
    BY <1>2 DEF PicturesOwn, AllGiven
  <1>5. Distinct'
    BY <1>2 DEF Distinct
  <1> QED
    BY <1>3, <1>4, <1>5

\* A request ends, and its row may have its name now.
LEMMA NamesEnd ==
  ASSUME Pic!TypeOK, Naming, NEW r \in Requests, Pic!Done(r), UNCHANGED <<given, shared, cut>>,
         \/ UNCHANGED picture
         \/ /\ upload[r].pc = "row"
            /\ picture' = [picture EXCEPT ![upload[r].user] = upload[r].new]
  PROVE  Naming'
  <1> USE DEF Naming
  <1>1. /\ upload'[r].pc = "done" /\ upload'[r].user = None /\ upload'[r].old = None /\ upload'[r].new = None
        /\ \A x \in Requests \ {r} : upload'[x] = upload[x]
    BY Ends
  <1>2. RequestsKnow'
    BY <1>1 DEF RequestsKnow, Pic!InProgress
  <1>3. CASE UNCHANGED picture
    <2>1. PicturesOwn' /\ AllGiven'
      BY <1>1, <1>3 DEF PicturesOwn, AllGiven
    <2>2. Distinct'
      BY <1>1, <1>3 DEF Distinct
    <2> QED
      BY <1>2, <2>1, <2>2
  <1>4. CASE upload[r].pc = "row" /\ picture' = [picture EXCEPT ![upload[r].user] = upload[r].new]
    <2>1. /\ upload[r].user \in Users /\ upload[r].new \in Pic!Path /\ upload[r].new.user = upload[r].user
          /\ upload[r].new # None
      BY <1>4, NoPicture DEF RequestsKnow, Pic!InProgress
    <2>2. \A u \in Users : picture'[u] = IF u = upload[r].user THEN upload[r].new ELSE picture[u]
      BY <1>4 DEF Pic!TypeOK
    <2>3. PicturesOwn'
      BY <2>1, <2>2 DEF PicturesOwn
    <2>4. AllGiven'
      BY <1>1, <2>2 DEF AllGiven
    <2>5. ASSUME NEW x \in Requests, upload'[x].new # None, upload'[x].new \notin shared'
          PROVE  /\ \A y \in Requests : upload'[y].old # upload'[x].new /\ (y # x => upload'[y].new # upload'[x].new)
                 /\ \A u \in Users : picture'[u] # upload'[x].new
      <3>1. x # r /\ upload'[x] = upload[x]
        BY <1>1, <2>5
      <3>2. /\ \A y \in Requests : upload[y].old # upload[x].new /\ (y # x => upload[y].new # upload[x].new)
            /\ \A u \in Users : picture[u] # upload[x].new
        BY <2>5, <3>1 DEF Distinct
      <3> QED
        BY <1>1, <2>2, <2>5, <3>1, <3>2
    <2> QED
      BY <1>2, <2>3, <2>4, <2>5 DEF Distinct
  <1> QED
    BY <1>3, <1>4

LEMMA NamesFindUser ==
  ASSUME Pic!TypeOK, Naming, NEW r \in Requests, Pic!FindUser(r)
  PROVE  Naming'
  <1> USE DEF Naming
  <1>1. /\ upload'[r].pc = "move" /\ upload'[r].user = upload[r].user /\ upload[r].user \in Users
        /\ upload'[r].new \in Pic!Path /\ upload'[r].new.user = upload[r].user
        /\ upload'[r].old \in {None, picture[upload[r].user]}
        /\ given' = given \cup {upload'[r].new}
        /\ shared' = shared \cup (given \cap {upload'[r].new})
        /\ \A x \in Requests \ {r} : upload'[x] = upload[x]
        /\ picture' = picture /\ cut' = cut
    BY FindUserEffect
  <1>2. RequestsKnow'
    BY <1>1 DEF RequestsKnow, PicturesOwn, Pic!InProgress
  <1>3. PicturesOwn'
    BY <1>1 DEF PicturesOwn
  <1>4. AllGiven'
    <2>1. picture[upload[r].user] \in given \cup {None}
      BY <1>1 DEF AllGiven
    <2> QED
      BY <1>1, <2>1 DEF AllGiven
  <1>5. None \notin Pic!Path
    BY NoPicture
  \* The name r is given is nobody's, or shared from now on.
  <1>6. ASSUME upload'[r].new \notin shared'
        PROVE  /\ \A y \in Requests : upload'[y].old # upload'[r].new /\ (y # r => upload'[y].new # upload'[r].new)
               /\ \A u \in Users : picture'[u] # upload'[r].new
    <2>1. upload'[r].new \notin given /\ upload'[r].new # None
      BY <1>1, <1>5, <1>6
    <2>2. \A u \in Users : picture[u] # upload'[r].new
      BY <2>1 DEF AllGiven
    <2>3. \A y \in Requests : upload[y].new # upload'[r].new /\ upload[y].old # upload'[r].new
      BY <2>1 DEF AllGiven
    <2> QED
      BY <1>1, <2>1, <2>2, <2>3
  <1>7. ASSUME NEW x \in Requests, x # r, upload'[x].new # None, upload'[x].new \notin shared'
        PROVE  /\ \A y \in Requests : upload'[y].old # upload'[x].new /\ (y # x => upload'[y].new # upload'[x].new)
               /\ \A u \in Users : picture'[u] # upload'[x].new
    <2>1. upload'[x] = upload[x] /\ upload[x].new \in given /\ upload[x].new \notin shared
      BY <1>1, <1>7 DEF AllGiven
    <2>2. /\ \A y \in Requests : upload[y].old # upload[x].new /\ (y # x => upload[y].new # upload[x].new)
          /\ \A u \in Users : picture[u] # upload[x].new
      BY <1>7, <2>1 DEF Distinct
    <2>3. upload'[r].new # upload[x].new
      BY <1>1, <1>7, <2>1
    <2>4. upload'[r].old # upload[x].new
      BY <1>1, <1>7, <2>1, <2>2
    <2> QED
      BY <1>1, <2>1, <2>2, <2>3, <2>4
  <1>8. Distinct'
    BY <1>6, <1>7 DEF Distinct
  <1> QED
    BY <1>2, <1>3, <1>4, <1>8

LEMMA NamesStep ==
  ASSUME PicturesInv, [Pic!Next]_(Pic!vars)
  PROVE  Naming'
  <1>0. Pic!TypeOK /\ Naming
    BY DEF PicturesInv
  <1>1. CASE UNCHANGED Pic!vars \/ Pic!Tick
    BY <1>0, <1>1 DEF Pic!Tick, Pic!vars, Pic!rowVars, Pic!historyVars, Naming, RequestsKnow, PicturesOwn, AllGiven,
                      Distinct, Pic!InProgress
  <1>2. ASSUME NEW r \in Requests, NEW op \in {"create", "update"}, NEW u \in Users, Pic!Intercept(r, op, u)
        PROVE  Naming'
    <2>1. /\ upload'[r].pc = "uploaded" /\ upload'[r].user = u /\ upload'[r].old = None /\ upload'[r].new = None
          /\ \A x \in Requests \ {r} : upload'[x] = upload[x]
          /\ UNCHANGED <<picture, given, shared, cut>>
      BY <1>0, <1>2, InterceptEffect DEF Pic!Intercept, Pic!rowVars, Pic!historyVars
    <2>2. RequestsKnow'
      BY <1>0, <2>1 DEF Naming, RequestsKnow, Pic!InProgress
    <2>3. PicturesOwn' /\ AllGiven'
      BY <1>0, <2>1 DEF Naming, PicturesOwn, AllGiven
    <2>4. Distinct'
      BY <1>0, <2>1 DEF Naming, Distinct
    <2> QED
      BY <2>2, <2>3, <2>4 DEF Naming
  <1>3. ASSUME NEW r \in Requests, Pic!Reject(r) \/ Pic!FailToMove(r) \/ Pic!Undo(r)
        PROVE  Naming'
    BY <1>0, <1>3, NamesEnd DEF Pic!Reject, Pic!FailToMove, Pic!Undo, Pic!rowVars, Pic!historyVars
  <1>4. ASSUME NEW r \in Requests, Pic!FindUser(r)
        PROVE  Naming'
    BY <1>0, <1>4, NamesFindUser
  <1>5. ASSUME NEW r \in Requests, Pic!Move(r)
        PROVE  Naming'
    <2>1. /\ upload[r].pc = "move" /\ UNCHANGED <<picture, given, shared, cut>>
          /\ Pic!Goto(r, "row") \/ (Pic!Goto(r, "clean") /\ upload[r].old # None)
      BY <1>5 DEF Pic!Move, Pic!At, Pic!rowVars, Pic!historyVars
    <2> QED
      BY <1>0, <2>1, NamesMoveOn
  <1>6. ASSUME NEW r \in Requests, Pic!Clean(r)
        PROVE  Naming'
    <2>1. upload[r].pc = "clean" /\ UNCHANGED <<picture, given, shared, cut>> /\ Pic!Goto(r, "row")
      BY <1>6 DEF Pic!Clean, Pic!At, Pic!rowVars, Pic!historyVars
    <2> QED
      BY <1>0, <2>1, NamesMoveOn
  <1>7. ASSUME NEW r \in Requests, Pic!WriteRow(r)
        PROVE  Naming'
    BY <1>0, <1>7, NamesEnd DEF Pic!WriteRow, Pic!At, Pic!historyVars
  <1>8. ASSUME NEW r \in Requests, Pic!FailToWrite(r)
        PROVE  Naming'
    <2>1. /\ upload[r].pc = "row" /\ UNCHANGED <<picture, given, shared>> /\ Pic!Goto(r, "undo")
          /\ cut \subseteq cut' /\ upload[r].user \in cut'
      BY <1>8 DEF Pic!FailToWrite, Pic!At, Pic!rowVars
    <2> QED
      BY <1>0, <2>1, NamesMoveOn
  <1>9. CASE Pic!Restart
    <2>1. /\ \A r \in Requests :
               IF Pic!InProgress(r)
               THEN /\ upload'[r].pc = "done" /\ upload'[r].user = None
                    /\ upload'[r].old = None /\ upload'[r].new = None
               ELSE upload'[r] = upload[r]
          /\ cut \subseteq cut' /\ UNCHANGED <<picture, given, shared>>
      BY <1>0, <1>9, RestartEffect
    <2>2. RequestsKnow'
      BY <1>0, <2>1 DEF Naming, RequestsKnow, Pic!InProgress
    <2>3. PicturesOwn' /\ AllGiven'
      BY <1>0, <2>1 DEF Naming, PicturesOwn, AllGiven
    <2>4. \A r \in Requests : upload'[r].new \in {None, upload[r].new} /\ upload'[r].old \in {None, upload[r].old}
      BY <2>1
    <2>5. Distinct'
      BY <1>0, <2>1, <2>4 DEF Naming, Distinct
    <2> QED
      BY <2>2, <2>3, <2>5 DEF Naming
  <1> QED
    BY <1>1, <1>2, <1>3, <1>4, <1>5, <1>6, <1>7, <1>8, <1>9 DEF Pic!Next, Pic!Upload

-----------------------------------------------------------------------------
(* Files. *)

\* Unlinking a name that no row has, or that is shared, spares the others' files.
LEMMA FilesAfterUndo ==
  ASSUME Pic!TypeOK, Naming, Files, NEW r \in Requests, Pic!Undo(r)
  PROVE  Files'
  <1> USE DEF Naming, Files
  <1>1. /\ upload[r].pc = "undo" /\ avatars' = Pic!Unlinks(upload[r].new) /\ Pic!Done(r)
        /\ UNCHANGED <<destination, picture, cut, shared>>
    BY DEF Pic!Undo, Pic!At, Pic!rowVars, Pic!historyVars
  <1>2. upload'[r].pc = "done" /\ \A x \in Requests \ {r} : upload'[x] = upload[x]
    BY <1>1, Ends
  <1>3. upload[r].new \in Pic!Path /\ upload[r].new # None
    BY <1>1, NoPicture DEF RequestsKnow
  <1>4. destination # Pic!AtRoot => avatars' = avatars
    BY <1>1, UnlinksSome
  <1>5. \A p \in avatars : p \in avatars' \/ (p = upload[r].new /\ destination = Pic!AtRoot)
    BY <1>1, <1>4, UnlinksSome
  <1>6. ASSUME NEW x \in Requests, upload'[x].pc \in {"clean", "row"}
        PROVE  upload'[x].new \in avatars' \/ (destination' = Pic!AtRoot /\ upload'[x].new \in shared')
    <2>1. x # r /\ upload'[x] = upload[x]
      BY <1>2, <1>6
    <2>2. upload[x].new \in avatars \/ (destination = Pic!AtRoot /\ upload[x].new \in shared)
      BY <1>6, <2>1 DEF Moved
    <2>3. upload[x].new = upload[r].new => upload[x].new \in shared
      BY <1>3, <2>1 DEF Distinct
    <2> QED
      BY <1>1, <1>5, <2>1, <2>2, <2>3
  <1>7. ASSUME NEW u \in Users
        PROVE  \/ picture'[u] \in avatars' \cup {None}
               \/ /\ destination' = Pic!AtRoot
                  /\ u \in cut' \/ picture'[u] \in shared' \/ \E x \in Requests : Replaces(x, u)'
    <2>1. picture[u] = upload[r].new => picture[u] \in shared
      BY <1>3 DEF Distinct
    <2>2. ASSUME NEW x \in Requests, Replaces(x, u)
          PROVE  Replaces(x, u)'
      <3>1. x # r
        BY <1>1, <2>2 DEF Replaces
      <3> QED
        BY <1>1, <1>2, <2>2, <3>1 DEF Replaces
    <2>3. \/ picture[u] \in avatars \cup {None}
          \/ /\ destination = Pic!AtRoot
             /\ u \in cut \/ picture[u] \in shared \/ \E x \in Requests : Replaces(x, u)
      BY DEF Missing
    <2> QED
      BY <1>1, <1>5, <2>1, <2>2, <2>3
  <1> QED
    BY <1>6, <1>7 DEF Moved, Missing

\* Unlinking the picture to be replaced makes it the one that is about to be.
LEMMA FilesAfterClean ==
  ASSUME Pic!TypeOK, Naming, Files, NEW r \in Requests, Pic!Clean(r)
  PROVE  Files'
  <1> USE DEF Naming, Files
  <1>1. /\ upload[r].pc = "clean" /\ avatars' = Pic!Unlinks(upload[r].old) /\ Pic!Goto(r, "row")
        /\ UNCHANGED <<destination, picture, cut, shared>>
    BY DEF Pic!Clean, Pic!At, Pic!rowVars, Pic!historyVars
  <1>2. /\ upload'[r].pc = "row" /\ upload'[r].user = upload[r].user
        /\ upload'[r].new = upload[r].new /\ upload'[r].old = upload[r].old
        /\ \A x \in Requests \ {r} : upload'[x] = upload[x]
    BY <1>1, MovesOn DEF Pcs
  <1>3. destination # Pic!AtRoot => avatars' = avatars
    BY <1>1, UnlinksSome
  <1>4. \A p \in avatars : p \in avatars' \/ (p = upload[r].old /\ destination = Pic!AtRoot)
    BY <1>1, <1>3, UnlinksSome
  <1>5. ASSUME NEW x \in Requests, upload'[x].pc \in {"clean", "row"}
        PROVE  upload'[x].new \in avatars' \/ (destination' = Pic!AtRoot /\ upload'[x].new \in shared')
    <2>1. upload[x].pc \in {"clean", "row"} /\ upload'[x].new = upload[x].new
      BY <1>1, <1>2, <1>5
    <2>2. upload[x].new \in avatars \/ (destination = Pic!AtRoot /\ upload[x].new \in shared)
      BY <2>1 DEF Moved
    <2>3. upload[x].new # None
      BY <2>1, NoPicture DEF RequestsKnow
    <2>4. upload[x].new = upload[r].old => upload[x].new \in shared
      BY <2>3 DEF Distinct
    <2> QED
      BY <1>1, <1>4, <2>1, <2>2, <2>4
  <1>6. ASSUME NEW u \in Users
        PROVE  \/ picture'[u] \in avatars' \cup {None}
               \/ /\ destination' = Pic!AtRoot
                  /\ u \in cut' \/ picture'[u] \in shared' \/ \E x \in Requests : Replaces(x, u)'
    <2>1. ASSUME picture[u] = upload[r].old, picture[u] # None
          PROVE  Replaces(r, u)'
      <3>1. picture[u].user = u /\ upload[r].old.user = upload[r].user
        BY <2>1 DEF PicturesOwn, RequestsKnow
      <3> QED
        BY <1>1, <1>2, <2>1, <3>1 DEF Replaces
    <2>2. ASSUME NEW x \in Requests, Replaces(x, u)
          PROVE  Replaces(x, u)'
      <3>1. x # r
        BY <1>1, <2>2 DEF Replaces
      <3> QED
        BY <1>1, <1>2, <2>2, <3>1 DEF Replaces
    <2>3. \/ picture[u] \in avatars \cup {None}
          \/ /\ destination = Pic!AtRoot
             /\ u \in cut \/ picture[u] \in shared \/ \E x \in Requests : Replaces(x, u)
      BY DEF Missing
    <2> QED
      BY <1>1, <1>4, <2>1, <2>2, <2>3
  <1> QED
    BY <1>5, <1>6 DEF Moved, Missing

\* The row gets a picture that is there, or one that was given to two.
LEMMA FilesAfterWrite ==
  ASSUME Pic!TypeOK, Naming, Files, NEW r \in Requests, Pic!WriteRow(r)
  PROVE  Files'
  <1> USE DEF Naming, Files
  <1>1. /\ upload[r].pc = "row" /\ Pic!Done(r)
        /\ picture' = [picture EXCEPT ![upload[r].user] = upload[r].new]
        /\ UNCHANGED <<destination, avatars, cut, shared>>
    BY DEF Pic!WriteRow, Pic!At, Pic!fileVars, Pic!historyVars
  <1>2. upload'[r].pc = "done" /\ \A x \in Requests \ {r} : upload'[x] = upload[x]
    BY <1>1, Ends
  <1>3. \A u \in Users : picture'[u] = IF u = upload[r].user THEN upload[r].new ELSE picture[u]
    BY <1>1 DEF Pic!TypeOK
  <1>4. Moved'
    BY <1>1, <1>2 DEF Moved
  <1>5. ASSUME NEW u \in Users
        PROVE  \/ picture'[u] \in avatars' \cup {None}
               \/ /\ destination' = Pic!AtRoot
                  /\ u \in cut' \/ picture'[u] \in shared' \/ \E x \in Requests : Replaces(x, u)'
    <2>1. CASE u = upload[r].user
      BY <1>1, <1>3, <2>1 DEF Moved
    <2>2. CASE u # upload[r].user
      <3>1. picture'[u] = picture[u]
        BY <1>3, <2>2
      <3>2. ASSUME NEW x \in Requests, Replaces(x, u)
            PROVE  Replaces(x, u)'
        <4>1. x # r
          BY <2>2, <3>2 DEF Replaces
        <4> QED
          BY <1>2, <3>1, <3>2, <4>1 DEF Replaces
      <3>3. \/ picture[u] \in avatars \cup {None}
            \/ /\ destination = Pic!AtRoot
               /\ u \in cut \/ picture[u] \in shared \/ \E x \in Requests : Replaces(x, u)
        BY DEF Missing
      <3> QED
        BY <1>1, <3>1, <3>2, <3>3
    <2> QED
      BY <2>1, <2>2
  <1> QED
    BY <1>4, <1>5 DEF Missing

\* A step that unlinks nothing and writes no row, whose request does not come
\* from or to a row it has unlinked the picture of, or is recorded as cut off.
LEMMA FilesKept ==
  ASSUME Pic!TypeOK, Naming, Files,
         UNCHANGED <<destination, picture>>, avatars \subseteq avatars',
         cut \subseteq cut', shared \subseteq shared',
         \A x \in Requests : upload[x].pc = "row" =>
           \/ upload'[x].pc = "row" /\ upload'[x].user = upload[x].user /\ upload'[x].old = upload[x].old
           \/ upload[x].user \in cut',
         \A x \in Requests : upload'[x].pc \in {"clean", "row"} =>
           upload'[x].new \in avatars' \/ (upload[x].pc \in {"clean", "row"} /\ upload'[x].new = upload[x].new)
  PROVE  Files'
  <1> USE DEF Files
  <1>1. Moved'
    BY DEF Moved
  <1>2. ASSUME NEW u \in Users
        PROVE  \/ picture'[u] \in avatars' \cup {None}
               \/ /\ destination' = Pic!AtRoot
                  /\ u \in cut' \/ picture'[u] \in shared' \/ \E x \in Requests : Replaces(x, u)'
    <2>1. ASSUME NEW x \in Requests, Replaces(x, u)
          PROVE  Replaces(x, u)' \/ u \in cut'
      BY <2>1 DEF Replaces
    <2>2. \/ picture[u] \in avatars \cup {None}
          \/ /\ destination = Pic!AtRoot
             /\ u \in cut \/ picture[u] \in shared \/ \E x \in Requests : Replaces(x, u)
      BY DEF Missing
    <2> QED
      BY <2>1, <2>2
  <1> QED
    BY <1>1, <1>2 DEF Missing

LEMMA FilesStep ==
  ASSUME PicturesInv, [Pic!Next]_(Pic!vars)
  PROVE  Files'
  <1>0. Pic!TypeOK /\ Naming /\ Files /\ RequestsKnow
    BY DEF PicturesInv, Naming
  <1>1. CASE UNCHANGED Pic!vars \/ Pic!Tick
    BY <1>0, <1>1 DEF Pic!Tick, Pic!vars, Pic!rowVars, Pic!fileVars, Pic!historyVars, Files, Moved, Missing, Replaces
  <1>2. ASSUME NEW r \in Requests, NEW op \in {"create", "update"}, NEW u \in Users, Pic!Intercept(r, op, u)
        PROVE  Files'
    <2>1. /\ upload[r].pc = "new" /\ upload'[r].pc = "uploaded" /\ \A x \in Requests \ {r} : upload'[x] = upload[x]
          /\ UNCHANGED <<destination, picture, avatars, cut, shared>>
      BY <1>0, <1>2, InterceptEffect DEF Pic!Intercept, Pic!At, Pic!rowVars, Pic!historyVars
    <2> QED
      BY <1>0, <2>1, FilesKept
  <1>3. ASSUME NEW r \in Requests, Pic!Reject(r) \/ Pic!FailToMove(r)
        PROVE  Files'
    <2>1. /\ upload[r].pc \in {"uploaded", "move"} /\ upload'[r].pc = "done"
          /\ \A x \in Requests \ {r} : upload'[x] = upload[x]
          /\ UNCHANGED <<destination, picture, avatars, cut, shared>>
      BY <1>0, <1>3, Ends DEF Pic!Reject, Pic!FailToMove, Pic!At, Pic!rowVars, Pic!fileVars, Pic!historyVars
    <2> QED
      BY <1>0, <2>1, FilesKept
  <1>4. ASSUME NEW r \in Requests, Pic!FindUser(r)
        PROVE  Files'
    <2>1. /\ upload[r].pc = "uploaded" /\ upload'[r].pc = "move"
          /\ \A x \in Requests \ {r} : upload'[x] = upload[x]
          /\ UNCHANGED <<destination, picture, avatars, cut>> /\ shared \subseteq shared'
      BY <1>0, <1>4, FindUserEffect DEF Pic!FindUser, Pic!At
    <2> QED
      BY <1>0, <2>1, FilesKept
  <1>5. ASSUME NEW r \in Requests, Pic!Move(r)
        PROVE  Files'
    <2>1. Pic!Goto(r, "row") \/ Pic!Goto(r, "clean")
      BY <1>5 DEF Pic!Move
    <2>2. upload'[r].new = upload[r].new /\ \A x \in Requests \ {r} : upload'[x] = upload[x]
      BY <1>0, <2>1, MovesOn DEF Pcs
    <2>3. /\ upload[r].pc = "move" /\ avatars' = avatars \cup {upload[r].new}
          /\ UNCHANGED <<destination, picture, cut, shared>>
      BY <1>5 DEF Pic!Move, Pic!Moves, Pic!At, Pic!rowVars, Pic!historyVars
    <2> QED
      BY <1>0, <2>2, <2>3, FilesKept
  <1>6. ASSUME NEW r \in Requests, Pic!FailToWrite(r)
        PROVE  Files'
    <2>1. /\ Pic!Goto(r, "undo") /\ upload[r].user \in cut' /\ cut \subseteq cut'
          /\ UNCHANGED <<destination, picture, avatars, shared>>
      BY <1>6 DEF Pic!FailToWrite, Pic!rowVars, Pic!fileVars
    <2>2. upload'[r].pc = "undo" /\ \A x \in Requests \ {r} : upload'[x] = upload[x]
      BY <1>0, <2>1, MovesOn DEF Pcs
    <2> QED
      BY <1>0, <2>1, <2>2, FilesKept
  <1>7. CASE Pic!Restart
    <2>1. /\ \A x \in Requests :
               IF Pic!InProgress(x) THEN upload'[x].pc = "done" /\ upload[x].user \in cut' ELSE upload'[x] = upload[x]
          /\ cut \subseteq cut' /\ UNCHANGED <<destination, picture, avatars, shared>>
      BY <1>0, <1>7, RestartEffect
    <2>2. \A x \in Requests : upload[x].pc = "row" => upload[x].user \in cut'
      BY <2>1 DEF Pic!InProgress
    <2>3. \A x \in Requests : upload'[x].pc \notin {"clean", "row"}
      BY <2>1 DEF Pic!InProgress
    <2> QED
      BY <1>0, <2>1, <2>2, <2>3, FilesKept
  <1> QED
    BY <1>0, <1>1, <1>2, <1>3, <1>4, <1>5, <1>6, <1>7, FilesAfterUndo, FilesAfterClean, FilesAfterWrite
       DEF Pic!Next, Pic!Upload

-----------------------------------------------------------------------------
(* The theorems. *)

LEMMA PicturesStep == PicturesInv /\ [Pic!Next]_(Pic!vars) => PicturesInv'
  BY TypeStep, NamesStep, FilesStep DEF PicturesInv

\* The strengthening holds in every reachable state of every instance.
THEOREM PicturesInvariant == Pic!Spec => []PicturesInv
  BY PicturesInit, PicturesStep, PTL DEF Pic!Spec

\* Rows, files and requests keep their shape.
THEOREM PicturesTypeCorrect == Pic!Spec => []Pic!TypeOK
  <1>1. PicturesInv => Pic!TypeOK
    BY DEF PicturesInv
  <1> QED
    BY <1>1, PicturesInvariant, PTL

\* The picture a row names is there, for any number of users and overlapping
\* uploads and wherever they stop, but for the cases the property names.
THEOREM PicturesThere == Pic!Spec => []PictureThere
  <1>1. PicturesInv => PictureThere
    <2> SUFFICES ASSUME PicturesInv, NEW u \in Users
                 PROVE  \/ picture[u] \in avatars \cup {None}
                        \/ /\ destination = Pic!AtRoot
                           /\ \/ u \in cut \/ picture[u] \in shared
                              \/ \E r \in Requests : InProgress(r) /\ upload[r].user = u
      BY DEF PictureThere, AtRoot, Pic!AtRoot
    <2>1. \A r \in Requests : Replaces(r, u) => InProgress(r) /\ upload[r].user = u
      BY DEF Replaces, InProgress
    <2> QED
      BY <2>1 DEF PicturesInv, Files, Missing
  <1> QED
    BY <1>1, PicturesInvariant, PTL
=============================================================================
