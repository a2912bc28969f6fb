------------------------------- MODULE Access -------------------------------
(***************************************************************************)
(* Who may use the panel: the administrators of the settings, the editors  *)
(* they authorise, the session cookies and the requests that several web   *)
(* processes and threads handle at once (auth.py, blueprints/auth.py).     *)
(* A handler reads the rows it needs, then commits: others commit between. *)
(*                                                                         *)
(* Data.  People are the accounts of the allowed domain: any other is      *)
(* refused before its row is read, as are unauthorised ones at the sign-in.*)
(* Of a row only "authorized" is kept.  A commit writes the columns whose  *)
(* value the handler changed (SQLAlchemy), and an INSERT of an email that  *)
(* has a row fails.                                                        *)
(***************************************************************************)
EXTENDS Integers

CONSTANTS
  People,       (* accounts of the domain                                     *)
  Slots,        (* what may handle a request: a thread of a web process       *)
  NoRow,        (* no User row                                                *)
  Free,         (* a slot without a request                                   *)
  MaxRestarts   (* bound: restarts of the web service with other settings     *)

ASSUME AccessAssumption == NoRow \notin BOOLEAN /\ MaxRestarts \in Nat

VARIABLES
  admins,    (* ADMIN_EMAILS, as the running service read it                  *)
  users,     (* User.authorized of each account, or NoRow                     *)
  cookies,   (* who holds a session cookie: a row's id                        *)
  requests,  (* the request of each slot: [op, by, target, seen]              *)
  restarts   (* what remains of the bound                                     *)

accessVars == <<admins, users, cookies, requests, restarts>>

-----------------------------------------------------------------------------
(* User.role is None when neither holds.                                   *)
IsActive(p) == p \in admins \/ users[p] = TRUE

(* Mutant: a row is enough.                                                *)
LoadAnyUser(p) == p \in cookies /\ users[p] # NoRow

(* load_user: who a cookie stands for is asked again on every request.     *)
LoadUser(p) == p \in cookies /\ users[p] # NoRow /\ IsActive(p)

AdminRequired(p) == LoadUser(p) /\ p \in admins

Begin(slot, op, by, target) ==
  /\ requests[slot] = Free
  /\ requests' = [requests EXCEPT ![slot] =
       [op |-> op, by |-> by, target |-> target, seen |-> users[target]]]
  /\ UNCHANGED <<admins, users, cookies, restarts>>

End(slot) == requests' = [requests EXCEPT ![slot] = Free]

Handles(slot, op) == requests[slot] # Free /\ requests[slot].op = op

(* The row of p after the handler of r commits with value as authorized;   *)
(* an INSERT needs that there is still none.                               *)
Written(r, value) ==
  IF r.seen = NoRow THEN users[r.target] = NoRow /\ users' = [users EXCEPT ![r.target] = value]
  ELSE users' = IF r.seen = value THEN users ELSE [users EXCEPT ![r.target] = value]

-----------------------------------------------------------------------------
(* The sign-in.                                                            *)

LoginReads(slot, p) == IsActive(p) /\ Begin(slot, "login", p, p)

(* Mutant: the row is written back whole.                                  *)
LoginSavesRow(slot) ==
  /\ Handles(slot, "login")
  /\ LET r == requests[slot] IN
       /\ r.seen = NoRow => users[r.by] = NoRow
       /\ users' = [users EXCEPT ![r.by] = r.seen = TRUE]
       /\ cookies' = IF r.by \in admins \/ users'[r.by] = TRUE THEN cookies \cup {r.by} ELSE cookies
  /\ End(slot)
  /\ UNCHANGED <<admins, restarts>>

(* The name and the time of the sign-in are written, and login_user reads  *)
(* the committed row again: it gives no cookie to one without a role.      *)
Login(slot) ==
  /\ Handles(slot, "login")
  /\ LET r == requests[slot] IN
       /\ Written(r, IF r.seen = NoRow THEN FALSE ELSE r.seen)
       /\ cookies' = IF r.by \in admins \/ users'[r.by] = TRUE THEN cookies \cup {r.by} ELSE cookies
  /\ End(slot)
  /\ UNCHANGED <<admins, restarts>>

Logout(p) ==
  /\ p \in cookies
  /\ cookies' = cookies \ {p}
  /\ UNCHANGED <<admins, users, requests, restarts>>

-----------------------------------------------------------------------------
(* The panel.                                                              *)

(* Any page of the panel, begun after require_login and finished later.    *)
Page(slot, p) == LoadUser(p) /\ Begin(slot, "page", p, p)

AuthorizeReads(slot, by, p) ==
  /\ AdminRequired(by)
  /\ p \notin admins
  /\ Begin(slot, "authorize", by, p)

Authorize(slot) ==
  /\ Handles(slot, "authorize")
  /\ Written(requests[slot], TRUE)
  /\ End(slot)
  /\ UNCHANGED <<admins, cookies, restarts>>

RevokeReads(slot, by, p) ==
  /\ AdminRequired(by)
  /\ users[p] # NoRow
  /\ p \notin admins
  /\ Begin(slot, "revoke", by, p)

Revoke(slot) ==
  /\ Handles(slot, "revoke")
  /\ Written(requests[slot], FALSE)
  /\ End(slot)
  /\ UNCHANGED <<admins, cookies, restarts>>

(* A page ends; or the commit of a handler fails (the row exists by now,   *)
(* the database is locked) and the transaction is rolled back.             *)
Finish(slot) ==
  /\ requests[slot] # Free
  /\ End(slot)
  /\ UNCHANGED <<admins, users, cookies, restarts>>

(* ADMIN_EMAILS is read when the service starts; what was being handled    *)
(* is lost.                                                                *)
Restart(emails) ==
  /\ restarts > 0
  /\ restarts' = restarts - 1
  /\ emails # admins
  /\ admins' = emails
  /\ requests' = [slot \in Slots |-> Free]
  /\ UNCHANGED <<users, cookies>>

-----------------------------------------------------------------------------
AccessInit ==
  /\ admins \in SUBSET People
  /\ users = [p \in People |-> NoRow]
  /\ cookies = {}
  /\ requests = [slot \in Slots |-> Free]
  /\ restarts = MaxRestarts

AccessNext ==
  \/ \E slot \in Slots :
       \/ \E p \in People : LoginReads(slot, p) \/ Page(slot, p)
       \/ \E by, p \in People : AuthorizeReads(slot, by, p) \/ RevokeReads(slot, by, p)
       \/ Login(slot)
       \/ Authorize(slot)
       \/ Revoke(slot)
       \/ Finish(slot)
  \/ \E p \in People : Logout(p)
  \/ \E emails \in SUBSET People : Restart(emails)

AccessSpec == AccessInit /\ [][AccessNext]_accessVars

-----------------------------------------------------------------------------
(* Properties                                                              *)

Request == [op : {"login", "page", "authorize", "revoke"}, by : People,
            target : People, seen : BOOLEAN \cup {NoRow}]

AccessTypeOK ==
  /\ admins \in SUBSET People
  /\ users \in [People -> BOOLEAN \cup {NoRow}]
  /\ cookies \in SUBSET People
  /\ requests \in [Slots -> Request \cup {Free}]
  /\ restarts \in 0 .. MaxRestarts

(* auth.py: "revoking an editor takes effect at once".  Who has no access  *)
(* gets it back only by the settings or when an administrator's request to *)
(* authorise him is committed: never from a sign-in, a page or a session   *)
(* that began while he still had it.  And meanwhile nothing is begun in    *)
(* his name, whatever cookies he kept.                                     *)
RevocationSticks ==
  [][\A p \in People : ~IsActive(p) =>
       /\ p \notin admins' /\ users'[p] = TRUE =>
            \E slot \in Slots : /\ Handles(slot, "authorize")
                                /\ requests[slot].target = p
                                /\ requests[slot].by \in admins
                                /\ requests'[slot] = Free
       /\ \A slot \in Slots : requests[slot] = Free /\ requests'[slot] # Free =>
            requests'[slot].by # p]_accessVars
=============================================================================
