------------------------------ MODULE Accounts ------------------------------
(* Accounts, roles, sessions and one-time access links of the portal.       *)
(*                                                                          *)
(* The portal is one process with one event loop.  A handler authorises its *)
(* user, waits for the body of the form, and runs to its commit: between    *)
(* the two, every other handler may run.  The portal-user command runs      *)
(* beside it on the host, and nothing is locked between the two but rows:   *)
(* either may commit between what the other read and what it writes.        *)
EXTENDS Naturals, Sequences, FiniteSets

CONSTANTS
    Users,
    Passwords,    \* what people choose from
    LoginLimit,   \* LOGIN_LIMIT
    MaxLinks,     \* bound: links ever issued
    MaxCommands   \* bound: commands under way at once

ASSUME UsersAssumption == IsFiniteSet(Users)
ASSUME LimitsAssumption == /\ LoginLimit \in Nat \ {0}
                             /\ MaxLinks \in Nat /\ MaxCommands \in Nat

VARIABLES
    status,    \* of each account
    admin,     \* the role is portal_admin, not portal_viewer
    password,  \* the password of each account, and who let its holder in:
               \* the host, or a link
    greeted,   \* last_login_at is set
    links,     \* access links in the order they were issued
    sessions,  \* of whom, and the password they were opened with; bound: one
               \* browser to a person and password
    request,   \* what each person's handler, authorised, waits to do; bound:
               \* one form of a person under way
    failures,  \* of the one address people come from, in the window
    console,   \* commands: the administrator each has looked up, and whether
               \* the role and the password were found right
    entering,  \* the login whose password has been verified
    removing,  \* whose handler has counted the administrators, to remove one
    crossed    \* history: what a command or a login had looked up no longer
               \* held when it committed

host == <<console, entering, removing, crossed>>
vars == <<status, admin, password, greeted, links, sessions, request, failures, host>>

-----------------------------------------------------------------------------
Unusable == [from |-> "nobody", is |-> CHOOSE p \in Passwords : TRUE]
Password == {Unusable} \cup [from : {"host", "link"}, is : Passwords]
Link == [user : Users, purpose : {"invite", "reset"}, open : BOOLEAN]

OnAccount == {"link", "activate", "deactivate", "grant", "demote"}
Idle == [op |-> "none"]
Request ==
    {Idle}
    \cup [op : {"create"}, on : Users, admin : BOOLEAN]
    \cup [op : OnAccount, on : Users]
    \cup [op : {"password", "logout"}, knows : Password]

TypeOK ==
    /\ status \in [Users -> {"absent", "active", "inactive"}]
    /\ admin \in [Users -> BOOLEAN]
    /\ password \in [Users -> Password]
    /\ greeted \in [Users -> BOOLEAN]
    /\ links \in Seq(Link)
    /\ sessions \subseteq [user : Users, with : Password]
    /\ request \in [Users -> Request]
    /\ failures \in 0 .. LoginLimit
    /\ console \subseteq [by : Users, let : BOOLEAN]
    /\ entering \subseteq [user : Users, with : Password]
    /\ removing \subseteq Users
    /\ crossed \in BOOLEAN

Init ==
    /\ status = [u \in Users |-> "absent"]
    /\ admin = [u \in Users |-> FALSE]
    /\ password = [u \in Users |-> Unusable]
    /\ greeted = [u \in Users |-> FALSE]
    /\ links = <<>>
    /\ sessions = {}
    /\ request = [u \in Users |-> Idle]
    /\ failures = 0
    /\ console = {} /\ entering = {} /\ removing = {} /\ crossed = FALSE

-----------------------------------------------------------------------------
(* What the handlers and the command share *)

Exists(u) == status[u] # "absent"

ActiveAdmins == {u \in Users : status[u] = "active" /\ admin[u]}

SessionsOf(u) == {s \in sessions : s.user = u}

(* Fault: the account's sessions go on.                                     *)
EndSessionsNever(u) == UNCHANGED sessions

EndSessions(u) == sessions' = sessions \ SessionsOf(u)

Closed(u) == [i \in DOMAIN links |->
                IF links[i].user = u THEN [links[i] EXCEPT !.open = FALSE] ELSE links[i]]

ChosenAfter(from) == [from : {from}, is : Passwords]

-----------------------------------------------------------------------------
(* portal-user, on the host *)

(* The first account must be an administrator and needs none to create it.  *)
Bootstrap(u) ==
    /\ \A v \in Users : ~Exists(v)
    /\ status' = [status EXCEPT ![u] = "active"]
    /\ admin' = [admin EXCEPT ![u] = TRUE]
    /\ \E p \in ChosenAfter("host") : password' = [password EXCEPT ![u] = p]
    /\ UNCHANGED <<greeted, links, sessions, request, failures, host>>

(* The other commands look an administrator up and ask for the password.    *)
Ask(by) ==
    /\ Cardinality(console) < MaxCommands
    /\ status[by] = "active"
    /\ password[by] # Unusable
    /\ console' = console \cup {[by |-> by, let |-> FALSE]}
    /\ UNCHANGED <<status, admin, password, greeted, links, sessions, request, failures,
                   entering, removing, crossed>>

(* The role is read when the password has been typed, and the password is   *)
(* compared with that of the account as it was looked up; the status is not *)
(* looked at again.                                                         *)
Admit(by) ==
    /\ [by |-> by, let |-> FALSE] \in console
    /\ admin[by]
    /\ console' = (console \ {[by |-> by, let |-> FALSE]}) \cup {[by |-> by, let |-> TRUE]}
    /\ UNCHANGED <<status, admin, password, greeted, links, sessions, request, failures,
                   entering, removing, crossed>>

(* Whose row the portal has locked and is about to remove.                  *)
Leaving == {request[v].on : v \in removing}

(* Whoever was let in is not looked at again.  The record kept of a command *)
(* refers to the operator: it waits while the portal holds the row.         *)
Operator(by) ==
    /\ [by |-> by, let |-> TRUE] \in console
    /\ by \notin Leaving
    /\ console' = console \ {[by |-> by, let |-> TRUE]}

GiveUp(c) ==
    /\ console' = console \ {c}
    /\ UNCHANGED <<status, admin, password, greeted, links, sessions, request, failures,
                   entering, removing, crossed>>

HostCreates(by, u, adm) ==
    /\ Operator(by)
    /\ ~Exists(u)
    /\ status' = [status EXCEPT ![u] = "active"]
    /\ admin' = [admin EXCEPT ![u] = adm]
    /\ \E p \in ChosenAfter("host") : password' = [password EXCEPT ![u] = p]
    /\ UNCHANGED <<greeted, links, sessions, request, failures, entering, removing, crossed>>

(* disable and revoke-sessions; links stay as they are.                     *)
HostDisables(by, u, disable) ==
    /\ Operator(by)
    /\ Exists(u)
    /\ u # by
    /\ u \notin Leaving
    /\ status' = IF disable THEN [status EXCEPT ![u] = "inactive"] ELSE status
    /\ EndSessions(u)
    /\ crossed' = (crossed \/ (disable /\ u \in ActiveAdmins /\ by \notin ActiveAdmins))
    /\ UNCHANGED <<admin, password, greeted, links, request, failures, entering, removing>>

(* reset-password, for when no administrator gets in.                       *)
HostResets(u) ==
    /\ Exists(u)
    /\ \E p \in ChosenAfter("host") : password' = [password EXCEPT ![u] = p]
    /\ EndSessions(u)
    /\ UNCHANGED <<status, admin, greeted, links, request, failures, host>>

-----------------------------------------------------------------------------
(* Coming in *)

Limited == failures >= LoginLimit

(* Fault: the attempt is counted, whatever the count.                       *)
FailedUncounted == failures' = failures + 1

(* A wrong password, at login or where a password is changed.               *)
Failed == failures' = IF Limited THEN failures ELSE failures + 1

(* The portal does nothing else while it verifies a password.               *)
Login(u) ==
    /\ ~Limited
    /\ status[u] = "active"
    /\ password[u] # Unusable
    /\ entering' = {[user |-> u, with |-> password[u]]}
    /\ UNCHANGED <<status, admin, password, greeted, links, sessions, request, failures,
                   console, removing, crossed>>

Enter(s) ==
    /\ failures' = 0
    /\ greeted' = [greeted EXCEPT ![s.user] = TRUE]
    /\ sessions' = sessions \cup {s}
    /\ entering' = {}
    /\ crossed' = (crossed \/ status[s.user] # "active" \/ s.with # password[s.user])
    /\ UNCHANGED <<status, admin, password, links, request, console, removing>>

LoginRefused ==
    /\ Failed
    /\ UNCHANGED <<status, admin, password, greeted, links, sessions, request, host>>

WindowPasses ==
    /\ failures' = 0
    /\ UNCHANGED <<status, admin, password, greeted, links, sessions, request, host>>

(* A session or a link reaches its age; the purge removes what expired.     *)
SessionExpires(s) ==
    /\ sessions' = sessions \ {s}
    /\ UNCHANGED <<status, admin, password, greeted, links, request, failures, host>>

LinkExpires(i) ==
    /\ links' = [links EXCEPT ![i].open = FALSE]
    /\ UNCHANGED <<status, admin, password, greeted, sessions, request, failures, host>>

(* The holder of an open link of an active account sets the password.       *)
Redeem(i) ==
    /\ i \in DOMAIN links
    /\ links[i].open
    /\ LET u == links[i].user IN
         /\ status[u] = "active"
         /\ \E p \in ChosenAfter("link") : password' = [password EXCEPT ![u] = p]
         /\ links' = [links EXCEPT ![i].open = FALSE]
         /\ EndSessions(u)
    /\ UNCHANGED <<status, admin, greeted, request, failures, host>>

-----------------------------------------------------------------------------
(* Handlers of people who are in *)

(* _need_user: a session of an active account, looked up before the form.   *)
(* What is refused whatever comes in between is left out: what an           *)
(* administrator asks of the own account, the creation of one there is.     *)
Arrive(u, r) ==
    /\ request[u] = Idle
    /\ status[u] = "active"
    /\ IF r.op \in {"password", "logout"}
         THEN [user |-> u, with |-> r.knows] \in sessions
         ELSE /\ SessionsOf(u) # {} /\ admin[u] /\ r.on # u
              /\ r.op = "create" => ~Exists(r.on)
    /\ request' = [request EXCEPT ![u] = r]
    /\ UNCHANGED <<status, admin, password, greeted, links, sessions, failures, host>>

Done(u) == request' = [request EXCEPT ![u] = Idle]

(* The form never comes, what it asks for is refused, or the commit fails.  *)
Drop(u) ==
    /\ request[u] # Idle
    /\ Done(u)
    /\ removing' = removing \ {u}
    /\ UNCHANGED <<status, admin, password, greeted, links, sessions, failures, console,
                   entering, crossed>>

(* Fault: links issued before stay open.                                    *)
IssuedBeside(u, purpose) == Append(links, [user |-> u, purpose |-> purpose, open |-> TRUE])

(* A new link closes the open ones of the account.                          *)
Issued(u, purpose) == Append(Closed(u), [user |-> u, purpose |-> purpose, open |-> TRUE])

CreateAccount(by) ==
    LET r == request[by] IN
    /\ r.op = "create"
    /\ ~Exists(r.on)
    /\ Len(links) < MaxLinks
    /\ status' = [status EXCEPT ![r.on] = "active"]
    /\ admin' = [admin EXCEPT ![r.on] = r.admin]
    /\ links' = Issued(r.on, "invite")
    /\ Done(by)
    /\ UNCHANGED <<password, greeted, sessions, failures, host>>

(* An account that was never entered is invited again.                      *)
Purpose(u) == IF greeted[u] THEN "reset" ELSE "invite"

(* Fault: the link alone replaces the password, once it is used.            *)
LockOutLater(u, purpose) == UNCHANGED <<password, sessions>>

(* A reset locks the old password and its sessions out at once.             *)
LockOut(u, purpose) ==
    IF purpose = "reset"
      THEN password' = [password EXCEPT ![u] = Unusable] /\ EndSessions(u)
      ELSE UNCHANGED <<password, sessions>>

IssueAccessLink(by) ==
    LET r == request[by] IN
    /\ r.op = "link"
    /\ r.on # by
    /\ status[r.on] = "active"
    /\ Len(links) < MaxLinks
    /\ links' = Issued(r.on, Purpose(r.on))
    /\ LockOut(r.on, Purpose(r.on))
    /\ Done(by)
    /\ UNCHANGED <<status, admin, greeted, failures, host>>

(* Fault: whoever asks is an administrator, so one remains.                 *)
ExpendableUncounted(u) == TRUE

(* Another administrator is active if this one no longer is.                *)
Expendable(u) == u \in ActiveAdmins => Cardinality(ActiveAdmins) > 1

Activate(by) ==
    LET r == request[by] IN
    /\ r.op = "activate"
    /\ r.on # by
    /\ status[r.on] = "inactive"
    /\ status' = [status EXCEPT ![r.on] = "active"]
    /\ Done(by)
    /\ UNCHANGED <<admin, password, greeted, links, sessions, failures, host>>

(* The row of whoever is to be removed is locked, and administrators are    *)
(* counted; the count is not looked at again.                               *)
Count(by) ==
    LET r == request[by] IN
    /\ \/ r.op = "deactivate" /\ status[r.on] = "active"
       \/ r.op = "demote" /\ Exists(r.on) /\ admin[r.on]
    /\ r.on # by
    /\ Expendable(r.on)
    /\ removing' = {by}
    /\ UNCHANGED <<status, admin, password, greeted, links, sessions, request, failures,
                   console, entering, crossed>>

Removed(by) ==
    /\ removing' = removing \ {by}
    /\ EndSessions(request[by].on)
    /\ Done(by)
    /\ UNCHANGED <<password, greeted, failures, console, entering, crossed>>

Deactivate(by) ==
    LET r == request[by] IN
    /\ r.op = "deactivate"
    /\ status' = [status EXCEPT ![r.on] = "inactive"]
    /\ links' = Closed(r.on)
    /\ Removed(by)
    /\ UNCHANGED admin

Demote(by) ==
    LET r == request[by] IN
    /\ r.op = "demote"
    /\ admin' = [admin EXCEPT ![r.on] = FALSE]
    /\ Removed(by)
    /\ UNCHANGED <<status, links>>

Grant(by) ==
    LET r == request[by] IN
    /\ r.op = "grant"
    /\ r.on # by
    /\ Exists(r.on)
    /\ ~admin[r.on]
    /\ admin' = [admin EXCEPT ![r.on] = TRUE]
    /\ EndSessions(r.on)
    /\ Done(by)
    /\ UNCHANGED <<status, password, greeted, links, failures, host>>

(* The account is not looked at again: only the password must be right.     *)
(* Every session of it ends and the browser gets a new one.                 *)
ChangePassword(u) ==
    /\ request[u].op = "password"
    /\ ~Limited
    /\ request[u].knows = password[u] /\ password[u] # Unusable
    /\ \E p \in ChosenAfter(password[u].from) :
         /\ p # password[u]
         /\ password' = [password EXCEPT ![u] = p]
         /\ sessions' = (sessions \ SessionsOf(u)) \cup {[user |-> u, with |-> p]}
    /\ failures' = 0
    /\ Done(u)
    /\ UNCHANGED <<status, admin, greeted, links, host>>

ChangeRefused(u) ==
    /\ request[u].op = "password"
    /\ Failed
    /\ Done(u)
    /\ UNCHANGED <<status, admin, password, greeted, links, sessions, host>>

Logout(u) ==
    /\ request[u].op = "logout"
    /\ sessions' = sessions \ {[user |-> u, with |-> request[u].knows]}
    /\ Done(u)
    /\ UNCHANGED <<status, admin, password, greeted, links, failures, host>>

-----------------------------------------------------------------------------
Handler(u) ==
    \/ Drop(u) \/ CreateAccount(u) \/ IssueAccessLink(u)
    \/ Activate(u) \/ Grant(u) \/ Count(u)
    \/ ChangePassword(u) \/ ChangeRefused(u) \/ Logout(u)

Portal ==
    \/ \E u \in Users : Login(u) \/ Handler(u)
    \/ \E u \in Users, r \in Request \ {Idle} : Arrive(u, r)
    \/ LoginRefused
    \/ \E i \in DOMAIN links : Redeem(i)

Host ==
    \/ \E u \in Users : Bootstrap(u) \/ Ask(u) \/ Admit(u) \/ HostResets(u)
    \/ \E c \in console : GiveUp(c)
    \/ \E by, u \in Users, b \in BOOLEAN : HostCreates(by, u, b) \/ HostDisables(by, u, b)

Clock ==
    \/ WindowPasses
    \/ \E s \in sessions : SessionExpires(s)
    \/ \E i \in DOMAIN links : LinkExpires(i)

Next ==
    \/ entering = {} /\ removing = {} /\ Portal
    \/ \E s \in entering : Enter(s)
    \/ \E u \in removing : Deactivate(u) \/ Demote(u) \/ Drop(u)
    \/ Host
    \/ Clock

Spec == Init /\ [][Next]_vars
-----------------------------------------------------------------------------
(* Properties *)

(* Once there is an account there is an active administrator, though        *)
(* administrators whose own account was closed while their form was on its  *)
(* way still close and demote others.  The one exception is a command that  *)
(* closes an administrator when its operator has been closed or demoted     *)
(* since the account was looked up and the role was read: the command counts*)
(* nobody.                                                                  *)
AlwaysAnAdmin == (\E u \in Users : Exists(u)) /\ ~crossed => ActiveAdmins # {}

(* Whatever replaced a password - its holder, a link, the host - ended the  *)
(* sessions that were opened with it; the one exception is a login that was *)
(* being verified when the host replaced the password.                      *)
SessionsOfPresentPassword == ~crossed =>
    \A s \in sessions : s.with = password[s.user]

(* Only the last link handed over for an account opens it.                  *)
OneOpenLink == \A i, j \in DOMAIN links :
    i < j /\ links[i].user = links[j].user => ~links[i].open

(* While a link for a new password is out, no password that an earlier link *)
(* let its holder choose opens the account, and a handler that was under way*)
(* cannot choose one: only the host's command can let the holder in.        *)
ResetLocksOut == \A i \in DOMAIN links :
    links[i].open /\ links[i].purpose = "reset" => password[links[i].user].from # "link"

(* Closing an account ends its sessions for good: one that is inactive has  *)
(* no session that would be good again when it is reactivated.              *)
DeactivatedHasNoSession == ~crossed =>
    \A s \in sessions : status[s.user] # "inactive"
=============================================================================
