--------------------------- MODULE AccountsProofs ---------------------------
(* Theorems about Accounts, for any people, passwords, limit and number of  *)
(* links.                                                                   *)
EXTENDS Accounts, SequenceTheorems, FiniteSetTheorems, TLAPS

-----------------------------------------------------------------------------
(* Type correctness *)

LEMMA UnusableIsPassword == Unusable \in Password
  BY DEF Password

(* Whoever is the host or comes through a link leaves a password.           *)
LEMMA ChosenIsPassword ==
    ASSUME NEW from, from \in {"host", "link"}, NEW p \in ChosenAfter(from)
    PROVE  p \in Password /\ p.from = from
  BY DEF ChosenAfter, Password

(* Closing links keeps their number, their accounts and their purposes.     *)
LEMMA ClosedLinks ==
    ASSUME links \in Seq(Link), NEW u
    PROVE  /\ Closed(u) \in Seq(Link)
           /\ Len(Closed(u)) = Len(links)
           /\ \A i \in 1 .. Len(links) :
                Closed(u)[i] = IF links[i].user = u THEN [links[i] EXCEPT !.open = FALSE]
                                                    ELSE links[i]
  <1>1. /\ Len(links) \in Nat
        /\ DOMAIN links = 1 .. Len(links)
        /\ links \in [1 .. Len(links) -> Link]
    BY LenProperties
  <1>2. \A i \in 1 .. Len(links) : [links[i] EXCEPT !.open = FALSE] \in Link
    BY <1>1 DEF Link
  <1>3. Closed(u) \in [1 .. Len(links) -> Link]
    BY <1>1, <1>2 DEF Closed
  <1>4. Closed(u) \in Seq(Link)
    BY <1>1, <1>3, SeqDef
  <1>5. DOMAIN Closed(u) = 1 .. Len(links)
    BY <1>3
  <1>6. Len(Closed(u)) = Len(links)
    BY <1>1, <1>4, <1>5, LenProperties
  <1> QED
    BY <1>1, <1>4, <1>6 DEF Closed

(* A link is issued after all others, and those of its account are closed.  *)
LEMMA IssuedLinks ==
    ASSUME links \in Seq(Link), NEW u \in Users, NEW purpose \in {"invite", "reset"}
    PROVE  /\ Issued(u, purpose) \in Seq(Link)
           /\ Len(Issued(u, purpose)) = Len(links) + 1
           /\ \A i \in 1 .. Len(links) : Issued(u, purpose)[i] =
                IF links[i].user = u THEN [links[i] EXCEPT !.open = FALSE] ELSE links[i]
           /\ Issued(u, purpose)[Len(links) + 1]
                = [user |-> u, purpose |-> purpose, open |-> TRUE]
  <1> DEFINE new == [user |-> u, purpose |-> purpose, open |-> TRUE]
  <1>1. new \in Link
    BY DEF Link
  <1>2. /\ Closed(u) \in Seq(Link)
        /\ Len(Closed(u)) = Len(links)
        /\ Len(links) \in Nat
    BY ClosedLinks, LenProperties
  <1>3. /\ Append(Closed(u), new) \in Seq(Link)
        /\ Len(Append(Closed(u), new)) = Len(links) + 1
        /\ \A i \in 1 .. Len(links) : Append(Closed(u), new)[i] = Closed(u)[i]
        /\ Append(Closed(u), new)[Len(links) + 1] = new
    <2> HIDE DEF new
    <2> QED
      BY <1>1, <1>2, AppendProperties
  <1> QED
    BY <1>3, ClosedLinks DEF Issued

LEMMA TypeInit == Init => TypeOK
  <1> SUFFICES ASSUME Init PROVE TypeOK
    OBVIOUS
  <1>1. request \in [Users -> Request]
    BY DEF Init, Request
  <1>2. password \in [Users -> Password]
    BY UnusableIsPassword DEF Init
  <1>3. links \in Seq(Link)
    BY EmptySeq DEF Init
  <1>4. /\ status \in [Users -> {"absent", "active", "inactive"}]
        /\ admin \in [Users -> BOOLEAN]
        /\ greeted \in [Users -> BOOLEAN]
        /\ failures \in 0 .. LoginLimit
        /\ sessions = {} /\ console = {} /\ entering = {} /\ removing = {}
    BY LimitsAssumption DEF Init
  <1>5. crossed \in BOOLEAN
    BY Zenon DEF Init
  <1> QED
    BY <1>1, <1>2, <1>3, <1>4, <1>5 DEF TypeOK

LEMMA TypeNext == TypeOK /\ [Next]_vars => TypeOK'
  <1> SUFFICES ASSUME TypeOK, [Next]_vars PROVE TypeOK'
    OBVIOUS
  <1> USE LimitsAssumption DEF TypeOK
  <1>a. Idle \in Request
    BY DEF Request
  <1>b. ASSUME NEW u \in Users, Done(u) PROVE request' \in [Users -> Request]
    BY <1>a, <1>b DEF Done
  <1>c. ASSUME NEW u \in Users, NEW r, r = request[u], r.op \in OnAccount \cup {"create"}
        PROVE  r.on \in Users
    BY <1>c DEF Request, Idle, OnAccount
  <1>d. ASSUME NEW u \in Users, EndSessions(u)
        PROVE  sessions' \subseteq [user : Users, with : Password]
    BY <1>d DEF EndSessions
  <1>e. ASSUME NEW i \in DOMAIN links, links' = [links EXCEPT ![i].open = FALSE]
        PROVE  links' \in Seq(Link)
    <2>1. i \in 1 .. Len(links) /\ links[i] \in Link
      BY LenProperties, ElementOfSeq
    <2>2. [links[i] EXCEPT !.open = FALSE] \in Link
      BY <2>1 DEF Link
    <2> QED
      BY <1>e, <2>1, <2>2, ExceptSeq
  <1>f. ASSUME Failed PROVE failures' \in 0 .. LoginLimit
    BY <1>f DEF Failed, Limited
  <1>1. ASSUME NEW u \in Users, Bootstrap(u) PROVE TypeOK'
    BY <1>1, ChosenIsPassword DEF Bootstrap, host
  <1>2. ASSUME NEW by \in Users, Ask(by) PROVE TypeOK'
    <2>1. [by |-> by, let |-> FALSE] \in [by : Users, let : BOOLEAN]
      OBVIOUS
    <2> QED
      BY <1>2, <2>1 DEF Ask
  <1>3. ASSUME NEW c \in console, GiveUp(c) PROVE TypeOK'
    BY <1>3 DEF GiveUp
  <1>4. ASSUME NEW by \in Users, NEW u \in Users, NEW adm \in BOOLEAN, HostCreates(by, u, adm)
        PROVE  TypeOK'
    BY <1>4, ChosenIsPassword DEF HostCreates, Operator
  <1>5. ASSUME NEW by \in Users, NEW u \in Users, NEW disable \in BOOLEAN,
               HostDisables(by, u, disable)
        PROVE  TypeOK'
    BY <1>5, <1>d DEF HostDisables, Operator
  <1>6. ASSUME NEW u \in Users, HostResets(u) PROVE TypeOK'
    BY <1>6, <1>d, ChosenIsPassword DEF HostResets, host
  <1>7. ASSUME NEW u \in Users, Login(u) PROVE TypeOK'
    BY <1>7 DEF Login
  <1>8. ASSUME NEW s \in entering, Enter(s) PROVE TypeOK'
    BY <1>8 DEF Enter
  <1>9. CASE LoginRefused
    BY <1>9, <1>f DEF LoginRefused, host
  <1>10. CASE WindowPasses
    BY <1>10 DEF WindowPasses, host
  <1>11. ASSUME NEW s \in sessions, SessionExpires(s) PROVE TypeOK'
    BY <1>11 DEF SessionExpires, host
  <1>12. ASSUME NEW i \in DOMAIN links, LinkExpires(i) PROVE TypeOK'
    BY <1>12, <1>e DEF LinkExpires, host
  <1>13. ASSUME NEW i \in DOMAIN links, Redeem(i) PROVE TypeOK'
    <2>1. links[i].user \in Users
      <3>1. links[i] \in Link
        BY LenProperties, ElementOfSeq
      <3> QED
        BY <3>1 DEF Link
    <2>2. /\ password' \in [Users -> Password]
          /\ sessions' \subseteq [user : Users, with : Password]
      BY <1>13, <1>d, <2>1, ChosenIsPassword DEF Redeem
    <2>3. links' \in Seq(Link)
      BY <1>13, <1>e DEF Redeem
    <2> QED
      BY <1>13, <2>2, <2>3 DEF Redeem, host
  <1>14. ASSUME NEW u \in Users, NEW r \in Request \ {Idle}, Arrive(u, r) PROVE TypeOK'
    BY <1>14 DEF Arrive, host
  <1>15. ASSUME NEW u \in Users, Drop(u) PROVE TypeOK'
    BY <1>15, <1>b DEF Drop
  <1>16. ASSUME NEW by \in Users, CreateAccount(by) PROVE TypeOK'
    <2>1. /\ request[by].on \in Users
          /\ request[by].admin \in BOOLEAN
      <3>1. request[by] \in Request /\ request[by].op = "create"
        BY <1>16 DEF CreateAccount
      <3>2. request[by] \in [op : {"create"}, on : Users, admin : BOOLEAN]
        BY <3>1 DEF Request, Idle, OnAccount
      <3> QED
        BY <3>2
    <2>2. links' \in Seq(Link)
      BY <1>16, <2>1, IssuedLinks DEF CreateAccount
    <2> QED
      BY <1>16, <1>b, <2>1, <2>2 DEF CreateAccount, host
  <1>17. ASSUME NEW by \in Users, IssueAccessLink(by) PROVE TypeOK'
    <2> DEFINE u == request[by].on
    <2>1. u \in Users
      BY <1>17, <1>c DEF IssueAccessLink, OnAccount
    <2>2. links' \in Seq(Link)
      BY <1>17, <2>1, IssuedLinks DEF IssueAccessLink, Purpose
    <2>3. /\ password' \in [Users -> Password]
          /\ sessions' \subseteq [user : Users, with : Password]
      BY <1>17, <1>d, <2>1, UnusableIsPassword DEF IssueAccessLink, LockOut
    <2> QED
      BY <1>17, <1>b, <2>2, <2>3 DEF IssueAccessLink, host
  <1>18. ASSUME NEW by \in Users, Activate(by) PROVE TypeOK'
    BY <1>18, <1>b, <1>c DEF Activate, OnAccount, host
  <1>19. ASSUME NEW by \in Users, Deactivate(by) PROVE TypeOK'
    <2>1. request[by].on \in Users
      BY <1>19, <1>c DEF Deactivate, OnAccount
    <2> QED
      BY <1>19, <1>b, <1>d, <2>1, ClosedLinks DEF Deactivate, Removed
  <1>20. ASSUME NEW by \in Users, Demote(by) PROVE TypeOK'
    <2>1. request[by].on \in Users
      BY <1>20, <1>c DEF Demote, OnAccount
    <2> QED
      BY <1>20, <1>b, <1>d, <2>1 DEF Demote, Removed
  <1>21. ASSUME NEW u \in Users, ChangePassword(u) PROVE TypeOK'
    <2>1. PICK p \in ChosenAfter(password[u].from) :
            /\ password' = [password EXCEPT ![u] = p]
            /\ sessions' = (sessions \ SessionsOf(u)) \cup {[user |-> u, with |-> p]}
      BY <1>21 DEF ChangePassword
    <2>2. password[u].from \in {"host", "link"}
      BY <1>21 DEF ChangePassword, Password
    <2>3. p \in Password
      BY <2>2, ChosenIsPassword
    <2> QED
      BY <1>21, <1>b, <2>1, <2>3 DEF ChangePassword, host
  <1>22. ASSUME NEW u \in Users, ChangeRefused(u) PROVE TypeOK'
    BY <1>22, <1>b, <1>f DEF ChangeRefused, host
  <1>23. ASSUME NEW u \in Users, Logout(u) PROVE TypeOK'
    BY <1>23, <1>b DEF Logout, host
  <1>24. ASSUME NEW by \in Users, Admit(by) PROVE TypeOK'
    <2>1. [by |-> by, let |-> TRUE] \in [by : Users, let : BOOLEAN]
      OBVIOUS
    <2> QED
      BY <1>24, <2>1 DEF Admit
  <1>25. ASSUME NEW by \in Users, Grant(by) PROVE TypeOK'
    <2>1. request[by].on \in Users
      BY <1>25, <1>c DEF Grant, OnAccount
    <2> QED
      BY <1>25, <1>b, <1>d, <2>1 DEF Grant, host
  <1>26. ASSUME NEW by \in Users, Count(by) PROVE TypeOK'
    BY <1>26 DEF Count
  <1>27. CASE UNCHANGED vars
    BY <1>27 DEF vars, host
  <1> QED
    BY <1>1, <1>2, <1>3, <1>4, <1>5, <1>6, <1>7, <1>8, <1>9, <1>10, <1>11, <1>12, <1>13,
       <1>14, <1>15, <1>16, <1>17, <1>18, <1>19, <1>20, <1>21, <1>22, <1>23, <1>24, <1>25,
       <1>26, <1>27
    DEF Next, Portal, Host, Clock, Handler, TypeOK

(* Accounts!TypeOK: in particular the failed logins of an address are never *)
(* counted beyond the limit, whichever handler counts them.                 *)
THEOREM AccountsTyped == Spec => []TypeOK
  BY TypeInit, TypeNext, PTL DEF Spec

-----------------------------------------------------------------------------
(* Nobody comes in, asks or is looked up who has no account: accounts are   *)
(* never removed.                                                           *)

KnownPeople ==
    /\ \A c \in console : Exists(c.by)
    /\ \A u \in Users : request[u] # Idle => Exists(u)
    /\ \A s \in sessions \cup entering : Exists(s.user)
    /\ \A u \in removing : request[u] # Idle

LEMMA KnownNext == TypeOK /\ KnownPeople /\ [Next]_vars => KnownPeople'
  <1> SUFFICES ASSUME TypeOK, KnownPeople, [Next]_vars PROVE KnownPeople'
    OBVIOUS
  <1>a. /\ status \in [Users -> {"absent", "active", "inactive"}]
        /\ request \in [Users -> Request]
        /\ sessions \subseteq [user : Users, with : Password]
        /\ entering \subseteq [user : Users, with : Password]
        /\ console \subseteq [by : Users, let : BOOLEAN]
        /\ removing \subseteq Users
    BY DEF TypeOK
  <1>b. ASSUME NEW u \in Users, NEW r, r = request[u], r.op \in OnAccount \cup {"create"}
        PROVE  r.on \in Users
    BY <1>a, <1>b DEF Request, Idle, OnAccount
  <1>1. \A u \in Users : Exists(u) => Exists(u)'
    <2>1. ASSUME NEW by \in Users, Deactivate(by) PROVE \A u \in Users : Exists(u) => Exists(u)'
      BY <2>1, <1>a DEF Deactivate, Removed, Exists
    <2>2. ASSUME NEW by \in Users, Activate(by) PROVE \A u \in Users : Exists(u) => Exists(u)'
      BY <2>2, <1>a DEF Activate, Exists
    <2>3. ASSUME NEW by \in Users, CreateAccount(by) PROVE \A u \in Users : Exists(u) => Exists(u)'
      BY <2>3, <1>a DEF CreateAccount, Exists
    <2>4. ASSUME NEW by \in Users, NEW u \in Users, NEW disable \in BOOLEAN,
                 HostDisables(by, u, disable)
          PROVE  \A v \in Users : Exists(v) => Exists(v)'
      BY <2>4, <1>a DEF HostDisables, Exists
    <2>5. ASSUME NEW by \in Users, NEW u \in Users, NEW adm \in BOOLEAN,
                 HostCreates(by, u, adm)
          PROVE  \A v \in Users : Exists(v) => Exists(v)'
      BY <2>5, <1>a DEF HostCreates, Exists
    <2>6. ASSUME NEW u \in Users, Bootstrap(u) PROVE \A v \in Users : Exists(v) => Exists(v)'
      BY <2>6, <1>a DEF Bootstrap, Exists
    <2>7. CASE UNCHANGED status
      BY <2>7 DEF Exists
    <2> QED
      BY <1>a, <2>1, <2>2, <2>3, <2>4, <2>5, <2>6, <2>7
      DEF Next, Portal, Host, Clock, Handler, vars, host, Ask, GiveUp, HostResets, Login,
          Enter, LoginRefused, WindowPasses, SessionExpires, LinkExpires, Redeem, Arrive,
          Drop, IssueAccessLink, Count, Demote, Grant, Removed, Admit, Operator,
          ChangePassword, ChangeRefused, Logout
  <1>2. \A c \in console' : (\E d \in console : d.by = c.by) \/ Exists(c.by)
    <2> DEFINE Known == \A c \in console' : (\E d \in console : d.by = c.by) \/ Exists(c.by)
    <2>1. ASSUME NEW by \in Users, Ask(by) PROVE Known
      BY <2>1 DEF Ask, Exists
    <2>2. ASSUME NEW by \in Users, Admit(by) PROVE Known
      <3> DEFINE asked == [by |-> by, let |-> FALSE]
                 admitted == [by |-> by, let |-> TRUE]
      <3>1. /\ asked \in console
            /\ console' = (console \ {asked}) \cup {admitted}
        BY <2>2 DEF Admit
      <3>2. asked.by = by /\ admitted.by = by
        OBVIOUS
      <3> HIDE DEF asked, admitted
      <3> QED
        BY <3>1, <3>2
    <2>3. CASE console' \subseteq console
      BY <2>3
    <2>4. CASE UNCHANGED console
      BY <2>4
    <2> QED
      BY <2>1, <2>2, <2>3, <2>4
      DEF Next, Portal, Host, Clock, Handler, vars, host, GiveUp, HostResets, Login, Enter,
          LoginRefused, WindowPasses, SessionExpires, LinkExpires, Redeem, Arrive, Drop,
          IssueAccessLink, Count, Demote, Grant, Removed, Operator, ChangePassword,
          ChangeRefused, Logout, Bootstrap, HostCreates, HostDisables, CreateAccount,
          Activate, Deactivate
  <1>3. \A u \in Users : request'[u] = request[u] \/ request'[u] = Idle \/ Exists(u)
    BY <1>a DEF Next, Portal, Host, Clock, Handler, vars, host, Ask, GiveUp, HostResets,
          Login, Enter, LoginRefused, WindowPasses, SessionExpires, LinkExpires, Redeem,
          Arrive, Drop, Done, IssueAccessLink, Count, Demote, Grant, Removed, Admit,
          Operator, ChangePassword, ChangeRefused, Logout, Bootstrap, HostCreates,
          HostDisables, CreateAccount, Activate, Deactivate, Exists
  <1>4. \A s \in sessions' \cup entering' : s \in sessions \cup entering \/ Exists(s.user)
    <2>1. ASSUME NEW u \in Users, Login(u)
          PROVE  \A s \in sessions' \cup entering' : s \in sessions \cup entering \/ Exists(s.user)
      BY <2>1 DEF Login, Exists
    <2>2. ASSUME NEW u \in Users, ChangePassword(u)
          PROVE  \A s \in sessions' \cup entering' : s \in sessions \cup entering \/ Exists(s.user)
      <3>1. Exists(u)
        BY <2>2 DEF ChangePassword, KnownPeople, Idle
      <3> QED
        BY <2>2, <3>1 DEF ChangePassword, host
    <2>3. CASE sessions' \cup entering' \subseteq sessions \cup entering
      BY <2>3
    <2>4. ASSUME NEW by \in Users, IssueAccessLink(by)
          PROVE  sessions' \cup entering' \subseteq sessions \cup entering
      BY <2>4 DEF IssueAccessLink, LockOut, EndSessions, host
    <2>5. ASSUME NEW s \in entering, Enter(s)
          PROVE  sessions' \cup entering' \subseteq sessions \cup entering
      BY <2>5 DEF Enter
    <2>6. CASE sessions' \subseteq sessions /\ entering' \subseteq entering
      BY <2>6
    <2> QED
      BY <2>1, <2>2, <2>3, <2>4, <2>5, <2>6
      DEF Next, Portal, Host, Clock, Handler, vars, host, Ask, GiveUp, HostResets,
          LoginRefused, WindowPasses, SessionExpires, LinkExpires, Redeem, Arrive, Drop,
          Count, Demote, Grant, Removed, Admit, Operator, ChangeRefused, Logout, Bootstrap,
          HostCreates, HostDisables, CreateAccount, Activate, Deactivate, EndSessions
  <1>5. \A u \in removing' : request'[u] # Idle
    <2>1. ASSUME NEW by \in Users, Count(by) PROVE \A u \in removing' : request'[u] # Idle
      BY <2>1 DEF Count, Idle
    <2>2. CASE removing' = {}
      BY <2>2
    <2>3. CASE removing' \subseteq removing /\ UNCHANGED request
      BY <2>3 DEF KnownPeople
    <2>4. ASSUME NEW by \in removing, removing' = removing \ {by}, Done(by)
          PROVE  \A u \in removing' : request'[u] # Idle
      BY <2>4, <1>a DEF KnownPeople, Done
    <2> QED
      BY <2>1, <2>2, <2>3, <2>4
      DEF Next, Portal, Host, Clock, Handler, vars, host, Ask, GiveUp, HostResets, Login,
          Enter, LoginRefused, WindowPasses, SessionExpires, LinkExpires, Redeem, Arrive,
          Drop, IssueAccessLink, Count, Demote, Grant, Removed, Admit, Operator,
          ChangePassword, ChangeRefused, Logout, Bootstrap, HostCreates, HostDisables,
          CreateAccount, Activate, Deactivate
  <1> QED
    <2>1. \A c \in console' : Exists(c.by)'
      BY <1>a, <1>1, <1>2, TypeNext DEF KnownPeople, TypeOK
    <2> QED
      BY <1>a, <1>1, <1>3, <1>4, <1>5, <2>1, TypeNext DEF KnownPeople, TypeOK

-----------------------------------------------------------------------------
(* An administrator remains.                                                *)

(* Who may be spared leaves another active administrator behind.            *)
LEMMA AnotherAdmin ==
    ASSUME NEW u \in Users, Expendable(u), ActiveAdmins # {}
    PROVE  \E v \in ActiveAdmins : v # u
  <1>1. CASE u \notin ActiveAdmins
    BY <1>1
  <1>2. CASE u \in ActiveAdmins
    <2>1. IsFiniteSet(ActiveAdmins)
      BY UsersAssumption, FS_Subset DEF ActiveAdmins
    <2>2. Cardinality(ActiveAdmins) > 1
      BY <1>2 DEF Expendable
    <2>3. ActiveAdmins # {u}
      BY <2>1, <2>2, FS_Singleton
    <2> QED
      BY <1>2, <2>3
  <1> QED
    BY <1>1, <1>2

(* One handler at most has counted the administrators, and whoever it       *)
(* removes is not the last one: the command keeps the operator, whose row   *)
(* the handler cannot hold.                                                 *)
Counted ==
    /\ \A v, w \in removing : v = w
    /\ ~crossed => \A v \in removing : \E a \in ActiveAdmins : a # request[v].on

AdminInv == TypeOK /\ KnownPeople /\ AlwaysAnAdmin /\ Counted

LEMMA CommandKeepsAdmin ==
    ASSUME AdminInv, NEW by \in Users, NEW u \in Users, NEW disable \in BOOLEAN,
           HostDisables(by, u, disable)
    PROVE  AlwaysAnAdmin' /\ Counted'
  <1>a. /\ status \in [Users -> {"absent", "active", "inactive"}]
        /\ crossed \in BOOLEAN
    BY DEF AdminInv, TypeOK
  <1>1. /\ by # u
        /\ by \notin Leaving
        /\ Exists(by)
    BY DEF HostDisables, Operator, AdminInv, KnownPeople
  <1>2. /\ UNCHANGED <<admin, request, removing>>
        /\ crossed => crossed'
        /\ \A v \in Users \ {u} : status'[v] = status[v]
        /\ ~disable => UNCHANGED status
    BY <1>a DEF HostDisables
  <1>3. (ActiveAdmins \ {u}) \subseteq ActiveAdmins'
    BY <1>2 DEF ActiveAdmins
  <1>4. CASE UNCHANGED ActiveAdmins
    BY <1>1, <1>2, <1>4 DEF AdminInv, AlwaysAnAdmin, Counted
  <1>5. CASE by \in ActiveAdmins
    <2>1. by \in ActiveAdmins'
      BY <1>1, <1>3, <1>5
    <2>2. \A v \in removing : by # request[v].on
      BY <1>1 DEF Leaving
    <2> QED
      BY <1>2, <2>1, <2>2 DEF AdminInv, AlwaysAnAdmin, Counted
  <1>6. CASE crossed'
    BY <1>2, <1>6 DEF AdminInv, AlwaysAnAdmin, Counted
  <1>7. UNCHANGED ActiveAdmins \/ by \in ActiveAdmins \/ crossed'
    <2>1. CASE ~disable
      BY <1>2, <2>1 DEF ActiveAdmins
    <2>2. CASE u \notin ActiveAdmins
      <3>1. ActiveAdmins' \subseteq ActiveAdmins
        BY <1>a, <1>2 DEF HostDisables, ActiveAdmins
      <3> QED
        BY <1>3, <2>2, <3>1
    <2>3. CASE disable /\ u \in ActiveAdmins
      BY <1>a, <2>3 DEF HostDisables
    <2> QED
      BY <2>1, <2>2, <2>3
  <1> QED
    BY <1>4, <1>5, <1>6, <1>7

LEMMA AdminNext == AdminInv /\ [Next]_vars => AdminInv'
  <1> SUFFICES ASSUME AdminInv, [Next]_vars PROVE AlwaysAnAdmin' /\ Counted'
    BY TypeNext, KnownNext DEF AdminInv
  <1>a. /\ status \in [Users -> {"absent", "active", "inactive"}]
        /\ admin \in [Users -> BOOLEAN]
        /\ request \in [Users -> Request]
        /\ crossed \in BOOLEAN
        /\ removing \subseteq Users
    BY DEF AdminInv, TypeOK
  <1>b. ASSUME NEW u \in Users, NEW r, r = request[u], r.op \in OnAccount
        PROVE  r.on \in Users
    BY <1>a, <1>b DEF Request, Idle, OnAccount
  <1>c. ASSUME ActiveAdmins \subseteq ActiveAdmins', UNCHANGED crossed,
               \/ removing' = {}
               \/ UNCHANGED <<request, removing>>,
               (\E v \in Users : Exists(v)) \/ ActiveAdmins' # {}
        PROVE  AlwaysAnAdmin' /\ Counted'
    BY <1>c DEF AdminInv, AlwaysAnAdmin, Counted
  <1>d. ASSUME UNCHANGED <<status, admin, crossed>>,
               removing' \subseteq removing,
               \A v \in removing' : request'[v] = request[v]
        PROVE  AlwaysAnAdmin' /\ Counted'
    <2>1. UNCHANGED ActiveAdmins
      BY <1>d DEF ActiveAdmins
    <2> QED
      BY <1>d, <2>1 DEF AdminInv, AlwaysAnAdmin, Counted, Exists
  <1>1. ASSUME NEW u \in Users, Bootstrap(u) PROVE AlwaysAnAdmin' /\ Counted'
    <2>1. removing = {}
      BY <1>1, <1>a DEF Bootstrap, AdminInv, KnownPeople
    <2>2. u \in ActiveAdmins' /\ ActiveAdmins = {}
      BY <1>1, <1>a DEF Bootstrap, ActiveAdmins, Exists
    <2> QED
      BY <1>1, <1>c, <2>1, <2>2 DEF Bootstrap, host
  <1>2. ASSUME NEW by \in Users, NEW u \in Users, NEW adm \in BOOLEAN, HostCreates(by, u, adm)
        PROVE  AlwaysAnAdmin' /\ Counted'
    <2>1. Exists(by)
      BY <1>2 DEF HostCreates, Operator, AdminInv, KnownPeople
    <2>2. ActiveAdmins \subseteq ActiveAdmins'
      BY <1>2, <1>a DEF HostCreates, ActiveAdmins, Exists
    <2> QED
      BY <1>2, <1>c, <2>1, <2>2 DEF HostCreates
  <1>3. ASSUME NEW by \in Users, NEW u \in Users, NEW disable \in BOOLEAN,
               HostDisables(by, u, disable)
        PROVE  AlwaysAnAdmin' /\ Counted'
    BY <1>3, CommandKeepsAdmin
  <1>4. ASSUME NEW by \in Users, removing = {},
               CreateAccount(by) \/ Activate(by) \/ Grant(by)
        PROVE  AlwaysAnAdmin' /\ Counted'
    <2>1. Exists(by)
      BY <1>4 DEF CreateAccount, Activate, Grant, Idle, AdminInv, KnownPeople
    <2>2. /\ UNCHANGED <<crossed, removing>>
          /\ removing' = {}
      BY <1>4 DEF CreateAccount, Activate, Grant, host
    <2>3. ASSUME CreateAccount(by) PROVE ActiveAdmins \subseteq ActiveAdmins'
      BY <2>3, <1>a DEF CreateAccount, ActiveAdmins, Exists
    <2>4. ASSUME Activate(by) PROVE ActiveAdmins \subseteq ActiveAdmins'
      BY <2>4, <1>a DEF Activate, ActiveAdmins
    <2>5. ASSUME Grant(by) PROVE ActiveAdmins \subseteq ActiveAdmins'
      BY <2>5, <1>a DEF Grant, ActiveAdmins
    <2> QED
      BY <1>4, <1>c, <2>1, <2>2, <2>3, <2>4, <2>5
  <1>5. ASSUME NEW by \in Users, Count(by) PROVE AlwaysAnAdmin' /\ Counted'
    <2> DEFINE u == request[by].on
    <2>1. u \in Users
      BY <1>5, <1>b DEF Count, OnAccount
    <2>2. Exists(by) /\ Expendable(u)
      BY <1>5 DEF Count, Idle, AdminInv, KnownPeople
    <2>3. ~crossed => \E a \in ActiveAdmins : a # u
      BY <2>1, <2>2, AnotherAdmin DEF AdminInv, AlwaysAnAdmin
    <2>4. UNCHANGED <<status, admin, request, crossed>> /\ removing' = {by}
      BY <1>5 DEF Count
    <2>5. UNCHANGED ActiveAdmins
      BY <2>4 DEF ActiveAdmins
    <2> QED
      BY <2>3, <2>4, <2>5 DEF AdminInv, AlwaysAnAdmin, Counted, Exists
  <1>6. ASSUME NEW by \in removing, Deactivate(by) \/ Demote(by)
        PROVE  AlwaysAnAdmin' /\ Counted'
    <2> DEFINE u == request[by].on
    <2>1. u \in Users
      BY <1>6, <1>a, <1>b DEF Deactivate, Demote, OnAccount
    <2>2. removing' = {} /\ UNCHANGED crossed
      BY <1>6 DEF Deactivate, Demote, Removed, AdminInv, Counted
    <2>3. ActiveAdmins \ {u} \subseteq ActiveAdmins'
      <3>1. CASE Deactivate(by)
        BY <3>1, <1>a DEF Deactivate, ActiveAdmins
      <3>2. CASE Demote(by)
        BY <3>2, <1>a DEF Demote, ActiveAdmins
      <3> QED
        BY <1>6, <3>1, <3>2
    <2>4. ~crossed => ActiveAdmins \ {u} # {}
      BY DEF AdminInv, Counted
    <2> QED
      BY <2>2, <2>3, <2>4 DEF AlwaysAnAdmin, Counted
  <1>7. ASSUME NEW by \in Users, Drop(by) PROVE AlwaysAnAdmin' /\ Counted'
    BY <1>7, <1>a, <1>d DEF Drop, Done
  <1>8. ASSUME NEW s \in entering, Enter(s) PROVE AlwaysAnAdmin' /\ Counted'
    <2>1. /\ UNCHANGED <<status, admin, request, removing>>
          /\ crossed => crossed'
      BY <1>8, <1>a DEF Enter
    <2>2. UNCHANGED ActiveAdmins
      BY <2>1 DEF ActiveAdmins
    <2> QED
      BY <2>1, <2>2 DEF AdminInv, AlwaysAnAdmin, Counted, Exists
  <1>9. ASSUME NEW u \in Users, NEW r \in Request \ {Idle}, removing = {}, Arrive(u, r)
        PROVE  AlwaysAnAdmin' /\ Counted'
    BY <1>9, <1>d DEF Arrive, host
  <1>10. ASSUME NEW u \in Users, removing = {},
                \/ IssueAccessLink(u) \/ ChangePassword(u) \/ ChangeRefused(u) \/ Logout(u)
         PROVE  AlwaysAnAdmin' /\ Counted'
    BY <1>10, <1>d DEF IssueAccessLink, ChangePassword, ChangeRefused, Logout, host
  <1>11. CASE UNCHANGED <<status, admin, request, removing, crossed>>
    BY <1>11, <1>d
  <1> QED
    BY <1>a, <1>1, <1>2, <1>3, <1>4, <1>5, <1>6, <1>7, <1>8, <1>9, <1>10, <1>11
    DEF Next, Portal, Host, Clock, Handler, vars, host, Ask, Admit, GiveUp, HostResets, Login,
        LoginRefused, WindowPasses, SessionExpires, LinkExpires, Redeem

(* Accounts!AlwaysAnAdmin: whatever handlers of closed or demoted accounts  *)
(* were still under way, and whatever commands committed between the count  *)
(* and the removal, an active administrator remains - unless a command      *)
(* closed one for an operator who by then was none.                         *)
THEOREM AdministratorRemains == Spec => []AlwaysAnAdmin
  <1>1. Init => AdminInv
    BY TypeInit DEF Init, AdminInv, KnownPeople, AlwaysAnAdmin, Counted, Exists
  <1>2. AdminInv => AlwaysAnAdmin
    BY DEF AdminInv
  <1> QED
    BY <1>1, <1>2, AdminNext, PTL DEF Spec

-----------------------------------------------------------------------------
(* Replaced passwords leave no sessions.                                    *)

LEMMA SessionsNext ==
    TypeOK /\ KnownPeople /\ SessionsOfPresentPassword /\ [Next]_vars
        => SessionsOfPresentPassword'
  <1> SUFFICES ASSUME TypeOK, KnownPeople, SessionsOfPresentPassword, [Next]_vars, ~crossed'
               PROVE  \A s \in sessions' : s.with = password'[s.user]
    BY DEF SessionsOfPresentPassword
  <1>a. /\ password \in [Users -> Password]
        /\ sessions \subseteq [user : Users, with : Password]
        /\ request \in [Users -> Request]
        /\ crossed \in BOOLEAN
    BY DEF TypeOK
  <1>b. ~crossed
    BY <1>a DEF Next, Portal, Host, Clock, Handler, vars, host, Ask, GiveUp, HostResets,
          Login, Enter, LoginRefused, WindowPasses, SessionExpires, LinkExpires, Redeem,
          Arrive, Drop, IssueAccessLink, Count, Demote, Grant, Removed, Admit, Operator,
          ChangePassword, ChangeRefused, Logout, Bootstrap, HostCreates, HostDisables,
          CreateAccount, Activate, Deactivate
  <1>c. \A s \in sessions : s.user \in Users /\ s.with = password[s.user]
    BY <1>a, <1>b DEF SessionsOfPresentPassword
  <1> DEFINE Good == \A s \in sessions' : s.with = password'[s.user]
  <1>d. ASSUME NEW u \in Users, sessions' \subseteq sessions \ SessionsOf(u),
               \A v \in Users \ {u} : password'[v] = password[v]
        PROVE  Good
    BY <1>c, <1>d DEF SessionsOf
  <1>1. ASSUME NEW u \in Users, Bootstrap(u) PROVE Good
    <2>1. sessions = {}
      BY <1>1, <1>c DEF Bootstrap, KnownPeople
    <2> QED
      BY <1>1, <2>1 DEF Bootstrap
  <1>2. ASSUME NEW by \in Users, NEW u \in Users, NEW adm \in BOOLEAN, HostCreates(by, u, adm)
        PROVE  Good
    <2>1. \A s \in sessions : s.user # u
      BY <1>2 DEF HostCreates, KnownPeople
    <2>2. UNCHANGED sessions /\ \A v \in Users \ {u} : password'[v] = password[v]
      BY <1>2, <1>a DEF HostCreates
    <2> QED
      BY <1>d, <2>1, <2>2 DEF SessionsOf
  <1>3. ASSUME NEW u \in Users, HostResets(u) PROVE Good
    <2>1. sessions' = sessions \ SessionsOf(u)
      BY <1>3 DEF HostResets, EndSessions
    <2>2. \A v \in Users \ {u} : password'[v] = password[v]
      BY <1>3, <1>a DEF HostResets
    <2> QED
      BY <1>d, <2>1, <2>2
  <1>4. ASSUME NEW s \in entering, Enter(s) PROVE Good
    BY <1>4, <1>c DEF Enter
  <1>5. ASSUME NEW i \in DOMAIN links, Redeem(i) PROVE Good
    <2>1. links[i] \in Link
      BY LenProperties, ElementOfSeq DEF TypeOK
    <2>2. links[i].user \in Users
      BY <2>1 DEF Link
    <2>3. sessions' = sessions \ SessionsOf(links[i].user)
      BY <1>5 DEF Redeem, EndSessions
    <2>4. \A v \in Users \ {links[i].user} : password'[v] = password[v]
      BY <1>5, <1>a DEF Redeem
    <2> QED
      BY <1>d, <2>2, <2>3, <2>4
  <1>6. ASSUME NEW by \in Users, IssueAccessLink(by) PROVE Good
    <2> DEFINE u == request[by].on
    <2>1. u \in Users
      BY <1>6, <1>a DEF IssueAccessLink, Request, Idle, OnAccount
    <2>2. CASE Purpose(u) = "reset"
      <3>1. sessions' = sessions \ SessionsOf(u)
        BY <1>6, <2>2 DEF IssueAccessLink, LockOut, EndSessions
      <3>2. \A v \in Users \ {u} : password'[v] = password[v]
        BY <1>6, <1>a, <2>2 DEF IssueAccessLink, LockOut
      <3> QED
        BY <1>d, <2>1, <3>1, <3>2
    <2>3. CASE Purpose(u) # "reset"
      BY <1>6, <1>c, <2>3 DEF IssueAccessLink, LockOut
    <2> QED
      BY <2>2, <2>3
  <1>7. ASSUME NEW u \in Users, ChangePassword(u) PROVE Good
    <2>1. PICK p : /\ password' = [password EXCEPT ![u] = p]
                   /\ sessions' = (sessions \ SessionsOf(u)) \cup {[user |-> u, with |-> p]}
      BY <1>7 DEF ChangePassword
    <2> QED
      BY <1>a, <1>c, <2>1 DEF SessionsOf
  <1>8. CASE sessions' \subseteq sessions /\ UNCHANGED password
    BY <1>8, <1>c
  <1> QED
    BY <1>1, <1>2, <1>3, <1>4, <1>5, <1>6, <1>7, <1>8
    DEF Next, Portal, Host, Clock, Handler, vars, host, Ask, GiveUp, Login, LoginRefused,
        WindowPasses, SessionExpires, LinkExpires, Arrive, Drop, Count, Demote, Grant,
        Removed, Admit, Operator, ChangeRefused, Logout, HostDisables, CreateAccount,
        Activate, Deactivate, EndSessions

(* Accounts!SessionsOfPresentPassword: no handler or command that replaces  *)
(* a password forgets the sessions that were opened with the old one.       *)
THEOREM OldSessionsEnd == Spec => []SessionsOfPresentPassword
  <1> DEFINE Inv == TypeOK /\ KnownPeople /\ SessionsOfPresentPassword
  <1>1. Init => Inv
    BY TypeInit DEF Init, KnownPeople, SessionsOfPresentPassword
  <1>2. Inv /\ [Next]_vars => Inv'
    BY TypeNext, KnownNext, SessionsNext
  <1>3. Inv => SessionsOfPresentPassword
    OBVIOUS
  <1> QED
    BY <1>1, <1>2, <1>3, PTL DEF Spec

-----------------------------------------------------------------------------
(* Links                                                                    *)

(* A step closes links, or issues one and closes the others of its account; *)
(* who an old link is for, and for what, never changes.                     *)
LEMMA LinkSteps ==
    TypeOK /\ [Next]_vars =>
        /\ Len(links') \in {Len(links), Len(links) + 1}
        /\ \A i \in 1 .. Len(links) :
             /\ links'[i].user = links[i].user
             /\ links'[i].purpose = links[i].purpose
             /\ links'[i].open => links[i].open
        /\ Len(links') = Len(links) + 1 =>
             \A i \in 1 .. Len(links) :
                 links[i].user = links'[Len(links')].user => ~links'[i].open
  <1> DEFINE Closing == /\ Len(links') = Len(links)
                        /\ \A i \in 1 .. Len(links) :
                             /\ links'[i].user = links[i].user
                             /\ links'[i].purpose = links[i].purpose
                             /\ links'[i].open => links[i].open
             Issuing == /\ Len(links') = Len(links) + 1
                        /\ \A i \in 1 .. Len(links) :
                             /\ links'[i].user = links[i].user
                             /\ links'[i].purpose = links[i].purpose
                             /\ links'[i].open => links[i].open
                             /\ links[i].user = links'[Len(links')].user => ~links'[i].open
  <1> SUFFICES ASSUME TypeOK, [Next]_vars PROVE Closing \/ Issuing
    BY LenProperties DEF TypeOK
  <1>a. /\ links \in Seq(Link)
        /\ Len(links) \in Nat
        /\ DOMAIN links = 1 .. Len(links)
        /\ \A i \in 1 .. Len(links) : links[i] \in Link
        /\ request \in [Users -> Request]
        /\ removing \subseteq Users
    BY LenProperties, ElementOfSeq DEF TypeOK
  <1>b. ASSUME NEW e \in Link
        PROVE  /\ [e EXCEPT !.open = FALSE] \in Link
               /\ [e EXCEPT !.open = FALSE].user = e.user
               /\ [e EXCEPT !.open = FALSE].purpose = e.purpose
               /\ ~[e EXCEPT !.open = FALSE].open
    BY DEF Link
  <1>c. ASSUME NEW i \in DOMAIN links, links' = [links EXCEPT ![i].open = FALSE]
        PROVE  Closing
    <2>1. links' = [links EXCEPT ![i] = [links[i] EXCEPT !.open = FALSE]]
      BY <1>c
    <2>2. [links[i] EXCEPT !.open = FALSE] \in Link
      BY <1>a, <1>b
    <2> DEFINE e == [links[i] EXCEPT !.open = FALSE]
    <2>3. /\ Len(links') = Len(links)
          /\ \A j \in 1 .. Len(links) : links'[j] = IF j = i THEN e ELSE links[j]
      <3> HIDE DEF e
      <3> QED
        BY <1>a, <2>1, <2>2, ExceptSeq DEF e
    <2> QED
      BY <1>a, <1>b, <2>3
  <1>d. ASSUME NEW u \in Users, NEW purpose \in {"invite", "reset"}, links' = Issued(u, purpose)
        PROVE  Issuing
    <2>1. /\ Len(links') = Len(links) + 1
          /\ \A i \in 1 .. Len(links) : links'[i] =
               IF links[i].user = u THEN [links[i] EXCEPT !.open = FALSE] ELSE links[i]
          /\ links'[Len(links) + 1] = [user |-> u, purpose |-> purpose, open |-> TRUE]
      <3>1. /\ Len(Issued(u, purpose)) = Len(links) + 1
            /\ \A i \in 1 .. Len(links) : Issued(u, purpose)[i] =
                 IF links[i].user = u THEN [links[i] EXCEPT !.open = FALSE] ELSE links[i]
            /\ Issued(u, purpose)[Len(links) + 1]
                 = [user |-> u, purpose |-> purpose, open |-> TRUE]
        BY <1>a, IssuedLinks
      <3> QED
        BY <1>d, <3>1, Zenon
    <2>2. links'[Len(links')].user = u
      BY <1>a, <2>1
    <2> QED
      BY <1>a, <1>b, <2>1, <2>2
  <1>1. ASSUME NEW i \in DOMAIN links, LinkExpires(i) PROVE Closing
    BY <1>1, <1>c DEF LinkExpires
  <1>2. ASSUME NEW i \in DOMAIN links, Redeem(i) PROVE Closing
    BY <1>2, <1>c DEF Redeem
  <1>3. ASSUME NEW by \in Users, CreateAccount(by) PROVE Issuing
    <2>1. request[by].on \in Users
      BY <1>3, <1>a DEF CreateAccount, Request, Idle, OnAccount
    <2> QED
      BY <1>3, <1>d, <2>1 DEF CreateAccount
  <1>4. ASSUME NEW by \in Users, IssueAccessLink(by) PROVE Issuing
    <2>1. request[by].on \in Users
      BY <1>4, <1>a DEF IssueAccessLink, Request, Idle, OnAccount
    <2>2. Purpose(request[by].on) \in {"invite", "reset"}
      BY DEF Purpose
    <2>3. links' = Issued(request[by].on, Purpose(request[by].on))
      BY <1>4 DEF IssueAccessLink
    <2> QED
      BY <1>d, <2>1, <2>2, <2>3
  <1>5. ASSUME NEW by \in Users, Deactivate(by) PROVE Closing
    <2> DEFINE u == request[by].on
    <2>1. links' = Closed(u)
      BY <1>5 DEF Deactivate
    <2>2. /\ Len(Closed(u)) = Len(links)
          /\ \A i \in 1 .. Len(links) : Closed(u)[i] =
               IF links[i].user = u THEN [links[i] EXCEPT !.open = FALSE] ELSE links[i]
      BY <1>a, ClosedLinks
    <2>3. /\ Len(links') = Len(links)
          /\ \A i \in 1 .. Len(links) : links'[i] =
               IF links[i].user = u THEN [links[i] EXCEPT !.open = FALSE] ELSE links[i]
      BY <2>1, <2>2, Zenon
    <2> QED
      BY <1>a, <1>b, <2>3
  <1>6. CASE UNCHANGED links
    BY <1>6
  <1> QED
    BY <1>a, <1>1, <1>2, <1>3, <1>4, <1>5, <1>6
    DEF Next, Portal, Host, Clock, Handler, vars, host, Ask, GiveUp, Login, Enter,
        HostResets, LoginRefused, WindowPasses, SessionExpires, Arrive, Drop, Count,
        Demote, Grant, Removed, Admit, Operator, Bootstrap, HostCreates, HostDisables,
        ChangePassword, ChangeRefused, Logout, Activate

LEMMA LinkNext == TypeOK /\ OneOpenLink /\ [Next]_vars => OneOpenLink'
  <1> SUFFICES ASSUME TypeOK, OneOpenLink, [Next]_vars PROVE OneOpenLink'
    OBVIOUS
  <1>1. /\ Len(links) \in Nat
        /\ DOMAIN links = 1 .. Len(links)
        /\ DOMAIN links' = 1 .. Len(links')
    BY TypeNext, LenProperties DEF TypeOK
  <1>2. ASSUME NEW i \in 1 .. Len(links'), NEW j \in 1 .. Len(links'), i < j,
               links'[i].user = links'[j].user
        PROVE  ~links'[i].open
    <2> DEFINE n == Len(links)
               m == Len(links')
    <2>0. n \in Nat /\ m \in {n, n + 1}
      BY <1>1, LinkSteps
    <2>1. i \in 1 .. n
      <3> HIDE DEF n, m
      <3> QED
        BY <1>2, <2>0 DEF m
    <2>2. CASE j \in 1 .. Len(links)
      BY <1>1, <1>2, <2>1, <2>2, LinkSteps DEF OneOpenLink
    <2>3. CASE j \notin 1 .. Len(links)
      <3>1. j = m /\ m = n + 1
        <4> HIDE DEF n, m
        <4> QED
          BY <1>2, <2>0, <2>3 DEF n, m
      <3> QED
        BY <1>2, <2>1, <3>1, LinkSteps
    <2> QED
      BY <2>2, <2>3
  <1> QED
    BY <1>1, <1>2 DEF OneOpenLink

(* Accounts!OneOpenLink: however links are issued, redeemed, closed and run *)
(* out, only the last one of an account is ever open.                       *)
THEOREM OneLinkOpens == Spec => []OneOpenLink
  <1>1. Init => TypeOK /\ OneOpenLink
    BY TypeInit DEF Init, OneOpenLink
  <1>2. TypeOK /\ OneOpenLink /\ [Next]_vars => (TypeOK /\ OneOpenLink)'
    BY TypeNext, LinkNext
  <1> QED
    BY <1>1, <1>2, PTL DEF Spec

-----------------------------------------------------------------------------
(* A link for a new password keeps earlier link-holders out.                *)

LEMMA ResetNext == TypeOK /\ OneOpenLink /\ ResetLocksOut /\ [Next]_vars => ResetLocksOut'
  <1> SUFFICES ASSUME TypeOK, OneOpenLink, ResetLocksOut, [Next]_vars,
                      NEW i \in 1 .. Len(links'),
                      links'[i].open, links'[i].purpose = "reset"
               PROVE  password'[links'[i].user].from # "link"
    BY TypeNext, LenProperties DEF TypeOK, ResetLocksOut
  <1>a. /\ Len(links) \in Nat
        /\ DOMAIN links = 1 .. Len(links)
        /\ \A j \in 1 .. Len(links) : links[j] \in Link
        /\ password \in [Users -> Password]
        /\ request \in [Users -> Request]
        /\ removing \subseteq Users
    BY LenProperties, ElementOfSeq DEF TypeOK
  <1> DEFINE Old == i \in 1 .. Len(links)
             u == links[i].user
  <1>b. ASSUME Old
        PROVE  /\ links'[i].user = u
               /\ u \in Users
               /\ links[i].open
               /\ password[u].from # "link"
    <2>1. /\ links'[i].user = links[i].user
          /\ links'[i].purpose = links[i].purpose
          /\ links[i].open
      BY <1>b, LinkSteps
    <2> QED
      BY <1>a, <1>b, <2>1 DEF ResetLocksOut, Link
  <1>c. ASSUME Old, password'[u].from # "link"
        PROVE  password'[links'[i].user].from # "link"
    BY <1>b, <1>c
  <1>d. ASSUME UNCHANGED links PROVE Old
    BY <1>d
  <1>1. ASSUME NEW v \in Users, Bootstrap(v) PROVE password'[links'[i].user].from # "link"
    <2>1. Old
      BY <1>1, <1>d DEF Bootstrap
    <2> QED
      BY <1>1, <1>a, <1>b, <1>c, <2>1, ChosenIsPassword DEF Bootstrap
  <1>2. ASSUME NEW by \in Users, NEW v \in Users, NEW adm \in BOOLEAN, HostCreates(by, v, adm)
        PROVE  password'[links'[i].user].from # "link"
    <2>1. Old
      BY <1>2, <1>d DEF HostCreates
    <2> QED
      BY <1>2, <1>a, <1>b, <1>c, <2>1, ChosenIsPassword DEF HostCreates
  <1>3. ASSUME NEW v \in Users, HostResets(v) PROVE password'[links'[i].user].from # "link"
    <2>1. Old
      BY <1>3, <1>d DEF HostResets
    <2> QED
      BY <1>3, <1>a, <1>b, <1>c, <2>1, ChosenIsPassword DEF HostResets
  <1>4. ASSUME NEW k \in DOMAIN links, Redeem(k) PROVE password'[links'[i].user].from # "link"
    <2>1. k \in 1 .. Len(links) /\ links' = [links EXCEPT ![k].open = FALSE]
      BY <1>4, <1>a DEF Redeem
    <2>2. Len(links') = Len(links) /\ ~links'[k].open
      <3> DEFINE e == [links[k] EXCEPT !.open = FALSE]
      <3>1. e \in Link /\ ~e.open
        BY <1>a, <2>1 DEF Link
      <3>2. links' = [links EXCEPT ![k] = e]
        BY <2>1
      <3>3. links \in Seq(Link)
        BY DEF TypeOK
      <3> HIDE DEF e
      <3>4. Len([links EXCEPT ![k] = e]) = Len(links) /\ [links EXCEPT ![k] = e][k] = e
        BY <2>1, <3>1, <3>3, ExceptSeq
      <3> QED
        BY <3>1, <3>2, <3>4, Zenon
    <2>3. Old /\ i # k
      BY <2>2
    <2>4. links[k].open /\ links[k].user \in Users
      BY <1>4, <1>a, <2>1 DEF Redeem, Link
    <2>5. u # links[k].user
      BY <1>a, <1>b, <2>1, <2>3, <2>4 DEF OneOpenLink
    <2>6. password'[u] = password[u]
      BY <1>4, <1>a, <1>b, <2>3, <2>5 DEF Redeem
    <2> QED
      BY <1>b, <1>c, <2>3, <2>6
  <1>5. ASSUME NEW by \in Users, CreateAccount(by) PROVE password'[links'[i].user].from # "link"
    <2>1. request[by].on \in Users
      BY <1>5, <1>a DEF CreateAccount, Request, Idle, OnAccount
    <2>2. links' = Issued(request[by].on, "invite")
      BY <1>5 DEF CreateAccount
    <2>3. /\ Len(links') = Len(links) + 1
          /\ links'[Len(links) + 1].purpose = "invite"
      <3> DEFINE w == request[by].on
      <3>1. links \in Seq(Link)
        BY DEF TypeOK
      <3>2. w \in Users /\ links' = Issued(w, "invite")
        BY <2>1, <2>2
      <3> HIDE DEF w
      <3>3. /\ Len(Issued(w, "invite")) = Len(links) + 1
            /\ Issued(w, "invite")[Len(links) + 1]
                 = [user |-> w, purpose |-> "invite", open |-> TRUE]
        BY <3>1, <3>2, IssuedLinks
      <3>4. /\ Len(links') = Len(links) + 1
            /\ links'[Len(links) + 1] = [user |-> w, purpose |-> "invite", open |-> TRUE]
        BY <3>2, <3>3, Zenon
      <3> QED
        BY <3>4
    <2>4. Old
      BY <1>a, <2>3
    <2> QED
      BY <1>5, <1>b, <1>c, <2>4 DEF CreateAccount
  <1>6. ASSUME NEW by \in Users, IssueAccessLink(by) PROVE password'[links'[i].user].from # "link"
    <2> DEFINE v == request[by].on
    <2>1. v \in Users /\ Purpose(v) \in {"invite", "reset"}
      BY <1>6, <1>a DEF IssueAccessLink, Request, Idle, OnAccount, Purpose
    <2>2. links' = Issued(v, Purpose(v))
      BY <1>6 DEF IssueAccessLink
    <2>3. /\ Len(links') = Len(links) + 1
          /\ links'[Len(links) + 1] = [user |-> v, purpose |-> Purpose(v), open |-> TRUE]
      <3> DEFINE w == v
                 p == Purpose(v)
      <3>1. links \in Seq(Link)
        BY DEF TypeOK
      <3>2. w \in Users /\ p \in {"invite", "reset"} /\ links' = Issued(w, p)
        BY <2>1, <2>2
      <3> HIDE DEF w, p
      <3>3. /\ Len(Issued(w, p)) = Len(links) + 1
            /\ Issued(w, p)[Len(links) + 1] = [user |-> w, purpose |-> p, open |-> TRUE]
        BY <3>1, <3>2, IssuedLinks
      <3>4. /\ Len(links') = Len(links) + 1
            /\ links'[Len(links) + 1] = [user |-> w, purpose |-> p, open |-> TRUE]
        BY <3>2, <3>3, Zenon
      <3> QED
        BY <3>4 DEF w, p
    <2>4. /\ password' = [password EXCEPT ![v] = Unusable] \/ UNCHANGED password
          /\ Purpose(v) = "reset" => password' = [password EXCEPT ![v] = Unusable]
      BY <1>6 DEF IssueAccessLink, LockOut
    <2>5. Unusable.from = "nobody"
      BY DEF Unusable
    <2>6. CASE Old
      <3>1. password'[u] = password[u] \/ password'[u] = Unusable
        BY <1>a, <1>b, <2>4, <2>6
      <3> QED
        BY <1>b, <1>c, <2>5, <2>6, <3>1
    <2>7. CASE ~Old
      <3>1. i = Len(links) + 1
        BY <1>a, <2>3, <2>7
      <3>2. links'[i].user = v /\ Purpose(v) = "reset"
        BY <2>3, <3>1
      <3> QED
        BY <1>a, <2>1, <2>4, <2>5, <3>2
    <2> QED
      BY <2>6, <2>7
  <1>7. ASSUME NEW v \in Users, ChangePassword(v) PROVE password'[links'[i].user].from # "link"
    <2>1. Old
      BY <1>7, <1>d DEF ChangePassword
    <2>2. PICK p \in ChosenAfter(password[v].from) : password' = [password EXCEPT ![v] = p]
      BY <1>7 DEF ChangePassword
    <2>3. p.from = password[v].from
      BY DEF ChosenAfter
    <2>4. password'[u].from = password[u].from
      BY <1>a, <1>b, <2>1, <2>2, <2>3
    <2> QED
      BY <1>b, <1>c, <2>1, <2>4
  <1>8. CASE UNCHANGED password /\ Len(links') = Len(links)
    BY <1>8, <1>b, <1>c
  <1>9. ASSUME NEW k \in DOMAIN links, links' = [links EXCEPT ![k].open = FALSE]
        PROVE  Len(links') = Len(links)
    <2> DEFINE e == [links[k] EXCEPT !.open = FALSE]
    <2>1. k \in 1 .. Len(links)
      BY <1>a
    <2>2. e \in Link
      BY <1>a, <2>1 DEF Link
    <2>3. links' = [links EXCEPT ![k] = e]
      BY <1>9
    <2> HIDE DEF e
    <2> QED
      BY <2>1, <2>2, <2>3, ExceptSeq DEF TypeOK
  <1>10. ASSUME NEW by \in Users, Deactivate(by) PROVE Len(links') = Len(links)
    <2>1. links' = Closed(request[by].on)
      BY <1>10 DEF Deactivate
    <2>2. Len(Closed(request[by].on)) = Len(links)
      BY ClosedLinks DEF TypeOK
    <2> QED
      BY <2>1, <2>2
  <1> QED
    BY <1>a, <1>1, <1>2, <1>3, <1>4, <1>5, <1>6, <1>7, <1>8, <1>9, <1>10
    DEF Next, Portal, Host, Clock, Handler, vars, host, Ask, GiveUp, Login, Enter,
        LoginRefused, WindowPasses, SessionExpires, LinkExpires, Arrive, Drop, Count,
        Demote, Grant, Removed, Admit, Operator, HostDisables, ChangeRefused, Logout,
        Activate, Deactivate

(* Accounts!ResetLocksOut: while a link for a new password is open, neither *)
(* an earlier link nor a handler under way puts a password of an earlier    *)
(* link's holder in place.                                                  *)
THEOREM ResetHolds == Spec => []ResetLocksOut
  <1> DEFINE Inv == TypeOK /\ OneOpenLink /\ ResetLocksOut
  <1>1. Init => Inv
    BY TypeInit DEF Init, OneOpenLink, ResetLocksOut
  <1>2. Inv /\ [Next]_vars => Inv'
    BY TypeNext, LinkNext, ResetNext
  <1>3. Inv => ResetLocksOut
    OBVIOUS
  <1> QED
    BY <1>1, <1>2, <1>3, PTL DEF Spec

=============================================================================
