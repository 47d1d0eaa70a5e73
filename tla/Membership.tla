----------------------------- MODULE Membership -----------------------------
(***************************************************************************)
(* Who belongs to which family: registration, joining by code, child       *)
(* profiles and their accounts (services/workspace.js, authService.js),    *)
(* e-mail invitations (routes/invite.js) and the deletion of an account.   *)
(*                                                                         *)
(* A workspace is named after the row of the user who founded it.  A code  *)
(* is known by its number in the workspace.  An action is one statement    *)
(* with the code up to the next one; a check that a unique key repeats at  *)
(* the insert is joined to the read after it, requireAuth to the first     *)
(* statement of the handler, and a request that ends in an error before    *)
(* its first write is not started.                                         *)
(***************************************************************************)
EXTENDS Load

CONSTANTS
    Users,      \* bound: rows of User
    Emails,     \* bound: the addresses that people register with
    Profiles,   \* bound: rows of Child
    Invites,    \* bound: rows of EmailInvite
    MaxCodes    \* bound: how many codes of a workspace may run out

ASSUME MembershipAssumption ==
    /\ IsFiniteSet(Users) /\ MaxCodes \in Nat
    /\ Null \notin Users /\ Null \notin Profiles
    /\ "unused" \notin Users /\ "deleted" \notin Users /\ Null # "parentA"

VARIABLES
    users,      \* table User
    codes,      \* inviteCode and inviteCodeExpiresAt of each Workspace
    profiles,   \* table Child: the workspace of each profile
    invites,    \* table EmailInvite
    req         \* what each handler is doing

memberVars == <<load, users, codes, profiles, invites, req>>

-----------------------------------------------------------------------------
(* The tables. *)

Roles == {"parentA", "parentB", "child"}
Member == [ws : Users, role : Roles, profile : Profiles \cup {Null},
           email : Emails \cup {Null}, deleted : BOOLEAN]
NoMember == [ws |-> Null, role |-> Null, profile |-> Null, email |-> Null,
             deleted |-> FALSE]
NewMember(w, role, p, e) ==
    [ws |-> w, role |-> role, profile |-> p, email |-> e, deleted |-> FALSE]

Exists(u) == users[u] # NoMember
Live(u) == Exists(u) /\ ~users[u].deleted
Members(w) == {u \in Users : Live(u) /\ users[u].ws = w}
IsParent(u) == users[u].role \in {"parentA", "parentB"}
Parents(w) == {u \in Members(w) : IsParent(u)}
HasParentB(w) == \E u \in Members(w) : users[u].role = "parentB"
Linked(p) == {u \in Users : users[u].profile = p}

(* User.email is unique; the row of a deleted account holds a placeholder, *)
(* and the address of a child that needs none is made from its profile.    *)
EmailFree(e) == e = Null \/ ~\E u \in Users : Live(u) /\ users[u].email = e
(* User.childProfileId is unique, and a foreign key of Child. *)
ProfileFree(p) == profiles[p] \in Users /\ Linked(p) = {}

(* EmailInvite: its status; one that is "LAPSED" is PENDING past expiresAt. *)
InviteStates == {"PENDING", "LAPSED", "ACCEPTED", "EXPIRED"}
Invite == [inviter : Users, to : Emails, status : InviteStates]
NoInvite == [inviter |-> Null, to |-> Null, status |-> Null]

Steps == {"idle", "create family", "create parentB", "create child account",
          "read graph", "refresh code", "refresh for invite", "create invite",
          "expire invite", "find inviter", "count", "check parentB",
          "create child", "delete child", "delete account"}
Request ==
    [step : Steps,
     user : Users \cup {Null},      \* req.user, or the linked account
     ws : Users \cup {Null},        \* the workspace, as read
     email : Emails \cup {Null},    \* as sent
     profile : Profiles \cup {Null},
     invite : Invites \cup {Null},
     counted : SUBSET {"own", "target"},    \* answers of Promise.all
     target : Users \cup {Null}]    \* inviter.workspaceId

Idle == [step |-> "idle", user |-> Null, ws |-> Null, email |-> Null,
         profile |-> Null, invite |-> Null, counted |-> {}, target |-> Null]

Start(h, kind, request) ==
    /\ h \in Crowd /\ Serves(kind)
    /\ req[h].step = "idle"
    /\ req' = [req EXCEPT ![h] = request]
    /\ UNCHANGED load
At(h, step) == req[h].step = step /\ UNCHANGED load
Goto(h, step) == req' = [req EXCEPT ![h].step = step]
Finish(h) == req' = [req EXCEPT ![h] = Idle]
(* buildAuthPayload: the answer holds the graph of the user's workspace. *)
ThenGraph(h, w) == req' = [req EXCEPT ![h] = [Idle EXCEPT !.step = "read graph", !.ws = w]]

MemberInit ==
    /\ LoadInit
    /\ users = [u \in Users |-> NoMember]
    /\ codes = [w \in Users |-> [made |-> 0, expired |-> FALSE]]
    /\ profiles = [p \in Profiles |-> "unused"]
    /\ invites = [i \in Invites |-> NoInvite]
    /\ req = [h \in Handlers |-> Idle]

WorkspaceExists(w) == codes[w].made > 0

MemberTypeOK ==
    /\ load \in Loads
    /\ users \in [Users -> Member \cup {NoMember}]
    /\ codes \in [Users -> [made : Nat, expired : BOOLEAN]]
    /\ profiles \in [Profiles -> Users \cup {"unused", "deleted"}]
    /\ invites \in [Invites -> Invite \cup {NoInvite}]
    /\ req \in [Handlers -> Request]

-----------------------------------------------------------------------------
(* The family: registration, the code, joining. *)

(* POST /register checks the e-mail, hashes the password... *)
RegisterUser(h, e) ==
    /\ EmailFree(e)                         \* else email_in_use
    /\ Start(h, "register", [Idle EXCEPT !.step = "create family", !.email = e])
    /\ UNCHANGED <<users, codes, profiles, invites>>

(* ...and creates the workspace, the user and its consents in one          *)
(* transaction.  The code is a new one, and so is that for children.       *)
CreateFamily(h) ==
    /\ At(h, "create family")
    /\ EmailFree(req[h].email)
    /\ \E u \in Users :
         /\ ~Exists(u)
         /\ users' = [users EXCEPT ![u] = NewMember(u, "parentA", Null, req[h].email)]
         /\ codes' = [codes EXCEPT ![u] = [made |-> 1, expired |-> FALSE]]
         /\ ThenGraph(h, u)
    /\ UNCHANGED <<profiles, invites>>

(* The answer of a login, GET /workspace/current, GET /partnership... *)
AskGraph(h, u) ==
    /\ Live(u)
    /\ Start(h, "graph", [Idle EXCEPT !.step = "read graph", !.ws = users[u].ws])
    /\ UNCHANGED <<users, codes, profiles, invites>>

(* mutant: the graph renews the code without a look at its expiry *)
ReadGraphAndRenew(h) ==
    LET w == req[h].ws IN
    /\ At(h, "read graph")
    /\ IF ~HasParentB(w) THEN Goto(h, "refresh code") ELSE Finish(h)
    /\ UNCHANGED <<users, codes, profiles, invites>>

(* getWorkspaceGraph renews a code that has run out while the place of     *)
(* parentB is free. *)
ReadGraph(h) ==
    LET w == req[h].ws IN
    /\ At(h, "read graph")
    /\ IF codes[w].expired /\ ~HasParentB(w) THEN Goto(h, "refresh code") ELSE Finish(h)
    /\ UNCHANGED <<users, codes, profiles, invites>>

(* refreshParentInviteCode: the update is not conditional on the old code. *)
NewCode(w) == codes' = [codes EXCEPT ![w].made = @ + 1, ![w].expired = FALSE]

RefreshCode(h) ==
    /\ At(h, "refresh code")
    /\ NewCode(req[h].ws)
    /\ Finish(h)
    /\ UNCHANGED <<users, profiles, invites>>

(* POST /join with a parent's code: the e-mail is free and the code is the *)
(* current one of a workspace; its expiry is that of the row read. *)
JoinWorkspace(h, e, w) ==
    /\ EmailFree(e)
    /\ WorkspaceExists(w) /\ ~codes[w].expired
    /\ Start(h, "join", [Idle EXCEPT !.step = "check parentB", !.email = e, !.ws = w])
    /\ UNCHANGED <<users, codes, profiles, invites>>

(* mutant: an expired code is refused, an occupied place is not *)
CheckNothing(h) ==
    /\ At(h, "check parentB")
    /\ Goto(h, "create parentB")
    /\ UNCHANGED <<users, codes, profiles, invites>>

(* assertParentInviteJoinAllowed: the place must be free; then the hash... *)
CheckParentB(h) ==
    /\ At(h, "check parentB")
    /\ IF HasParentB(req[h].ws) THEN Finish(h) ELSE Goto(h, "create parentB")
    /\ UNCHANGED <<users, codes, profiles, invites>>

(* ...and the insert, which no key of the table stops. *)
CreateParentB(h) ==
    /\ At(h, "create parentB")
    /\ EmailFree(req[h].email)
    /\ \E u \in Users :
         /\ ~Exists(u)
         /\ users' = [users EXCEPT ![u] =
                        NewMember(req[h].ws, "parentB", Null, req[h].email)]
    /\ ThenGraph(h, req[h].ws)
    /\ UNCHANGED <<codes, profiles, invites>>

(* Time: a code runs out, and so does an invitation. *)
ExpireCode(w) ==
    /\ Serves("clock") /\ UNCHANGED load
    /\ codes[w].made \in 1 .. MaxCodes /\ ~codes[w].expired
    /\ codes' = [codes EXCEPT ![w].expired = TRUE]
    /\ UNCHANGED <<users, profiles, invites, req>>

LapseInvite(i) ==
    /\ Serves("clock") /\ UNCHANGED load
    /\ invites[i] # NoInvite /\ invites[i].status = "PENDING"
    /\ invites' = [invites EXCEPT ![i].status = "LAPSED"]
    /\ UNCHANGED <<users, codes, profiles, req>>

-----------------------------------------------------------------------------
(* E-mail invitations: to somebody who has an account of their own. *)

(* POST /invite/send reads the workspace for its code... *)
InvitingStep(w) == IF codes[w].expired THEN "refresh for invite" ELSE "create invite"

SendInvite(h, u, e) ==
    /\ Live(u) /\ IsParent(u)
    /\ e # users[u].email                   \* else cannot_invite_self
    /\ Start(h, "send", [Idle EXCEPT !.step = InvitingStep(users[u].ws), !.user = u,
                                     !.ws = users[u].ws, !.email = e])
    /\ UNCHANGED <<users, codes, profiles, invites>>

(* ...renews it if it has run out, with a parentB or without... *)
RefreshForInvite(h) ==
    /\ At(h, "refresh for invite")
    /\ NewCode(req[h].ws)
    /\ Goto(h, "create invite")
    /\ UNCHANGED <<users, profiles, invites>>

(* ...and creates the invitation; the mail after it may fail. *)
CreateInvite(h) ==
    /\ At(h, "create invite")
    /\ \E i \in Invites :
         /\ invites[i] = NoInvite
         /\ invites' = [invites EXCEPT ![i] =
                          [inviter |-> req[h].user, to |-> req[h].email, status |-> "PENDING"]]
    /\ Finish(h)
    /\ UNCHANGED <<users, codes, profiles>>

(* POST /invite/accept by the link of an invitation, which must be to the  *)
(* user's own address if it still holds... *)
AcceptingStep(i) ==
    IF invites[i].status = "LAPSED" THEN "expire invite" ELSE "find inviter"

AcceptInvite(h, u, i) ==
    /\ Live(u)
    /\ invites[i] # NoInvite
    /\ invites[i].status \in {"PENDING", "LAPSED"}      \* else invite_not_active
    /\ invites[i].status = "PENDING" => invites[i].to = users[u].email
    /\ Start(h, "accept", [Idle EXCEPT !.step = AcceptingStep(i), !.user = u,
                                       !.ws = users[u].ws, !.invite = i])
    /\ UNCHANGED <<users, codes, profiles, invites>>

(* ...marks one that has lapsed... *)
ExpireInvite(h) ==
    /\ At(h, "expire invite")
    /\ invites' = [invites EXCEPT ![req[h].invite].status = "EXPIRED"]
    /\ Finish(h)
    /\ UNCHANGED <<users, codes, profiles>>

(* ...reads where the inviter, deleted or not, belongs today... *)
FindInviter(h) ==
    /\ At(h, "find inviter")
    /\ req' = [req EXCEPT ![h].step = "count",
                 ![h].target = users[invites[req[h].invite].inviter].ws]
    /\ UNCHANGED <<users, codes, profiles, invites>>

(* ...counts the members of both workspaces, in either order... *)
CountedAs(h, answer) == req' = [req EXCEPT ![h].counted = @ \cup {answer}]

CountOwn(h) ==
    /\ At(h, "count") /\ "own" \notin req[h].counted
    /\ IF Cardinality(Members(req[h].ws)) > 1     \* workspace_conflict
       THEN Finish(h) ELSE CountedAs(h, "own")
    /\ UNCHANGED <<users, codes, profiles, invites>>

CountTarget(h) ==
    /\ At(h, "count") /\ "target" \notin req[h].counted
    /\ IF Cardinality(Members(req[h].target)) >= 2
       THEN Finish(h) ELSE CountedAs(h, "target")
    /\ UNCHANGED <<users, codes, profiles, invites>>

(* ...and moves the user in one transaction, where nothing is read again.  *)
Move(h) ==
    /\ At(h, "count") /\ req[h].counted = {"own", "target"}
    /\ users' = [users EXCEPT ![req[h].user].ws = req[h].target,
                              ![req[h].user].role = "parentB"]
    /\ invites' = [invites EXCEPT ![req[h].invite].status = "ACCEPTED"]
    /\ Finish(h)
    /\ UNCHANGED <<codes, profiles>>

-----------------------------------------------------------------------------
(* Child profiles and their accounts. *)

(* POST /workspace/children, by parentA. *)
AskCreateChild(h, u) ==
    /\ Live(u) /\ users[u].role = "parentA"
    /\ Start(h, "create child", [Idle EXCEPT !.step = "create child", !.ws = users[u].ws])
    /\ UNCHANGED <<users, codes, profiles, invites>>

CreateChild(h) ==
    /\ At(h, "create child")
    /\ \E p \in Profiles :
         /\ profiles[p] = "unused"
         /\ profiles' = [profiles EXCEPT ![p] = req[h].ws]
    /\ Finish(h)
    /\ UNCHANGED <<users, codes, invites>>

(* POST /child/access (e is Null) or POST /join with the code for children *)
(* (e is the child's address): the profile must have no account yet, not   *)
(* even a deleted one.  The hash comes between this and the insert.        *)
ClaimProfile(h, e, p) ==
    /\ EmailFree(e) /\ ProfileFree(p)       \* else child_profile_taken
    /\ Start(h, IF e = Null THEN "child access" ELSE "child join",
             [Idle EXCEPT !.step = "create child account", !.email = e,
                          !.profile = p, !.ws = profiles[p]])
    /\ UNCHANGED <<users, codes, profiles, invites>>

CreateChildAccount(h) ==
    LET p == req[h].profile IN
    /\ At(h, "create child account")
    /\ EmailFree(req[h].email) /\ ProfileFree(p)
    /\ \E u \in Users :
         /\ ~Exists(u)
         /\ users' = [users EXCEPT ![u] = NewMember(req[h].ws, "child", p, req[h].email)]
    /\ ThenGraph(h, req[h].ws)
    /\ UNCHANGED <<codes, profiles, invites>>

(* POST /workspace/children/:id/delete, by parentA, reads the              *)
(* profile with the account linked to it at this time...                   *)
AskDeleteChild(h, u, p) ==
    /\ Live(u) /\ users[u].role = "parentA"
    /\ profiles[p] = users[u].ws            \* else child_not_found
    /\ \E linked \in Users \cup {Null} :
         /\ IF Linked(p) = {} THEN linked = Null ELSE linked \in Linked(p)
         /\ Start(h, "delete child", [Idle EXCEPT !.step = "delete child",
                                        !.profile = p, !.user = linked])
    /\ UNCHANGED <<users, codes, profiles, invites>>

(* ...and in one transaction deletes that account and the profile; an      *)
(* account linked since loses the profile by ON DELETE SET NULL.           *)
WithoutProfile(p, linked) ==
    [u \in Users |->
        IF u \in Linked(p) \cup {linked}
        THEN [users[u] EXCEPT !.profile = Null, !.deleted = @ \/ u = linked]
        ELSE users[u]]
(* mutant: the account is left to the foreign key *)
WithoutProfileOnly(p, linked) ==
    [u \in Users |-> IF u \in Linked(p) THEN [users[u] EXCEPT !.profile = Null]
                                        ELSE users[u]]

DeleteChildOnly(h) ==       \* mutant: see WithoutProfileOnly
    LET p == req[h].profile IN
    /\ At(h, "delete child")
    /\ profiles[p] \in Users
    /\ users' = WithoutProfileOnly(p, req[h].user)
    /\ profiles' = [profiles EXCEPT ![p] = "deleted"]
    /\ Finish(h)
    /\ UNCHANGED <<codes, invites>>
DeleteChild(h) ==
    LET p == req[h].profile IN
    /\ At(h, "delete child")
    /\ profiles[p] \in Users
    /\ users' = WithoutProfile(p, req[h].user)
    /\ profiles' = [profiles EXCEPT ![p] = "deleted"]
    /\ Finish(h)
    /\ UNCHANGED <<codes, invites>>

-----------------------------------------------------------------------------
(* POST /account/delete: the row is read and the password compared; the    *)
(* transaction leaves the workspace, the role and the profile of the row.  *)
AskDeleteAccount(h, u) ==
    /\ Live(u)
    /\ Start(h, "delete account", [Idle EXCEPT !.step = "delete account", !.user = u])
    /\ UNCHANGED <<users, codes, profiles, invites>>

DeleteAccountOnly(h) ==     \* mutant: the invitations stay open
    /\ At(h, "delete account")
    /\ users' = [users EXCEPT ![req[h].user].deleted = TRUE]
    /\ Finish(h)
    /\ UNCHANGED <<codes, profiles, invites>>
DeleteAccount(h) ==
    LET u == req[h].user IN
    /\ At(h, "delete account")
    /\ users' = [users EXCEPT ![u].deleted = TRUE]
    /\ invites' = [i \in Invites |->
                     IF invites[i].inviter = u /\ invites[i].status \in {"PENDING", "LAPSED"}
                     THEN [invites[i] EXCEPT !.status = "EXPIRED"] ELSE invites[i]]
    /\ Finish(h)
    /\ UNCHANGED <<codes, profiles>>

(* A statement that fails, a unique key or a foreign key that refuses a    *)
(* row, or a crash: what the request has not written yet it never writes.  *)
Abort(h) ==
    /\ req[h].step # "idle"
    /\ Finish(h)
    /\ UNCHANGED <<load, users, codes, profiles, invites>>

-----------------------------------------------------------------------------
FamilyStep(h) ==
    \/ \E e \in Emails : RegisterUser(h, e)
    \/ CreateFamily(h)
    \/ \E u \in Users : AskGraph(h, u)
    \/ ReadGraph(h)
    \/ RefreshCode(h)
    \/ \E e \in Emails, w \in Users : JoinWorkspace(h, e, w)
    \/ CheckParentB(h)
    \/ CreateParentB(h)

InviteStep(h) ==
    \/ \E u \in Users, e \in Emails : SendInvite(h, u, e)
    \/ RefreshForInvite(h)
    \/ CreateInvite(h)
    \/ \E u \in Users, i \in Invites : AcceptInvite(h, u, i)
    \/ ExpireInvite(h)
    \/ FindInviter(h)
    \/ CountOwn(h)
    \/ CountTarget(h)
    \/ Move(h)

ChildStep(h) ==
    \/ \E u \in Users : AskCreateChild(h, u)
    \/ CreateChild(h)
    \/ \E e \in Emails \cup {Null}, p \in Profiles : ClaimProfile(h, e, p)
    \/ CreateChildAccount(h)
    \/ \E u \in Users, p \in Profiles : AskDeleteChild(h, u, p)
    \/ DeleteChild(h)

DeleteStep(h) ==
    \/ \E u \in Users : AskDeleteAccount(h, u)
    \/ DeleteAccount(h)
    \/ Abort(h)

MemberNext ==
    \/ \E h \in Handlers : FamilyStep(h) \/ InviteStep(h) \/ ChildStep(h) \/ DeleteStep(h)
    \/ \E w \in Users : ExpireCode(w)
    \/ \E i \in Invites : LapseInvite(i)

MemberSpec == MemberInit /\ [][MemberNext]_memberVars

-----------------------------------------------------------------------------
(* Requests that have seen a free place in w and have yet to take it. *)
Tickets(w) ==
    {h \in Handlers :
        \/ req[h].step = "create parentB" /\ req[h].ws = w
        \/ req[h].step = "count" /\ "target" \in req[h].counted /\ req[h].target = w}

(* A family has at most two parents as long as requests come one at a      *)
(* time, and each request that overlaps others adds at most one: the check *)
(* of joinWorkspace and the count of /invite/accept are not repeated by    *)
(* the insert or the transaction.                                          *)
ParentsBounded ==
    \A w \in Users : Cardinality(Parents(w)) + Cardinality(Tickets(w)) <= 1 + Overlap

(* With one request at a time, a child that can sign in has a profile in   *)
(* its family: deleteChild takes the account with the profile.             *)
ChildAccountsHaveProfiles ==
    Serial => \A u \in Users :
        Live(u) /\ users[u].role = "child" =>
            /\ users[u].profile # Null
            /\ profiles[users[u].profile] = users[u].ws

(* With one request at a time, an accepted invitation joins two people who *)
(* are alone: nobody who can sign in is left behind, and somebody is there *)
(* (the inviter may have moved, or left, since the invitation).            *)
MovesJoinTwoSingles ==
    [][Serial => \A u \in Users :
         Exists(u) /\ users'[u].ws # users[u].ws =>
            /\ Members(users[u].ws) = {u}
            /\ Cardinality(Members(users'[u].ws)) = 1]_memberVars

(* With one request at a time, a code that was shown or mailed to somebody *)
(* stays good until it runs out: reads renew none that still holds.        *)
FreshCodesStay ==
    [][Serial => \A w \in Users :
         WorkspaceExists(w) /\ codes'[w].made # codes[w].made => codes[w].expired]_memberVars
=============================================================================
