-------------------------- MODULE MembershipProofs --------------------------
(***************************************************************************)
(* Proofs about Membership, for any number of users, profiles, invitations *)
(* and handlers, and for every load: the types, the bound on the parents   *)
(* of a family; and, when requests come one at a time, which children have *)
(* a profile, who is left when somebody moves, and which codes stay.       *)
(***************************************************************************)
EXTENDS Membership, FiniteSetTheorems, TLAPS

(* What a request that has passed its checks may rely on: rows are never   *)
(* removed, so what it has read of them is still there. *)
RequestOK(r) ==
    /\ r.step \in {"read graph", "refresh code", "refresh for invite", "create invite",
                   "check parentB", "create parentB", "create child",
                   "create child account", "expire invite", "find inviter", "count"}
         => r.ws \in Users /\ WorkspaceExists(r.ws)
    /\ r.step \in {"refresh for invite", "create invite", "delete account",
                   "expire invite", "find inviter", "count"}
         => r.user \in Users /\ Exists(r.user)
    /\ r.step \in {"refresh for invite", "create invite"} => r.email \in Emails
    /\ r.step \in {"expire invite", "find inviter", "count"}
         => r.invite \in Invites /\ invites[r.invite] # NoInvite
    /\ r.step = "count" => r.target \in Users /\ WorkspaceExists(r.target)
    /\ r.step # "count" => r.counted = {}
    /\ r.step \in {"create child account", "delete child"} => r.profile \in Profiles
    /\ r.step = "delete child" /\ r.user # Null => r.user \in Users /\ Exists(r.user)

(* parentA is the founder of the workspace named after its row; workspaces *)
(* and rows come together. *)
TablesOK ==
    /\ \A u \in Users : Exists(u) => WorkspaceExists(users[u].ws)
    /\ \A u \in Users : users[u].role = "parentA" => users[u].ws = u
    /\ \A w \in Users : WorkspaceExists(w) => Exists(w)
    /\ \A p \in Profiles : profiles[p] \in Users => WorkspaceExists(profiles[p])
    /\ \A i \in Invites : invites[i] # NoInvite => Exists(invites[i].inviter)

RequestsOK ==
    \A h \in Handlers : RequestOK(req[h]) /\ (req[h].step # "idle" => h \in Crowd)

MemberInv == MemberTypeOK /\ TablesOK /\ RequestsOK

(* The rows that exist go on to exist. *)
Grows ==
    /\ \A u \in Users : Exists(u) => Exists(u)'
    /\ \A w \in Users : WorkspaceExists(w) => WorkspaceExists(w)'
    /\ \A i \in Invites : invites[i] # NoInvite => invites'[i] # NoInvite

LEMMA ExistsIsMember ==
    ASSUME MemberTypeOK, NEW u \in Users
    PROVE  Exists(u) <=> users[u] \in Member
  BY MembershipAssumption DEF MemberTypeOK, Exists, Member, NoMember

LEMMA InviteIsThere ==
    ASSUME MemberTypeOK, NEW i \in Invites, invites[i] # NoInvite
    PROVE  invites[i] \in Invite
  BY DEF MemberTypeOK

LEMMA IdleOK == Idle \in Request /\ RequestOK(Idle) /\ Idle.step = "idle"
  BY DEF Idle, Request, Steps, RequestOK

(* A step of handler h: what the others hold stays right. *)
LEMMA RequestsStay ==
    ASSUME MemberInv, Grows, load' = load, NEW h \in Handlers, NEW r \in Request,
           req' = [req EXCEPT ![h] = r], RequestOK(r)', r.step # "idle" => h \in Crowd
    PROVE  RequestsOK' /\ req' \in [Handlers -> Request]
<1>1. req' \in [Handlers -> Request] /\ \A g \in Handlers : req'[g] = IF g = h THEN r ELSE req[g]
  BY DEF MemberInv, MemberTypeOK
<1>2. ASSUME NEW g \in Handlers
      PROVE  RequestOK(req[g])'
  <2>1. CASE g = h
    BY <1>1, <2>1 DEF RequestOK, Exists, WorkspaceExists
  <2>2. CASE g # h
    <3>1. req'[g] = req[g] /\ RequestOK(req[g])
      BY <1>1, <2>2 DEF MemberInv, RequestsOK
    <3> QED
      BY <3>1 DEF RequestOK, Grows, Exists, WorkspaceExists
  <2> QED
    BY <2>1, <2>2
<1> QED
  BY <1>1, <1>2 DEF RequestsOK, Crowd, MemberInv

(* A step that only concerns the handler's own request. *)
LEMMA OnlyRequest ==
    ASSUME MemberInv, NEW h \in Handlers, NEW r \in Request, req' = [req EXCEPT ![h] = r],
           UNCHANGED <<load, users, codes, profiles, invites>>,
           RequestOK(r), r.step # "idle" => h \in Crowd
    PROVE  MemberInv'
<1>1. Grows /\ RequestOK(r)'
  BY DEF Grows, Exists, WorkspaceExists, RequestOK
<1>2. RequestsOK' /\ req' \in [Handlers -> Request]
  BY <1>1, RequestsStay
<1> QED
  BY <1>2 DEF MemberInv, MemberTypeOK, TablesOK, Exists, WorkspaceExists

LEMMA StartOK ==
    ASSUME MemberInv, NEW h \in Handlers, NEW kind, NEW r \in Request, Start(h, kind, r),
           RequestOK(r), UNCHANGED <<users, codes, profiles, invites>>
    PROVE  MemberInv'
  BY OnlyRequest DEF Start

LEMMA FamilyRequests ==
    ASSUME MemberInv, NEW h \in Handlers,
           \/ \E e \in Emails : RegisterUser(h, e)
           \/ \E u \in Users : AskGraph(h, u)
           \/ \E e \in Emails, w \in Users : JoinWorkspace(h, e, w)
           \/ \E u \in Users : AskCreateChild(h, u)
           \/ \E e \in Emails \cup {Null}, p \in Profiles : ClaimProfile(h, e, p)
           \/ \E u \in Users : AskDeleteAccount(h, u)
    PROVE  MemberInv'
<1>1. CASE \E e \in Emails : RegisterUser(h, e)
  <2>1. PICK e \in Emails : RegisterUser(h, e)
    BY <1>1
  <2> DEFINE r == [Idle EXCEPT !.step = "create family", !.email = e]
  <2>2. r \in Request /\ RequestOK(r)
    BY DEF Idle, Request, Steps, RequestOK
  <2> QED
    BY <2>1, <2>2, StartOK DEF RegisterUser
<1>2. CASE \E u \in Users : AskGraph(h, u)
  <2>1. PICK u \in Users : AskGraph(h, u)
    BY <1>2
  <2> DEFINE r == [Idle EXCEPT !.step = "read graph", !.ws = users[u].ws]
  <2>2. users[u] \in Member /\ WorkspaceExists(users[u].ws)
    BY <2>1, ExistsIsMember DEF AskGraph, Live, MemberInv, TablesOK
  <2>3. r \in Request /\ RequestOK(r)
    BY <2>2 DEF Idle, Request, Steps, RequestOK, Member
  <2> QED
    BY <2>1, <2>3, StartOK DEF AskGraph
<1>3. CASE \E e \in Emails, w \in Users : JoinWorkspace(h, e, w)
  <2>1. PICK e \in Emails, w \in Users : JoinWorkspace(h, e, w)
    BY <1>3
  <2> DEFINE r == [Idle EXCEPT !.step = "check parentB", !.email = e, !.ws = w]
  <2>2. r \in Request /\ RequestOK(r)
    BY <2>1 DEF Idle, Request, Steps, RequestOK, JoinWorkspace
  <2> QED
    BY <2>1, <2>2, StartOK DEF JoinWorkspace
<1>4. CASE \E u \in Users : AskCreateChild(h, u)
  <2>1. PICK u \in Users : AskCreateChild(h, u)
    BY <1>4
  <2> DEFINE r == [Idle EXCEPT !.step = "create child", !.ws = users[u].ws]
  <2>2. users[u] \in Member /\ WorkspaceExists(users[u].ws)
    BY <2>1, ExistsIsMember DEF AskCreateChild, Live, MemberInv, TablesOK
  <2>3. r \in Request /\ RequestOK(r)
    BY <2>2 DEF Idle, Request, Steps, RequestOK, Member
  <2> QED
    BY <2>1, <2>3, StartOK DEF AskCreateChild
<1>5. CASE \E e \in Emails \cup {Null}, p \in Profiles : ClaimProfile(h, e, p)
  <2>1. PICK e \in Emails \cup {Null}, p \in Profiles : ClaimProfile(h, e, p)
    BY <1>5
  <2> DEFINE r == [Idle EXCEPT !.step = "create child account", !.email = e,
                               !.profile = p, !.ws = profiles[p]]
  <2>2. profiles[p] \in Users /\ WorkspaceExists(profiles[p])
    BY <2>1 DEF ClaimProfile, ProfileFree, MemberInv, TablesOK
  <2>3. r \in Request /\ RequestOK(r)
    BY <2>2 DEF Idle, Request, Steps, RequestOK
  <2> QED
    BY <2>1, <2>3, StartOK DEF ClaimProfile
<1>6. CASE \E u \in Users : AskDeleteAccount(h, u)
  <2>1. PICK u \in Users : AskDeleteAccount(h, u)
    BY <1>6
  <2> DEFINE r == [Idle EXCEPT !.step = "delete account", !.user = u]
  <2>2. r \in Request /\ RequestOK(r)
    BY <2>1 DEF Idle, Request, Steps, RequestOK, AskDeleteAccount, Live
  <2> QED
    BY <2>1, <2>2, StartOK DEF AskDeleteAccount
<1> QED
  BY <1>1, <1>2, <1>3, <1>4, <1>5, <1>6

LEMMA InviteRequests ==
    ASSUME MemberInv, NEW h \in Handlers,
           \/ \E u \in Users, e \in Emails : SendInvite(h, u, e)
           \/ \E u \in Users, i \in Invites : AcceptInvite(h, u, i)
           \/ FindInviter(h)
           \/ CountOwn(h)
           \/ CountTarget(h)
    PROVE  MemberInv'
<1>0. RequestOK(req[h]) /\ req[h] \in Request /\ (req[h].step # "idle" => h \in Crowd)
  BY DEF MemberInv, RequestsOK, MemberTypeOK
<1>1. CASE \E u \in Users, e \in Emails : SendInvite(h, u, e)
  <2>1. PICK u \in Users, e \in Emails : SendInvite(h, u, e)
    BY <1>1
  <2> DEFINE r == [Idle EXCEPT !.step = InvitingStep(users[u].ws), !.user = u, !.ws = users[u].ws, !.email = e]
  <2>2. Exists(u) /\ users[u] \in Member /\ WorkspaceExists(users[u].ws)
    BY <2>1, ExistsIsMember DEF SendInvite, Live, MemberInv, TablesOK
  <2>3. InvitingStep(users[u].ws) \in {"refresh for invite", "create invite"}
    BY DEF InvitingStep
  <2>4. r \in Request /\ RequestOK(r)
    BY <2>2, <2>3 DEF Idle, Request, Steps, RequestOK, Member
  <2> QED
    BY <2>1, <2>4, StartOK DEF SendInvite
<1>2. CASE \E u \in Users, i \in Invites : AcceptInvite(h, u, i)
  <2>1. PICK u \in Users, i \in Invites : AcceptInvite(h, u, i)
    BY <1>2
  <2> DEFINE r == [Idle EXCEPT !.step = AcceptingStep(i), !.user = u, !.ws = users[u].ws, !.invite = i]
  <2>2. Exists(u) /\ users[u] \in Member /\ WorkspaceExists(users[u].ws)
    BY <2>1, ExistsIsMember DEF AcceptInvite, Live, MemberInv, TablesOK
  <2>3. invites[i] # NoInvite
    BY <2>1, MembershipAssumption, ExistsIsMember
    DEF AcceptInvite
  <2>4. AcceptingStep(i) \in {"expire invite", "find inviter"}
    BY DEF AcceptingStep
  <2>5. r \in Request /\ RequestOK(r)
    BY <2>2, <2>3, <2>4 DEF Idle, Request, Steps, RequestOK, Member
  <2> QED
    BY <2>1, <2>5, StartOK DEF AcceptInvite
<1>3. CASE FindInviter(h)
  <2> DEFINE t == users[invites[req[h].invite].inviter].ws
             r == [req[h] EXCEPT !.step = "count", !.target = t]
  <2>1. req' = [req EXCEPT ![h] = r] /\ req[h].step = "find inviter"
    BY <1>3 DEF FindInviter, At, MemberInv, MemberTypeOK
  <2>2. t \in Users /\ WorkspaceExists(t)
    BY <1>0, <2>1, InviteIsThere, ExistsIsMember
    DEF RequestOK, MemberInv, TablesOK, Invite, Member
  <2>3. r \in Request /\ RequestOK(r)
    BY <1>0, <2>1, <2>2 DEF Request, Steps, RequestOK
  <2> QED
    BY <1>0, <1>3, <2>1, <2>3, OnlyRequest DEF FindInviter, At
<1>4. CASE CountOwn(h) \/ CountTarget(h)
  <2> DEFINE Counted(a) == [req[h] EXCEPT !.counted = @ \cup {a}]
  <2>1. /\ req[h].step = "count"
        /\ \/ req' = [req EXCEPT ![h] = Idle]
           \/ \E a \in {"own", "target"} : req' = [req EXCEPT ![h] = Counted(a)]
    BY <1>4 DEF CountOwn, CountTarget, At, CountedAs, Finish, MemberInv, MemberTypeOK
  <2>2. ASSUME NEW a \in {"own", "target"}
        PROVE  Counted(a) \in Request /\ RequestOK(Counted(a))
    BY <1>0, <2>1 DEF Request, Steps, RequestOK
  <2> HIDE DEF Counted
  <2>3. UNCHANGED <<load, users, codes, profiles, invites>>
    BY <1>4 DEF CountOwn, CountTarget, At
  <2> QED
    BY <1>0, <2>1, <2>2, <2>3, OnlyRequest, IdleOK
<1> QED
  BY <1>1, <1>2, <1>3, <1>4

(* Reads that only decide where the request goes on, and a broken one.     *)
LEMMA Reads ==
    ASSUME MemberInv, NEW h \in Handlers,
           \/ ReadGraph(h)
           \/ CheckParentB(h)
           \/ \E u \in Users, p \in Profiles : AskDeleteChild(h, u, p)
           \/ Abort(h)
    PROVE  MemberInv'
<1>0. RequestOK(req[h]) /\ req[h] \in Request /\ (req[h].step # "idle" => h \in Crowd)
  BY DEF MemberInv, RequestsOK, MemberTypeOK
<1>1. CASE ReadGraph(h) \/ CheckParentB(h) \/ Abort(h)
  <2> DEFINE To(s) == [req[h] EXCEPT !.step = s]
  <2>1. /\ \/ req' = [req EXCEPT ![h] = Idle]
           \/ req[h].step = "read graph" /\ req' = [req EXCEPT ![h] = To("refresh code")]
           \/ req[h].step = "check parentB" /\ req' = [req EXCEPT ![h] = To("create parentB")]
        /\ UNCHANGED <<load, users, codes, profiles, invites>>
    BY <1>1 DEF ReadGraph, CheckParentB, Abort, At, Goto, Finish, MemberInv, MemberTypeOK
  <2>2. /\ req[h].step = "read graph" => To("refresh code") \in Request /\ RequestOK(To("refresh code"))
        /\ req[h].step = "check parentB"
             => To("create parentB") \in Request /\ RequestOK(To("create parentB"))
    BY <1>0 DEF Request, Steps, RequestOK
  <2> HIDE DEF To
  <2> QED
    BY <1>0, <2>1, <2>2, OnlyRequest, IdleOK
<1>2. CASE \E u \in Users, p \in Profiles : AskDeleteChild(h, u, p)
  <2>1. PICK u \in Users, p \in Profiles : AskDeleteChild(h, u, p)
    BY <1>2
  <2>2. PICK linked \in Users \cup {Null} :
          /\ IF Linked(p) = {} THEN linked = Null ELSE linked \in Linked(p)
          /\ Start(h, "delete child", [Idle EXCEPT !.step = "delete child",
                                         !.profile = p, !.user = linked])
    BY <2>1 DEF AskDeleteChild
  <2> DEFINE r == [Idle EXCEPT !.step = "delete child", !.profile = p, !.user = linked]
  <2>3. linked = Null \/ linked \in Linked(p)
    BY <2>2
  <2>4. linked # Null => linked \in Users /\ Exists(linked)
    BY <2>3, MembershipAssumption DEF Linked, Exists, NoMember
  <2>5. r \in Request /\ RequestOK(r)
    BY <2>4 DEF Idle, Request, Steps, RequestOK
  <2> QED
    BY <2>1, <2>2, <2>5, StartOK DEF AskDeleteChild
<1> QED
  BY <1>1, <1>2

(* A write by handler h, which then holds request r. *)
TablesTyped ==
    /\ users \in [Users -> Member \cup {NoMember}]
    /\ codes \in [Users -> [made : Nat, expired : BOOLEAN]]
    /\ profiles \in [Profiles -> Users \cup {"unused", "deleted"}]
    /\ invites \in [Invites -> Invite \cup {NoInvite}]

LEMMA WriteOK ==
    ASSUME MemberInv, Grows, load' = load, TablesTyped', TablesOK',
           NEW h \in Handlers, req[h].step # "idle", NEW r \in Request,
           req' = [req EXCEPT ![h] = r], RequestOK(r)'
    PROVE  MemberInv'
<1>1. h \in Crowd
  BY DEF MemberInv, RequestsOK
<1>2. RequestsOK' /\ req' \in [Handlers -> Request]
  BY <1>1, RequestsStay
<1> QED
  BY <1>2 DEF MemberInv, MemberTypeOK, TablesTyped

(* A write that ends the request. *)
LEMMA FinishOK ==
    ASSUME MemberInv, Grows, load' = load, TablesTyped', TablesOK',
           NEW h \in Handlers, req[h].step # "idle", Finish(h)
    PROVE  MemberInv'
<1>1. RequestOK(Idle)'
  BY DEF Idle, RequestOK
<1> QED
  BY <1>1, IdleOK, WriteOK DEF Finish

(* A write whose answer is the graph of workspace w. *)
LEMMA GraphOK ==
    ASSUME MemberInv, Grows, load' = load, TablesTyped', TablesOK', NEW w \in Users,
           NEW h \in Handlers, req[h].step # "idle", ThenGraph(h, w), WorkspaceExists(w)'
    PROVE  MemberInv'
<1> DEFINE r == [Idle EXCEPT !.step = "read graph", !.ws = w]
<1>1. r \in Request /\ RequestOK(r)'
  BY DEF Idle, Request, Steps, RequestOK, WorkspaceExists
<1> QED
  BY <1>1, WriteOK DEF ThenGraph

(* A new row u in workspace w: what it takes to stay within the invariant. *)
LEMMA NewRow ==
    ASSUME MemberInv, NEW u \in Users, ~Exists(u), NEW row \in Member,
           users' = [users EXCEPT ![u] = row]
    PROVE  /\ users' \in [Users -> Member \cup {NoMember}]
           /\ \A v \in Users : Exists(v)' <=> (Exists(v) \/ v = u)
           /\ \A v \in Users : users'[v] = IF v = u THEN row ELSE users[v]
<1>1. row # NoMember
  <2>1. row.ws \in Users /\ NoMember.ws = Null
    BY DEF Member, NoMember
  <2> QED
    BY <2>1, MembershipAssumption
<1>2. users \in [Users -> Member \cup {NoMember}]
  BY DEF MemberInv, MemberTypeOK
<1> QED
  BY <1>1, <1>2 DEF Exists

LEMMA CreateFamilyOK ==
    ASSUME MemberInv, NEW h \in Handlers, CreateFamily(h)
    PROVE  MemberInv'
<1>1. PICK u \in Users :
        /\ ~Exists(u)
        /\ users' = [users EXCEPT ![u] = NewMember(u, "parentA", Null, req[h].email)]
        /\ codes' = [codes EXCEPT ![u] = [made |-> 1, expired |-> FALSE]]
        /\ ThenGraph(h, u)
  BY DEF CreateFamily
<1> DEFINE row == NewMember(u, "parentA", Null, req[h].email)
<1>2. row \in Member /\ row.ws = u /\ row.role = "parentA"
  BY DEF NewMember, Member, Roles, MemberInv, MemberTypeOK, Request
<1> HIDE DEF row
<1>3. /\ users' \in [Users -> Member \cup {NoMember}]
      /\ \A v \in Users : Exists(v)' <=> (Exists(v) \/ v = u)
      /\ \A v \in Users : users'[v] = IF v = u THEN row ELSE users[v]
  BY <1>1, <1>2, NewRow DEF row
<1>4. /\ codes' \in [Users -> [made : Nat, expired : BOOLEAN]]
      /\ \A w \in Users : WorkspaceExists(w)' <=> (WorkspaceExists(w) \/ w = u)
  BY <1>1 DEF MemberInv, MemberTypeOK, WorkspaceExists
<1>5. UNCHANGED <<load, profiles, invites>> /\ req[h].step # "idle"
  BY DEF CreateFamily, At
<1>6. TablesTyped'
  BY <1>3, <1>4, <1>5 DEF TablesTyped, MemberInv, MemberTypeOK
<1>7. Grows
  BY <1>3, <1>4, <1>5 DEF Grows
<1>8. ASSUME NEW v \in Users, Exists(v)'
      PROVE  WorkspaceExists(users[v].ws)'
  <2>1. CASE v = u
    BY <1>2, <1>3, <1>4, <2>1
  <2>2. CASE v # u
    <3>1. Exists(v) /\ users[v] \in Member
      BY <1>3, <1>8, <2>2, ExistsIsMember DEF MemberInv
    <3>2. WorkspaceExists(users[v].ws) /\ users[v].ws \in Users
      BY <3>1 DEF MemberInv, TablesOK, Member
    <3>3. users'[v] = users[v]
      BY <1>3, <2>2
    <3>4. WorkspaceExists(users[v].ws)'
      BY <1>4, <3>2, <3>3
    <3> QED
      BY <3>4
  <2> QED
    BY <2>1, <2>2
<1>9. \A v \in Users : users'[v].role = "parentA" => users'[v].ws = v
  BY <1>2, <1>3 DEF MemberInv, TablesOK
<1>10. \A w \in Users : WorkspaceExists(w)' => Exists(w)'
  BY <1>3, <1>4 DEF MemberInv, TablesOK
<1>11. \A p \in Profiles : profiles'[p] \in Users => WorkspaceExists(profiles[p])'
  BY <1>4, <1>5 DEF MemberInv, TablesOK, WorkspaceExists
<1>12. \A i \in Invites : invites'[i] # NoInvite => Exists(invites[i].inviter)'
  BY <1>3, <1>5, InviteIsThere DEF MemberInv, TablesOK, Invite, Exists
<1>13. TablesOK'
  BY <1>8, <1>9, <1>10, <1>11, <1>12 DEF TablesOK
<1> QED
  BY <1>1, <1>4, <1>5, <1>6, <1>7, <1>13, GraphOK

(* Writes to User alone, of rows that stay what they are for the family:   *)
(* in a workspace that exists, and founders only in their own. *)
LEMMA UsersChange ==
    ASSUME MemberInv, UNCHANGED <<load, codes, profiles>>,
           users' \in [Users -> Member \cup {NoMember}],
           \A u \in Users : Exists(u) => Exists(u)',
           \A u \in Users : Exists(u)' => WorkspaceExists(users'[u].ws),
           \A u \in Users : users'[u].role = "parentA" => users'[u].ws = u,
           invites' \in [Invites -> Invite \cup {NoInvite}],
           \A i \in Invites : invites[i] # NoInvite => invites'[i] # NoInvite,
           \A i \in Invites : invites'[i] # NoInvite => Exists(invites[i].inviter)'
    PROVE  Grows /\ TablesTyped' /\ TablesOK'
<1>1. Grows /\ TablesTyped'
  BY DEF Grows, TablesTyped, MemberInv, MemberTypeOK, WorkspaceExists
<1>2. TablesOK'
  BY DEF TablesOK, MemberInv, WorkspaceExists
<1> QED
  BY <1>1, <1>2

LEMMA CreateAccountOK ==
    ASSUME MemberInv, NEW h \in Handlers, CreateParentB(h) \/ CreateChildAccount(h)
    PROVE  MemberInv'
<1>1. /\ req[h].step \in {"create parentB", "create child account"}
      /\ UNCHANGED <<load, codes, profiles, invites>>
      /\ ThenGraph(h, req[h].ws)
  BY DEF CreateParentB, CreateChildAccount, At
<1>2. /\ req[h].ws \in Users /\ WorkspaceExists(req[h].ws) /\ req[h] \in Request
      /\ req[h].step = "create child account" => req[h].profile \in Profiles
  BY <1>1 DEF MemberInv, RequestsOK, RequestOK, MemberTypeOK
<1>3. PICK u \in Users, role \in {"parentB", "child"}, p \in Profiles \cup {Null} :
        /\ ~Exists(u)
        /\ users' = [users EXCEPT ![u] = NewMember(req[h].ws, role, p, req[h].email)]
  <2>1. CASE CreateParentB(h)
    BY <2>1 DEF CreateParentB
  <2>2. CASE CreateChildAccount(h)
    BY <1>2, <2>2 DEF CreateChildAccount, At
  <2> QED
    BY <2>1, <2>2
<1> DEFINE row == NewMember(req[h].ws, role, p, req[h].email)
<1>4. row \in Member /\ row.ws = req[h].ws /\ row.role # "parentA"
  BY <1>2 DEF NewMember, Member, Roles, Request
<1> HIDE DEF row
<1>5. /\ users' \in [Users -> Member \cup {NoMember}]
      /\ \A v \in Users : Exists(v)' <=> (Exists(v) \/ v = u)
      /\ \A v \in Users : users'[v] = IF v = u THEN row ELSE users[v]
  BY <1>3, <1>4, NewRow DEF row
<1>6. \A v \in Users : Exists(v)' => WorkspaceExists(users'[v].ws)
  BY <1>2, <1>4, <1>5 DEF MemberInv, TablesOK
<1>7. \A v \in Users : users'[v].role = "parentA" => users'[v].ws = v
  BY <1>4, <1>5 DEF MemberInv, TablesOK
<1>8. /\ invites' \in [Invites -> Invite \cup {NoInvite}]
      /\ \A i \in Invites : invites'[i] # NoInvite => Exists(invites[i].inviter)'
  BY <1>1, <1>5, InviteIsThere DEF MemberInv, MemberTypeOK, TablesOK, Invite
<1>9. Grows /\ TablesTyped' /\ TablesOK'
  BY <1>1, <1>5, <1>6, <1>7, <1>8, UsersChange
<1>10. PICK w \in Users : w = req[h].ws
  BY <1>2
<1>11. WorkspaceExists(w)' /\ ThenGraph(h, w) /\ req[h].step # "idle" /\ load' = load
  BY <1>1, <1>2, <1>10 DEF WorkspaceExists
<1> QED
  BY <1>9, <1>11, GraphOK

(* Writes that keep every row, its workspace and what makes it a founder.  *)
LEMMA RowsKept ==
    ASSUME MemberInv, UNCHANGED <<load, codes, profiles>>,
           users' \in [Users -> Member \cup {NoMember}],
           \A u \in Users : Exists(u)' <=> Exists(u),
           \A u \in Users : users'[u].ws = users[u].ws /\ users'[u].role = users[u].role,
           invites' \in [Invites -> Invite \cup {NoInvite}],
           \A i \in Invites : invites[i] # NoInvite => invites'[i] # NoInvite,
           \A i \in Invites : invites'[i] # NoInvite => Exists(invites[i].inviter)'
    PROVE  Grows /\ TablesTyped' /\ TablesOK'
<1>1. /\ \A u \in Users : Exists(u)' => WorkspaceExists(users'[u].ws)
      /\ \A u \in Users : users'[u].role = "parentA" => users'[u].ws = u
  BY DEF MemberInv, TablesOK
<1> QED
  BY <1>1, UsersChange

LEMMA MoveOK ==
    ASSUME MemberInv, NEW h \in Handlers, Move(h)
    PROVE  MemberInv'
<1>1. PICK r \in Request : r = req[h] /\ RequestOK(r) /\ r.step = "count"
  BY DEF Move, At, MemberInv, MemberTypeOK, RequestsOK
<1>2. /\ users' = [users EXCEPT ![r.user].ws = r.target, ![r.user].role = "parentB"]
      /\ invites' = [invites EXCEPT ![r.invite].status = "ACCEPTED"]
      /\ UNCHANGED <<load, codes, profiles>> /\ Finish(h)
  BY <1>1 DEF Move, At
<1>3. /\ r.user \in Users /\ users[r.user] \in Member /\ r.target \in Users
      /\ WorkspaceExists(r.target)
      /\ r.invite \in Invites /\ invites[r.invite] \in Invite
  BY <1>1, ExistsIsMember, InviteIsThere DEF RequestOK, MemberInv
<1> DEFINE row == [users[r.user] EXCEPT !.ws = r.target, !.role = "parentB"]
           invite == [invites[r.invite] EXCEPT !.status = "ACCEPTED"]
<1>4. /\ row \in Member /\ row.ws = r.target /\ row.role = "parentB"
      /\ invite \in Invite /\ invite.inviter = invites[r.invite].inviter
  BY <1>3 DEF Member, Roles, Invite, InviteStates
<1>5. /\ users' = [users EXCEPT ![r.user] = row]
      /\ invites' = [invites EXCEPT ![r.invite] = invite]
  BY <1>2, <1>3 DEF MemberInv, MemberTypeOK, Member, Invite
<1> HIDE DEF row, invite
<1>6. /\ users' \in [Users -> Member \cup {NoMember}]
      /\ \A v \in Users : users'[v] = IF v = r.user THEN row ELSE users[v]
  BY <1>3, <1>4, <1>5 DEF MemberInv, MemberTypeOK
<1>7. \A v \in Users : Exists(v)' <=> Exists(v)
  <2>1. row # NoMember
    BY <1>3, <1>4, MembershipAssumption DEF NoMember
  <2>2. Exists(r.user)
    BY <1>3, ExistsIsMember DEF MemberInv
  <2> QED
    BY <1>6, <2>1, <2>2 DEF Exists
<1>8. /\ \A v \in Users : Exists(v)' => WorkspaceExists(users'[v].ws)
      /\ \A v \in Users : users'[v].role = "parentA" => users'[v].ws = v
  BY <1>3, <1>4, <1>6, <1>7 DEF MemberInv, TablesOK
<1>9. /\ invites' \in [Invites -> Invite \cup {NoInvite}]
      /\ \A i \in Invites : invites'[i].inviter = invites[i].inviter
      /\ \A i \in Invites : invites[i] # NoInvite => invites'[i] # NoInvite
      /\ \A i \in Invites : invites'[i] # NoInvite => invites[i] # NoInvite
  <2>1. invite # NoInvite
    BY <1>4, MembershipAssumption DEF Invite, NoInvite
  <2>2. invites[r.invite] # NoInvite
    BY <1>1 DEF RequestOK
  <2> QED
    BY <1>3, <1>4, <1>5, <2>1, <2>2 DEF MemberInv, MemberTypeOK
<1>10. \A i \in Invites : invites'[i] # NoInvite => Exists(invites[i].inviter)'
  <2> SUFFICES ASSUME NEW i \in Invites, invites'[i] # NoInvite
               PROVE  Exists(invites[i].inviter)'
    OBVIOUS
  <2>1. PICK v \in Users : v = invites[i].inviter /\ v = invites'[i].inviter /\ Exists(v)
    BY <1>9, InviteIsThere DEF MemberInv, TablesOK, Invite
  <2> QED
    BY <1>7, <2>1 DEF Exists
<1>11. Grows /\ TablesTyped' /\ TablesOK'
  BY <1>2, <1>6, <1>7, <1>8, <1>9, <1>10, UsersChange
<1> QED
  BY <1>1, <1>2, <1>11, FinishOK

LEMMA DeleteAccountOK ==
    ASSUME MemberInv, NEW h \in Handlers, DeleteAccount(h)
    PROVE  MemberInv'
<1>1. PICK r \in Request : r = req[h] /\ RequestOK(r) /\ r.step = "delete account"
  BY DEF DeleteAccount, At, MemberInv, MemberTypeOK, RequestsOK
<1> DEFINE Closed(i) ==
             IF invites[i].inviter = r.user /\ invites[i].status \in {"PENDING", "LAPSED"}
             THEN [invites[i] EXCEPT !.status = "EXPIRED"] ELSE invites[i]
<1>2. /\ users' = [users EXCEPT ![r.user].deleted = TRUE]
      /\ invites' = [i \in Invites |-> Closed(i)]
      /\ UNCHANGED <<load, codes, profiles>> /\ Finish(h)
  BY <1>1 DEF DeleteAccount, At
<1>3. r.user \in Users /\ users[r.user] \in Member
  BY <1>1, ExistsIsMember DEF RequestOK, MemberInv
<1> DEFINE row == [users[r.user] EXCEPT !.deleted = TRUE]
<1>4. row \in Member /\ row.ws = users[r.user].ws /\ row.role = users[r.user].role
  BY <1>3 DEF Member
<1>5. users' = [users EXCEPT ![r.user] = row]
  BY <1>2, <1>3 DEF MemberInv, MemberTypeOK, Member
<1> HIDE DEF row
<1>6. /\ users' \in [Users -> Member \cup {NoMember}]
      /\ \A v \in Users : users'[v] = IF v = r.user THEN row ELSE users[v]
  BY <1>3, <1>4, <1>5 DEF MemberInv, MemberTypeOK
<1>7. \A v \in Users : Exists(v)' <=> Exists(v)
  <2>1. row # NoMember
    BY <1>4, MembershipAssumption DEF NoMember, Member
  <2>2. Exists(r.user)
    BY <1>3, ExistsIsMember DEF MemberInv
  <2> QED
    BY <1>6, <2>1, <2>2 DEF Exists
<1>8. ASSUME NEW i \in Invites
      PROVE  /\ invites[i] # NoInvite =>
                   Closed(i) \in Invite /\ Closed(i).inviter = invites[i].inviter
             /\ invites[i] = NoInvite => Closed(i) = NoInvite
  <2>1. CASE invites[i] # NoInvite
    BY <2>1, InviteIsThere DEF MemberInv, Invite, InviteStates
  <2>2. CASE invites[i] = NoInvite
    BY <1>3, <2>2, MembershipAssumption DEF NoInvite
  <2> QED
    BY <2>1, <2>2
<1> HIDE DEF Closed
<1>9. NoInvite \notin Invite
  BY MembershipAssumption DEF Invite, NoInvite
<1>10. /\ invites' \in [Invites -> Invite \cup {NoInvite}]
       /\ \A i \in Invites : invites'[i] # NoInvite <=> invites[i] # NoInvite
       /\ \A i \in Invites : invites[i] # NoInvite => invites'[i].inviter = invites[i].inviter
  BY <1>2, <1>8, <1>9
<1>11. \A i \in Invites : invites'[i] # NoInvite => Exists(invites[i].inviter)'
  <2> SUFFICES ASSUME NEW i \in Invites, invites'[i] # NoInvite
               PROVE  Exists(invites[i].inviter)'
    OBVIOUS
  <2>1. PICK v \in Users : v = invites[i].inviter /\ v = invites'[i].inviter /\ Exists(v)
    BY <1>10, InviteIsThere DEF MemberInv, TablesOK, Invite
  <2> QED
    BY <1>7, <2>1 DEF Exists
<1>12. \A v \in Users : users'[v].ws = users[v].ws /\ users'[v].role = users[v].role
  BY <1>4, <1>6
<1>13. Grows /\ TablesTyped' /\ TablesOK'
  BY <1>2, <1>6, <1>7, <1>10, <1>11, <1>12, RowsKept
<1> QED
  BY <1>1, <1>2, <1>13, FinishOK

(* Writes to a workspace's code, with the request that goes on or ends.    *)
LEMMA CodesChange ==
    ASSUME MemberInv, UNCHANGED <<load, users, profiles, invites>>, NEW w \in Users,
           WorkspaceExists(w), NEW c \in [made : Nat, expired : BOOLEAN], c.made > 0,
           codes' = [codes EXCEPT ![w] = c]
    PROVE  Grows /\ TablesTyped' /\ TablesOK'
<1>1. /\ codes' \in [Users -> [made : Nat, expired : BOOLEAN]]
      /\ \A v \in Users : WorkspaceExists(v)' <=> WorkspaceExists(v)
  BY DEF MemberInv, MemberTypeOK, WorkspaceExists
<1>2. Grows /\ TablesTyped'
  BY <1>1 DEF Grows, TablesTyped, MemberInv, MemberTypeOK, Exists
<1>3. \A u \in Users : Exists(u) => users[u].ws \in Users
  BY ExistsIsMember DEF MemberInv, Member
<1>4. \A v \in Users : WorkspaceExists(v) => codes'[v].made > 0
  BY <1>1 DEF WorkspaceExists
<1>5. TablesOK'
  BY <1>1, <1>3, <1>4 DEF TablesOK, MemberInv, Exists, WorkspaceExists
<1> QED
  BY <1>2, <1>5

Code == [made : Nat, expired : BOOLEAN]

LEMMA CodeFields ==
    ASSUME NEW k \in Code
    PROVE  /\ [k EXCEPT !.made = @ + 1, !.expired = FALSE] \in Code
           /\ [k EXCEPT !.made = @ + 1, !.expired = FALSE].made > 0
           /\ [k EXCEPT !.expired = TRUE] \in Code
           /\ [k EXCEPT !.expired = TRUE].made = k.made
<1>1. k.made \in Nat /\ k.made + 1 \in Nat /\ k.made + 1 > 0 /\ k.expired \in BOOLEAN
  BY DEF Code
<1>2. [k EXCEPT !.expired = TRUE] \in Code
  BY <1>1 DEF Code
<1>3. [k EXCEPT !.expired = TRUE].made = k.made
  BY DEF Code
<1>4. PICK n \in Nat : n = k.made + 1 /\ n > 0
  BY <1>1
<1>5. [k EXCEPT !.made = n, !.expired = FALSE] \in Code
  BY <1>4 DEF Code
<1>6. [k EXCEPT !.made = n, !.expired = FALSE].made = n
  BY DEF Code
<1> QED
  BY <1>2, <1>3, <1>4, <1>5, <1>6

LEMMA NewCodeOK ==
    ASSUME MemberInv, NEW h \in Handlers, RefreshCode(h) \/ RefreshForInvite(h)
    PROVE  MemberInv'
<1>1. PICK r \in Request : r = req[h] /\ RequestOK(r)
                          /\ r.step \in {"refresh code", "refresh for invite"}
  BY DEF RefreshCode, RefreshForInvite, At, MemberInv, MemberTypeOK, RequestsOK
<1>2. r.ws \in Users /\ WorkspaceExists(r.ws) /\ codes[r.ws] \in [made : Nat, expired : BOOLEAN]
  BY <1>1 DEF RequestOK, MemberInv, MemberTypeOK
<1> DEFINE c == [codes[r.ws] EXCEPT !.made = @ + 1, !.expired = FALSE]
<1>3. c \in [made : Nat, expired : BOOLEAN] /\ c.made > 0
  BY <1>2, CodeFields DEF Code
<1>4. codes' = [codes EXCEPT ![r.ws] = c] /\ UNCHANGED <<load, users, profiles, invites>>
  BY <1>1, <1>2 DEF RefreshCode, RefreshForInvite, NewCode, At, MemberInv, MemberTypeOK
<1> HIDE DEF c
<1>5. Grows /\ TablesTyped' /\ TablesOK'
  BY <1>2, <1>3, <1>4, CodesChange
<1>6. CASE RefreshCode(h)
  BY <1>1, <1>4, <1>5, <1>6, FinishOK DEF RefreshCode
<1>7. CASE RefreshForInvite(h)
  <2> DEFINE q == [r EXCEPT !.step = "create invite"]
  <2>1. r.step = "refresh for invite" /\ req' = [req EXCEPT ![h] = q]
    BY <1>1, <1>7 DEF RefreshForInvite, At, Goto, MemberInv, MemberTypeOK
  <2>2. q \in Request /\ RequestOK(q)
    BY <1>1, <2>1 DEF Request, Steps, RequestOK
  <2>3. q.ws = r.ws /\ q.user = r.user /\ q.step = "create invite" /\ q.email \in Emails
    BY <2>1, <2>2, <1>1 DEF Request, RequestOK
  <2> HIDE DEF q
  <2>4. WorkspaceExists(r.ws)' /\ Exists(r.user)'
    BY <1>2, <1>5, <1>1, <2>1 DEF Grows, RequestOK, Exists, WorkspaceExists
  <2>5. RequestOK(q)'
    BY <1>2, <2>2, <2>3, <1>5 DEF RequestOK, Grows, Exists, WorkspaceExists
  <2> QED
    BY <1>1, <1>4, <1>5, <2>1, <2>2, <2>5, WriteOK
<1> QED
  BY <1>6, <1>7

LEMMA CreateInviteOK ==
    ASSUME MemberInv, NEW h \in Handlers, CreateInvite(h) \/ ExpireInvite(h)
    PROVE  MemberInv'
<1>1. PICK r \in Request : r = req[h] /\ RequestOK(r) /\ r.step # "idle"
                          /\ (CreateInvite(h) => r.step = "create invite")
                          /\ (ExpireInvite(h) => r.step = "expire invite")
  BY DEF CreateInvite, ExpireInvite, At, MemberInv, MemberTypeOK, RequestsOK
<1>2. PICK i \in Invites, n \in Invite :
        invites' = [invites EXCEPT ![i] = n] /\ Exists(n.inviter)
  <2>1. CASE CreateInvite(h)
    <3>1. r.user \in Users /\ Exists(r.user) /\ r.email \in Emails
      BY <1>1, <2>1 DEF RequestOK
    <3> DEFINE n == [inviter |-> r.user, to |-> r.email, status |-> "PENDING"]
    <3>2. n \in Invite /\ n.inviter = r.user
      BY <3>1 DEF Invite, InviteStates
    <3> QED
      BY <1>1, <2>1, <3>1, <3>2 DEF CreateInvite
  <2>2. CASE ExpireInvite(h)
    <3>1. r.invite \in Invites /\ invites[r.invite] # NoInvite
      BY <1>1, <2>2 DEF RequestOK
    <3> DEFINE n == [invites[r.invite] EXCEPT !.status = "EXPIRED"]
    <3>2. n \in Invite /\ n.inviter = invites[r.invite].inviter
      BY <3>1, InviteIsThere DEF Invite, InviteStates, MemberInv
    <3>3. invites' = [invites EXCEPT ![r.invite] = n]
      BY <1>1, <2>2, <3>1, InviteIsThere DEF ExpireInvite, MemberInv, MemberTypeOK, Invite
    <3>4. Exists(n.inviter)
      BY <3>1, <3>2 DEF MemberInv, TablesOK
    <3> QED
      BY <3>1, <3>2, <3>3, <3>4
  <2> QED
    BY <2>1, <2>2
<1>3. UNCHANGED <<load, users, codes, profiles>> /\ Finish(h)
  BY DEF CreateInvite, ExpireInvite, At
<1>4. /\ invites' \in [Invites -> Invite \cup {NoInvite}]
      /\ \A j \in Invites : invites'[j] = IF j = i THEN n ELSE invites[j]
  BY <1>2 DEF MemberInv, MemberTypeOK
<1>5. n # NoInvite /\ n.inviter \in Users
  BY MembershipAssumption DEF Invite, NoInvite
<1>6. \A j \in Invites : invites'[j] # NoInvite => Exists(invites[j].inviter)'
  BY <1>2, <1>3, <1>4, <1>5 DEF MemberInv, TablesOK, Exists
<1>7. Grows /\ TablesTyped' /\ TablesOK'
  BY <1>3, <1>4, <1>5, <1>6, RowsKept DEF MemberInv, MemberTypeOK, Exists
<1> QED
  BY <1>1, <1>3, <1>7, FinishOK

(* Time is no handler's step. *)
LEMMA ClockOK ==
    ASSUME MemberInv, \/ \E w \in Users : ExpireCode(w)
                      \/ \E i \in Invites : LapseInvite(i)
    PROVE  MemberInv'
<1>1. load' = load /\ req' = req
  BY DEF ExpireCode, LapseInvite
<1>2. Grows /\ TablesTyped' /\ TablesOK'
  <2>1. CASE \E w \in Users : ExpireCode(w)
    <3>1. PICK w \in Users : ExpireCode(w)
      BY <2>1
    <3> DEFINE c == [codes[w] EXCEPT !.expired = TRUE]
    <3>2. c \in [made : Nat, expired : BOOLEAN] /\ c.made > 0 /\ WorkspaceExists(w)
      <4>1. codes[w] \in Code /\ codes[w].made > 0
        BY <3>1, MembershipAssumption DEF ExpireCode, MemberInv, MemberTypeOK, Code
      <4> QED
        BY <4>1, CodeFields DEF Code, WorkspaceExists
    <3>3. codes' = [codes EXCEPT ![w] = c] /\ UNCHANGED <<load, users, profiles, invites>>
      BY <3>1 DEF ExpireCode, MemberInv, MemberTypeOK
    <3> HIDE DEF c
    <3> QED
      BY <3>2, <3>3, CodesChange
  <2>2. CASE \E i \in Invites : LapseInvite(i)
    <3>1. PICK i \in Invites : LapseInvite(i)
      BY <2>2
    <3>2. invites[i] # NoInvite
      BY <3>1 DEF LapseInvite
    <3>3. invites[i] \in Invite
      BY <3>2, InviteIsThere DEF MemberInv
    <3> DEFINE n == [invites[i] EXCEPT !.status = "LAPSED"]
    <3>4. n \in Invite /\ n.inviter = invites[i].inviter /\ n # NoInvite
      BY <3>3, MembershipAssumption DEF Invite, InviteStates, NoInvite
    <3>5. /\ \A j \in Invites : invites'[j] = IF j = i THEN n ELSE invites[j]
          /\ invites' \in [Invites -> Invite \cup {NoInvite}]
          /\ UNCHANGED <<load, users, codes, profiles>>
      BY <3>1, <3>3, <3>4 DEF LapseInvite, MemberInv, MemberTypeOK, Invite
    <3> HIDE DEF n
    <3>6. \A j \in Invites : invites'[j] # NoInvite => Exists(invites[j].inviter)'
      BY <3>2, <3>4, <3>5 DEF MemberInv, TablesOK, Exists
    <3> QED
      BY <3>4, <3>5, <3>6, RowsKept DEF MemberInv, MemberTypeOK, Exists
  <2> QED
    BY <2>1, <2>2
<1>3. RequestsOK' /\ req' \in [Handlers -> Request]
  <2>1. req' \in [Handlers -> Request]
    BY <1>1 DEF MemberInv, MemberTypeOK
  <2>2. ASSUME NEW h \in Handlers
        PROVE  RequestOK(req[h])'
    BY <1>1, <1>2 DEF MemberInv, RequestsOK, RequestOK, Grows, Exists, WorkspaceExists
  <2> QED
    BY <1>1, <2>1, <2>2 DEF MemberInv, RequestsOK, Crowd
<1> QED
  BY <1>1, <1>2, <1>3 DEF MemberInv, MemberTypeOK, TablesTyped

LEMMA CreateChildOK ==
    ASSUME MemberInv, NEW h \in Handlers, CreateChild(h)
    PROVE  MemberInv'
<1>1. PICK r \in Request : r = req[h] /\ RequestOK(r) /\ r.step = "create child"
  BY DEF CreateChild, At, MemberInv, MemberTypeOK, RequestsOK
<1>2. r.ws \in Users /\ WorkspaceExists(r.ws)
  BY <1>1 DEF RequestOK
<1>3. PICK p \in Profiles : profiles' = [profiles EXCEPT ![p] = r.ws]
  BY <1>1 DEF CreateChild
<1>4. UNCHANGED <<load, users, codes, invites>> /\ Finish(h)
  BY DEF CreateChild, At
<1>5. Grows /\ TablesTyped'
  BY <1>2, <1>3, <1>4
  DEF Grows, TablesTyped, MemberInv, MemberTypeOK, Exists, WorkspaceExists
<1>6. TablesOK'
  BY <1>2, <1>3, <1>4
  DEF TablesOK, MemberInv, MemberTypeOK, Exists, WorkspaceExists
<1> QED
  BY <1>1, <1>4, <1>5, <1>6, FinishOK

LEMMA DeleteChildOK ==
    ASSUME MemberInv, NEW h \in Handlers, DeleteChild(h)
    PROVE  MemberInv'
<1>1. PICK r \in Request : r = req[h] /\ RequestOK(r) /\ r.step = "delete child"
  BY DEF DeleteChild, At, MemberInv, MemberTypeOK, RequestsOK
<1>2. /\ r.profile \in Profiles
      /\ r.user # Null => r.user \in Users /\ Exists(r.user)
  BY <1>1 DEF RequestOK
<1> DEFINE Row(u) ==
             IF u \in Linked(r.profile) \cup {r.user}
             THEN [users[u] EXCEPT !.profile = Null, !.deleted = @ \/ u = r.user]
             ELSE users[u]
<1>3. /\ users' = [u \in Users |-> Row(u)]
      /\ profiles' = [profiles EXCEPT ![r.profile] = "deleted"]
      /\ UNCHANGED <<load, codes, invites>> /\ Finish(h)
  BY <1>1 DEF DeleteChild, At, WithoutProfile
<1>4. ASSUME NEW u \in Users
      PROVE  /\ Exists(u) => Row(u) \in Member
             /\ Row(u).ws = users[u].ws /\ Row(u).role = users[u].role
             /\ ~Exists(u) => Row(u) = NoMember
  <2>1. CASE u \in Linked(r.profile) \cup {r.user}
    <3>1. Exists(u)
      BY <1>2, <2>1, MembershipAssumption DEF Linked, Exists, NoMember
    <3>2. users[u] \in Member
      BY <3>1, ExistsIsMember DEF MemberInv
    <3> QED
      BY <2>1, <3>1, <3>2 DEF Member
  <2>2. CASE u \notin Linked(r.profile) \cup {r.user}
    BY <2>2, ExistsIsMember DEF MemberInv, Exists
  <2> QED
    BY <2>1, <2>2
<1> HIDE DEF Row
<1>5. \A u \in Users : users'[u] = Row(u)
  BY <1>3
<1>6. users' \in [Users -> Member \cup {NoMember}]
  <2>1. \A u \in Users : Row(u) \in Member \cup {NoMember}
    BY <1>4
  <2> QED
    BY <1>3, <2>1
<1>7. \A u \in Users : Exists(u)' <=> Exists(u)
  <2>1. NoMember \notin Member
    BY MembershipAssumption DEF Member, NoMember
  <2> QED
    BY <1>4, <1>5, <2>1 DEF Exists
<1>8. /\ codes' = codes /\ invites' = invites
      /\ profiles' \in [Profiles -> Users \cup {"unused", "deleted"}]
      /\ \A p \in Profiles : profiles'[p] \in Users => profiles'[p] = profiles[p]
  BY <1>2, <1>3, MembershipAssumption DEF MemberInv, MemberTypeOK
<1>9. Grows /\ TablesTyped'
  BY <1>6, <1>7, <1>8 DEF Grows, TablesTyped, MemberInv, MemberTypeOK, WorkspaceExists
<1>10. \A u \in Users : users'[u].ws = users[u].ws /\ users'[u].role = users[u].role
  BY <1>4, <1>5
<1>11. \A i \in Invites : invites[i] # NoInvite => invites[i].inviter \in Users
  BY InviteIsThere DEF MemberInv, Invite
<1>12. \A i \in Invites : invites[i] # NoInvite => Exists(invites[i].inviter)'
  <2> SUFFICES ASSUME NEW i \in Invites, invites[i] # NoInvite
               PROVE  Exists(invites[i].inviter)'
    OBVIOUS
  <2>1. PICK v \in Users : v = invites[i].inviter /\ v = invites'[i].inviter /\ Exists(v)
    BY <1>8, <1>11 DEF MemberInv, TablesOK
  <2> QED
    BY <1>7, <2>1 DEF Exists
<1>13. /\ \A u \in Users : Exists(u)' => WorkspaceExists(users[u].ws)'
       /\ \A p \in Profiles : profiles'[p] \in Users => WorkspaceExists(profiles[p])'
  BY <1>7, <1>8, <1>10 DEF MemberInv, TablesOK, WorkspaceExists
<1>14. TablesOK'
  BY <1>7, <1>8, <1>10, <1>12, <1>13 DEF TablesOK, MemberInv, WorkspaceExists
<1> QED
  BY <1>1, <1>3, <1>9, <1>14, FinishOK

LEMMA MemberInitInv == MemberInit => MemberInv
<1> SUFFICES ASSUME MemberInit PROVE MemberInv
  OBVIOUS
<1>1. MemberTypeOK
  BY IdleOK DEF MemberInit, LoadInit, MemberTypeOK
<1>2. TablesOK
  BY MembershipAssumption DEF MemberInit, TablesOK, Exists, WorkspaceExists, NoMember
<1>3. RequestsOK
  BY IdleOK DEF MemberInit, RequestsOK
<1> QED
  BY <1>1, <1>2, <1>3 DEF MemberInv

LEMMA MemberNextInv == MemberInv /\ [MemberNext]_memberVars => MemberInv'
<1> SUFFICES ASSUME MemberInv, [MemberNext]_memberVars PROVE MemberInv'
  OBVIOUS
<1>1. CASE UNCHANGED memberVars
  BY <1>1 DEF memberVars, MemberInv, MemberTypeOK, TablesOK, RequestsOK, RequestOK,
              Exists, WorkspaceExists, Crowd
<1>2. ASSUME NEW h \in Handlers, FamilyStep(h)
      PROVE  MemberInv'
  BY <1>2, FamilyRequests, CreateFamilyOK, Reads, NewCodeOK, CreateAccountOK DEF FamilyStep
<1>3. ASSUME NEW h \in Handlers, InviteStep(h)
      PROVE  MemberInv'
  BY <1>3, InviteRequests, NewCodeOK, CreateInviteOK, MoveOK DEF InviteStep
<1>4. ASSUME NEW h \in Handlers, ChildStep(h)
      PROVE  MemberInv'
  BY <1>4, FamilyRequests, Reads, CreateChildOK, CreateAccountOK, DeleteChildOK DEF ChildStep
<1>5. ASSUME NEW h \in Handlers, DeleteStep(h)
      PROVE  MemberInv'
  BY <1>5, FamilyRequests, DeleteAccountOK, Reads DEF DeleteStep
<1> QED
  BY <1>1, <1>2, <1>3, <1>4, <1>5, ClockOK DEF MemberNext

(* The rows and the requests stay well formed: a foreign key of a request  *)
(* in flight, read or sent, always names a row that is still there.        *)
THEOREM MemberTypes == MemberSpec => []MemberTypeOK
<1>1. MemberInv => MemberTypeOK
  BY DEF MemberInv
<1> QED
  BY <1>1, MemberInitInv, MemberNextInv, PTL DEF MemberSpec

-----------------------------------------------------------------------------
(* The bound on the parents of a family. *)

TicketSteps == {"create parentB", "count"}

LEMMA SetsAreFinite ==
    ASSUME MemberInv
    PROVE  /\ IsFiniteSet(Crowd) /\ Overlap \in Nat
           /\ \A w : Members(w) \subseteq Users /\ IsFiniteSet(Members(w))
           /\ \A w : IsFiniteSet(Parents(w)) /\ Cardinality(Parents(w)) \in Nat
           /\ \A w : /\ Tickets(w) \subseteq Crowd
                    /\ IsFiniteSet(Tickets(w)) /\ Cardinality(Tickets(w)) \in Nat
                    /\ Cardinality(Tickets(w)) <= Overlap
<1>1. Crowd \subseteq Handlers
  BY LoadsAssumption DEF MemberInv, MemberTypeOK, Crowd
<1>2. IsFiniteSet(Crowd) /\ Overlap \in Nat
  BY <1>1, HandlersAssumption, FS_Subset, FS_CardinalityType DEF Overlap
<1>3. ASSUME NEW w
      PROVE  /\ Members(w) \subseteq Users /\ IsFiniteSet(Members(w))
             /\ IsFiniteSet(Parents(w)) /\ Cardinality(Parents(w)) \in Nat
  <2>1. Members(w) \subseteq Users /\ Parents(w) \subseteq Users
    BY DEF Members, Parents
  <2> QED
    BY <2>1, MembershipAssumption, FS_Subset, FS_CardinalityType
<1>4. ASSUME NEW w
      PROVE  /\ Tickets(w) \subseteq Crowd
             /\ IsFiniteSet(Tickets(w)) /\ Cardinality(Tickets(w)) \in Nat
             /\ Cardinality(Tickets(w)) <= Overlap
  <2>1. Tickets(w) \subseteq Crowd
    BY DEF Tickets, MemberInv, RequestsOK
  <2> QED
    BY <1>2, <2>1, FS_Subset, FS_CardinalityType DEF Overlap
<1> QED
  BY <1>2, <1>3, <1>4

(* A step may leave the parents and the tickets of a family alone or       *)
(* shrink them, leave at most one parent there, or turn a ticket of it     *)
(* into a parent. *)
BoundedStep(w) ==
    \/ Parents(w)' \subseteq Parents(w) /\ Tickets(w)' \subseteq Tickets(w)
    \/ Cardinality(Parents(w)') <= 1
    \/ \E u, h : /\ h \in Tickets(w)
                 /\ Parents(w)' \subseteq Parents(w) \cup {u}
                 /\ Tickets(w)' \subseteq Tickets(w) \ {h}

LEMMA BoundedStepBounds ==
    ASSUME MemberInv, MemberInv', load' = load, ParentsBounded,
           \A w \in Users : BoundedStep(w)
    PROVE  ParentsBounded'
<1> SUFFICES ASSUME NEW w \in Users
             PROVE  Cardinality(Parents(w)') + Cardinality(Tickets(w)') <= 1 + Overlap
  BY DEF ParentsBounded, Overlap, Crowd
<1>1. /\ Cardinality(Parents(w)) + Cardinality(Tickets(w)) <= 1 + Overlap
      /\ IsFiniteSet(Parents(w)) /\ Cardinality(Parents(w)) \in Nat
      /\ IsFiniteSet(Tickets(w)) /\ Cardinality(Tickets(w)) \in Nat /\ Overlap \in Nat
  BY SetsAreFinite DEF ParentsBounded
<1>2. /\ IsFiniteSet(Parents(w)') /\ Cardinality(Parents(w)') \in Nat
      /\ IsFiniteSet(Tickets(w)') /\ Cardinality(Tickets(w)') \in Nat
      /\ Cardinality(Tickets(w)') <= Overlap
  <2>1. Parents(w)' \subseteq Users /\ Tickets(w)' \subseteq Crowd
    BY DEF Parents, Members, Tickets, MemberInv, RequestsOK, Crowd
  <2>2. IsFiniteSet(Crowd)
    BY SetsAreFinite
  <2> QED
    BY <2>1, <2>2, MembershipAssumption, FS_Subset, FS_CardinalityType DEF Overlap
<1>3. CASE Parents(w)' \subseteq Parents(w) /\ Tickets(w)' \subseteq Tickets(w)
  <2>1. /\ Cardinality(Parents(w)') <= Cardinality(Parents(w))
        /\ Cardinality(Tickets(w)') <= Cardinality(Tickets(w))
    BY <1>1, <1>3, FS_Subset
  <2> QED
    BY <1>1, <1>2, <2>1
<1>4. CASE Cardinality(Parents(w)') <= 1
  BY <1>1, <1>2, <1>4
<1>5. CASE \E u, h : /\ h \in Tickets(w)
                    /\ Parents(w)' \subseteq Parents(w) \cup {u}
                    /\ Tickets(w)' \subseteq Tickets(w) \ {h}
  <2>1. PICK u, h : /\ h \in Tickets(w)
                    /\ Parents(w)' \subseteq Parents(w) \cup {u}
                    /\ Tickets(w)' \subseteq Tickets(w) \ {h}
    BY <1>5
  <2>2. Cardinality(Parents(w)') <= Cardinality(Parents(w)) + 1
    <3>1. /\ IsFiniteSet(Parents(w) \cup {u})
          /\ Cardinality(Parents(w) \cup {u}) \in Nat
          /\ Cardinality(Parents(w) \cup {u}) <= Cardinality(Parents(w)) + 1
      <4>1. /\ IsFiniteSet(Parents(w) \cup {u})
            /\ \/ Cardinality(Parents(w) \cup {u}) = Cardinality(Parents(w))
               \/ Cardinality(Parents(w) \cup {u}) = Cardinality(Parents(w)) + 1
        BY <1>1, FS_AddElement
      <4> QED
        BY <1>1, <4>1
    <3>2. Cardinality(Parents(w)') <= Cardinality(Parents(w) \cup {u})
      BY <2>1, <3>1, FS_Subset
    <3> QED
      BY <1>1, <1>2, <3>1, <3>2
  <2>3. Cardinality(Tickets(w)') <= Cardinality(Tickets(w)) - 1
    <3>1. /\ IsFiniteSet(Tickets(w) \ {h})
          /\ Cardinality(Tickets(w) \ {h}) = Cardinality(Tickets(w)) - 1
      BY <1>1, <2>1, FS_RemoveElement
    <3>2. Cardinality(Tickets(w)') <= Cardinality(Tickets(w) \ {h})
      BY <2>1, <3>1, FS_Subset
    <3> QED
      BY <3>1, <3>2
  <2> QED
    BY <1>1, <1>2, <2>2, <2>3
<1> QED
  BY <1>3, <1>4, <1>5 DEF BoundedStep

(* Handler h goes on with request r. *)
LEMMA TicketsAfter ==
    ASSUME MemberInv, NEW h \in Handlers, NEW r \in Request, req' = [req EXCEPT ![h] = r],
           NEW w
    PROVE  /\ Tickets(w)' \subseteq Tickets(w) \cup {h}
           /\ r.step \notin TicketSteps => Tickets(w)' \subseteq Tickets(w) \ {h}
           /\ r.step = "create parentB" /\ r.ws # w => Tickets(w)' \subseteq Tickets(w)
           /\ r.step = "count" /\ ~("target" \in r.counted /\ r.target = w)
                => Tickets(w)' \subseteq Tickets(w)
<1>1. \A g \in Handlers : req'[g] = IF g = h THEN r ELSE req[g]
  BY DEF MemberInv, MemberTypeOK
<1> QED
  BY <1>1 DEF Tickets, TicketSteps

LEMMA SameRows ==
    ASSUME users' = users, NEW w
    PROVE  Parents(w)' = Parents(w)
  BY DEF Parents, Members, Live, Exists, IsParent

(* Reads and writes that take no place and add no parent. *)
LEMMA QuietBounds ==
    ASSUME MemberInv, NEW h \in Handlers, NEW r \in Request, req' = [req EXCEPT ![h] = r],
           r.step \notin TicketSteps, \A w \in Users : Parents(w)' \subseteq Parents(w)
    PROVE  \A w \in Users : BoundedStep(w)
  BY TicketsAfter DEF BoundedStep

LEMMA FinishBounds ==
    ASSUME MemberInv, NEW h \in Handlers, Finish(h),
           \A w \in Users : Parents(w)' \subseteq Parents(w)
    PROVE  \A w \in Users : BoundedStep(w)
<1>1. Idle.step \notin TicketSteps
  BY DEF Idle, TicketSteps
<1> QED
  BY <1>1, IdleOK, QuietBounds DEF Finish

LEMMA StartsBounded ==
    ASSUME MemberInv, NEW h \in Handlers,
           \/ \E e \in Emails : RegisterUser(h, e)
           \/ \E u \in Users : AskGraph(h, u)
           \/ \E e \in Emails, w \in Users : JoinWorkspace(h, e, w)
           \/ \E u \in Users, e \in Emails : SendInvite(h, u, e)
           \/ \E u \in Users, i \in Invites : AcceptInvite(h, u, i)
           \/ \E u \in Users : AskCreateChild(h, u)
           \/ \E e \in Emails \cup {Null}, p \in Profiles : ClaimProfile(h, e, p)
           \/ \E u \in Users, p \in Profiles : AskDeleteChild(h, u, p)
           \/ \E u \in Users : AskDeleteAccount(h, u)
    PROVE  \A w \in Users : BoundedStep(w)
<1>1. ASSUME NEW kind, NEW r, Start(h, kind, r), r.step \notin TicketSteps, users' = users
      PROVE  \A w \in Users : BoundedStep(w)
  <2>1. \A w \in Users : Tickets(w)' \subseteq Tickets(w)
    <3>1. \A g \in Handlers : req'[g] = IF g = h THEN r ELSE req[g]
      BY <1>1 DEF Start, MemberInv, MemberTypeOK
    <3> QED
      BY <1>1, <3>1 DEF Tickets, TicketSteps
  <2> QED
    BY <1>1, <2>1, SameRows DEF BoundedStep
<1>2. \A w : InvitingStep(w) \notin TicketSteps
  BY DEF InvitingStep, TicketSteps
<1>3. \A i : AcceptingStep(i) \notin TicketSteps
  BY DEF AcceptingStep, TicketSteps
<1>4. PICK kind, r : Start(h, kind, r) /\ r.step \notin TicketSteps /\ users' = users
  <2>1. CASE \E e \in Emails : RegisterUser(h, e)
    BY <2>1 DEF RegisterUser, Idle, TicketSteps
  <2>2. CASE \E u \in Users : AskGraph(h, u)
    BY <2>2 DEF AskGraph, Idle, TicketSteps
  <2>3. CASE \E e \in Emails, w \in Users : JoinWorkspace(h, e, w)
    BY <2>3 DEF JoinWorkspace, Idle, TicketSteps
  <2>4. CASE \E u \in Users, e \in Emails : SendInvite(h, u, e)
    <3>1. PICK u \in Users, e \in Emails : SendInvite(h, u, e)
      BY <2>4
    <3> DEFINE r == [Idle EXCEPT !.step = InvitingStep(users[u].ws), !.user = u,
                                 !.ws = users[u].ws, !.email = e]
    <3>2. Start(h, "send", r) /\ users' = users
      BY <3>1 DEF SendInvite
    <3>3. r.step \notin TicketSteps
      BY <1>2 DEF Idle
    <3> HIDE DEF r
    <3> QED
      BY <3>2, <3>3
  <2>5. CASE \E u \in Users, i \in Invites : AcceptInvite(h, u, i)
    <3>1. PICK u \in Users, i \in Invites : AcceptInvite(h, u, i)
      BY <2>5
    <3> DEFINE r == [Idle EXCEPT !.step = AcceptingStep(i), !.user = u,
                                 !.ws = users[u].ws, !.invite = i]
    <3>2. Start(h, "accept", r) /\ users' = users
      BY <3>1 DEF AcceptInvite
    <3>3. r.step \notin TicketSteps
      BY <1>3 DEF Idle
    <3> HIDE DEF r
    <3> QED
      BY <3>2, <3>3
  <2>6. CASE \E u \in Users : AskCreateChild(h, u)
    BY <2>6 DEF AskCreateChild, Idle, TicketSteps
  <2>7. CASE \E e \in Emails \cup {Null}, p \in Profiles : ClaimProfile(h, e, p)
    <3>1. PICK e \in Emails \cup {Null}, p \in Profiles : ClaimProfile(h, e, p)
      BY <2>7
    <3> DEFINE kind == IF e = Null THEN "child access" ELSE "child join"
               r == [Idle EXCEPT !.step = "create child account", !.email = e,
                                 !.profile = p, !.ws = profiles[p]]
    <3>2. Start(h, kind, r) /\ users' = users
      BY <3>1 DEF ClaimProfile
    <3>3. r.step \notin TicketSteps
      BY DEF Idle, TicketSteps
    <3> HIDE DEF kind, r
    <3> QED
      BY <3>2, <3>3
  <2>8. CASE \E u \in Users, p \in Profiles : AskDeleteChild(h, u, p)
    <3>1. PICK p \in Profiles, linked \in Users \cup {Null} :
            /\ Start(h, "delete child", [Idle EXCEPT !.step = "delete child",
                                           !.profile = p, !.user = linked])
            /\ users' = users
      BY <2>8 DEF AskDeleteChild
    <3> DEFINE r == [Idle EXCEPT !.step = "delete child", !.profile = p, !.user = linked]
    <3>2. r.step \notin TicketSteps
      BY DEF Idle, TicketSteps
    <3>3. Start(h, "delete child", r) /\ users' = users
      BY <3>1
    <3> HIDE DEF r
    <3> QED
      BY <3>2, <3>3
  <2>9. CASE \E u \in Users : AskDeleteAccount(h, u)
    BY <2>9 DEF AskDeleteAccount, Idle, TicketSteps
  <2> QED
    BY <2>1, <2>2, <2>3, <2>4, <2>5, <2>6, <2>7, <2>8, <2>9
<1> QED
  BY <1>1, <1>4

LEMMA QuietStepsBounded ==
    ASSUME MemberInv, NEW h \in Handlers,
           \/ ReadGraph(h) \/ RefreshCode(h) \/ RefreshForInvite(h) \/ CreateInvite(h)
           \/ ExpireInvite(h) \/ FindInviter(h) \/ CountOwn(h) \/ CreateChild(h)
           \/ Abort(h)
    PROVE  \A w \in Users : BoundedStep(w)
<1>1. users' = users
  BY DEF ReadGraph, RefreshCode, RefreshForInvite, CreateInvite, ExpireInvite,
         FindInviter, CountOwn, CreateChild, Abort
<1>2. req[h] \in Request /\ RequestOK(req[h]) /\ req \in [Handlers -> Request]
  BY DEF MemberInv, MemberTypeOK, RequestsOK
<1>3. CASE Finish(h)
  BY <1>1, <1>3, SameRows, FinishBounds
<1>4. CASE \E s \in {"refresh code", "create invite"} : Goto(h, s)
  <2>1. PICK s \in {"refresh code", "create invite"} : Goto(h, s)
    BY <1>4
  <2> DEFINE r == [req[h] EXCEPT !.step = s]
  <2>2. r \in Request /\ r.step \notin TicketSteps /\ req' = [req EXCEPT ![h] = r]
    BY <1>2, <2>1 DEF Request, Steps, TicketSteps, Goto
  <2> HIDE DEF r
  <2> QED
    BY <1>1, <2>2, SameRows, QuietBounds
<1>5. CASE FindInviter(h)
  <2> DEFINE r == [req[h] EXCEPT !.step = "count",
                     !.target = users[invites[req[h].invite].inviter].ws]
  <2>1. req' = [req EXCEPT ![h] = r] /\ req[h].step = "find inviter"
    BY <1>2, <1>5 DEF FindInviter, At
  <2>2. \A g \in Handlers : req'[g] = IF g = h THEN r ELSE req[g]
    BY <1>2, <2>1
  <2>3. r.counted = {} /\ r.step = "count"
    BY <1>2, <2>1 DEF RequestOK, Request
  <2> HIDE DEF r
  <2>4. \A w \in Users : Tickets(w)' \subseteq Tickets(w)
    BY <2>2, <2>3 DEF Tickets
  <2> QED
    BY <1>1, <2>4, SameRows DEF BoundedStep
<1>6. CASE CountedAs(h, "own") /\ req[h].step = "count"
  <2> DEFINE r == [req[h] EXCEPT !.counted = @ \cup {"own"}]
  <2>1. \A g \in Handlers : req'[g] = IF g = h THEN r ELSE req[g]
    BY <1>2, <1>6 DEF CountedAs
  <2>2. /\ r.step = "count" /\ r.target = req[h].target
        /\ "target" \in r.counted => "target" \in req[h].counted
    BY <1>2, <1>6 DEF Request
  <2> HIDE DEF r
  <2>3. \A w \in Users : Tickets(w)' \subseteq Tickets(w)
    BY <1>6, <2>1, <2>2 DEF Tickets
  <2> QED
    BY <1>1, <2>3, SameRows DEF BoundedStep
<1> QED
  BY <1>3, <1>4, <1>5, <1>6
  DEF ReadGraph, RefreshCode, RefreshForInvite, CreateInvite, ExpireInvite,
      CountOwn, CreateChild, Abort, At

(* A place that is seen to be free: at most one parent is there. *)
LEMMA FounderAlone ==
    ASSUME MemberInv, NEW w \in Users, ~HasParentB(w)
    PROVE  Cardinality(Parents(w)) <= 1
<1>1. Parents(w) \subseteq {w}
  BY DEF Parents, Members, HasParentB, IsParent, Live, MemberInv, TablesOK
<1>2. IsFiniteSet({w}) /\ Cardinality({w}) = 1
  BY FS_Singleton
<1> QED
  BY <1>1, <1>2, FS_Subset

LEMMA TicketsTakenBounded ==
    ASSUME MemberInv, NEW h \in Handlers, CheckParentB(h) \/ CountTarget(h)
    PROVE  \A w \in Users : BoundedStep(w)
<1>1. users' = users
  BY DEF CheckParentB, CountTarget
<1>2. PICK r \in Request : r = req[h] /\ RequestOK(r) /\ r.step \in {"check parentB", "count"}
  BY DEF CheckParentB, CountTarget, At, MemberInv, MemberTypeOK, RequestsOK
<1>3. CASE Finish(h)
  BY <1>1, <1>3, SameRows, FinishBounds
<1>4. CASE CheckParentB(h) /\ ~HasParentB(r.ws)
  <2> DEFINE q == [r EXCEPT !.step = "create parentB"]
  <2>1. q \in Request /\ q.step = "create parentB" /\ q.ws = r.ws
    BY DEF Request, Steps
  <2>2. req' = [req EXCEPT ![h] = q]
    BY <1>2, <1>4 DEF CheckParentB, Goto, At, MemberInv, MemberTypeOK
  <2> HIDE DEF q
  <2>3. ASSUME NEW w \in Users
        PROVE  BoundedStep(w)
    <3>1. CASE w = r.ws
      BY <1>1, <1>4, <3>1, SameRows, FounderAlone DEF BoundedStep
    <3>2. CASE w # r.ws
      BY <1>1, <2>1, <2>2, <3>2, SameRows, TicketsAfter DEF BoundedStep
    <3> QED
      BY <3>1, <3>2
  <2> QED
    BY <2>3
<1>5. CASE CountTarget(h) /\ ~(Cardinality(Members(r.target)) >= 2)
  <2> DEFINE q == [r EXCEPT !.counted = @ \cup {"target"}]
  <2>1. r.step = "count"
    BY <1>2, <1>5 DEF CountTarget, At
  <2>2. q \in Request /\ q.step = "count" /\ q.target = r.target
    BY <2>1 DEF Request
  <2>3. req' = [req EXCEPT ![h] = q]
    BY <1>2, <1>5 DEF CountTarget, CountedAs, At, MemberInv, MemberTypeOK
  <2> HIDE DEF q
  <2>4. ASSUME NEW w \in Users
        PROVE  BoundedStep(w)
    <3>1. CASE w = r.target
      <4>1. /\ IsFiniteSet(Members(w)) /\ Cardinality(Members(w)) \in Nat
            /\ Parents(w) \subseteq Members(w)
        BY SetsAreFinite, FS_CardinalityType DEF Parents
      <4>2. Cardinality(Parents(w)) <= Cardinality(Members(w))
        BY <4>1, FS_Subset
      <4>3. Cardinality(Parents(w)) <= 1
        BY <1>5, <3>1, <4>1, <4>2, SetsAreFinite
      <4> QED
        BY <1>1, <4>3, SameRows DEF BoundedStep
    <3>2. CASE w # r.target
      BY <1>1, <2>2, <2>3, <3>2, SameRows, TicketsAfter DEF BoundedStep
    <3> QED
      BY <3>1, <3>2
  <2> QED
    BY <2>4
<1> QED
  BY <1>2, <1>3, <1>4, <1>5 DEF CheckParentB, CountTarget

LEMMA CreateFamilyBounded ==
    ASSUME MemberInv, NEW h \in Handlers, CreateFamily(h)
    PROVE  \A w \in Users : BoundedStep(w)
<1>1. PICK u \in Users :
        /\ ~Exists(u)
        /\ users' = [users EXCEPT ![u] = NewMember(u, "parentA", Null, req[h].email)]
        /\ ThenGraph(h, u)
  BY DEF CreateFamily
<1> DEFINE row == NewMember(u, "parentA", Null, req[h].email)
           r == [Idle EXCEPT !.step = "read graph", !.ws = u]
<1>2. row.ws = u /\ r \in Request /\ r.step \notin TicketSteps
  BY DEF NewMember, Idle, Request, Steps, TicketSteps
<1>3. \A v \in Users : users'[v] = IF v = u THEN row ELSE users[v]
  BY <1>1 DEF MemberInv, MemberTypeOK
<1>4. req' = [req EXCEPT ![h] = r]
  BY <1>1 DEF ThenGraph
<1> HIDE DEF row, r
<1>5. ASSUME NEW w \in Users
      PROVE  BoundedStep(w)
  <2>1. CASE w = u
    <3>1. ~WorkspaceExists(u)
      BY <1>1 DEF MemberInv, TablesOK
    <3>2. \A v \in Users : Exists(v) => users[v].ws # u
      BY <3>1 DEF MemberInv, TablesOK
    <3>3. Parents(w)' \subseteq {u}
      BY <1>3, <2>1, <3>2 DEF Parents, Members, Live, Exists
    <3>4. IsFiniteSet({u}) /\ Cardinality({u}) = 1
      BY FS_Singleton
    <3>5. Cardinality(Parents(w)') <= 1
      BY <3>3, <3>4, FS_Subset
    <3> QED
      BY <3>5 DEF BoundedStep
  <2>2. CASE w # u
    <3>1. Parents(w)' \subseteq Parents(w)
      BY <1>2, <1>3, <2>2 DEF Parents, Members, Live, Exists, IsParent
    <3>2. Tickets(w)' \subseteq Tickets(w)
      BY <1>2, <1>4, TicketsAfter
    <3> QED
      BY <3>1, <3>2 DEF BoundedStep
  <2> QED
    BY <2>1, <2>2
<1> QED
  BY <1>5

LEMMA CreateParentBBounded ==
    ASSUME MemberInv, NEW h \in Handlers, CreateParentB(h)
    PROVE  \A w \in Users : BoundedStep(w)
<1>1. PICK r \in Request : r = req[h] /\ RequestOK(r) /\ r.step = "create parentB"
  BY DEF CreateParentB, At, MemberInv, MemberTypeOK, RequestsOK
<1>2. PICK u \in Users :
        users' = [users EXCEPT ![u] = NewMember(r.ws, "parentB", Null, r.email)]
  BY <1>1 DEF CreateParentB
<1> DEFINE row == NewMember(r.ws, "parentB", Null, r.email)
           q == [Idle EXCEPT !.step = "read graph", !.ws = r.ws]
<1>3. row.ws = r.ws /\ q \in Request /\ q.step \notin TicketSteps
  BY <1>1 DEF NewMember, Idle, Request, Steps, TicketSteps
<1>4. /\ \A v \in Users : users'[v] = IF v = u THEN row ELSE users[v]
      /\ req' = [req EXCEPT ![h] = q]
  BY <1>1, <1>2 DEF MemberInv, MemberTypeOK, CreateParentB, ThenGraph
<1>5. h \in Tickets(r.ws)
  BY <1>1 DEF Tickets
<1> HIDE DEF row, q
<1>6. ASSUME NEW w \in Users
      PROVE  BoundedStep(w)
  <2>1. Tickets(w)' \subseteq Tickets(w) \ {h}
    BY <1>3, <1>4, TicketsAfter
  <2>2. Parents(w)' \subseteq Parents(w) \cup {u} /\ (w # r.ws => Parents(w)' \subseteq Parents(w))
    BY <1>3, <1>4 DEF Parents, Members, Live, Exists, IsParent
  <2> QED
    BY <1>5, <2>1, <2>2 DEF BoundedStep
<1> QED
  BY <1>6

LEMMA MoveBounded ==
    ASSUME MemberInv, NEW h \in Handlers, Move(h)
    PROVE  \A w \in Users : BoundedStep(w)
<1>1. PICK r \in Request : r = req[h] /\ RequestOK(r) /\ r.step = "count"
                          /\ r.counted = {"own", "target"}
  BY DEF Move, At, MemberInv, MemberTypeOK, RequestsOK
<1>2. r.user \in Users /\ users[r.user] \in Member
  BY <1>1, ExistsIsMember DEF RequestOK, MemberInv
<1> DEFINE row == [users[r.user] EXCEPT !.ws = r.target, !.role = "parentB"]
<1>3. row.ws = r.target
  BY <1>2 DEF Member
<1>4. users' = [users EXCEPT ![r.user] = row]
  BY <1>1, <1>2 DEF Move, MemberInv, MemberTypeOK, Member
<1>5. \A v \in Users : users'[v] = IF v = r.user THEN row ELSE users[v]
  BY <1>2, <1>4 DEF MemberInv, MemberTypeOK
<1>6. h \in Tickets(r.target)
  BY <1>1 DEF Tickets
<1>7. req' = [req EXCEPT ![h] = Idle] /\ Idle.step \notin TicketSteps
  BY DEF Move, Finish, Idle, TicketSteps
<1> HIDE DEF row
<1>8. ASSUME NEW w \in Users
      PROVE  BoundedStep(w)
  <2>1. Tickets(w)' \subseteq Tickets(w) \ {h}
    BY <1>7, IdleOK, TicketsAfter
  <2>2. /\ Parents(w)' \subseteq Parents(w) \cup {r.user}
        /\ w # r.target => Parents(w)' \subseteq Parents(w)
    BY <1>3, <1>5 DEF Parents, Members, Live, Exists, IsParent
  <2> QED
    BY <1>6, <2>1, <2>2 DEF BoundedStep
<1> QED
  BY <1>8

(* Child accounts are no parents, and a deletion makes none. *)
LEMMA OtherWritesBounded ==
    ASSUME MemberInv, NEW h \in Handlers,
           CreateChildAccount(h) \/ DeleteChild(h) \/ DeleteAccount(h)
    PROVE  \A w \in Users : BoundedStep(w)
<1>1. PICK r \in Request : r = req[h] /\ RequestOK(r)
        /\ r.step \in {"create child account", "delete child", "delete account"}
  BY DEF CreateChildAccount, DeleteChild, DeleteAccount, At, MemberInv, MemberTypeOK, RequestsOK
<1>2. CASE CreateChildAccount(h)
  <2>1. PICK u \in Users :
          users' = [users EXCEPT ![u] = NewMember(r.ws, "child", r.profile, r.email)]
    BY <1>1, <1>2 DEF CreateChildAccount
  <2> DEFINE row == NewMember(r.ws, "child", r.profile, r.email)
             q == [Idle EXCEPT !.step = "read graph", !.ws = r.ws]
  <2>2. row.role = "child" /\ q \in Request /\ q.step \notin TicketSteps
    BY <1>1 DEF NewMember, Idle, Request, Steps, TicketSteps
  <2>3. /\ \A v \in Users : users'[v] = IF v = u THEN row ELSE users[v]
        /\ req' = [req EXCEPT ![h] = q]
    BY <1>1, <1>2, <2>1 DEF MemberInv, MemberTypeOK, CreateChildAccount, ThenGraph
  <2> HIDE DEF row, q
  <2>4. \A w \in Users : Parents(w)' \subseteq Parents(w)
    BY <2>2, <2>3 DEF Parents, Members, Live, Exists, IsParent
  <2> QED
    BY <2>2, <2>3, <2>4, QuietBounds
<1>3. CASE DeleteChild(h)
  <2>0. r.step = "delete child"
    BY <1>1, <1>3 DEF DeleteChild, At
  <2>1. /\ \A u \in Users : users'[u] = WithoutProfile(r.profile, r.user)[u]
        /\ Finish(h)
    BY <1>1, <1>3 DEF DeleteChild
  <2>2. ASSUME NEW u \in Users, NEW w \in Users, u \in Parents(w)'
        PROVE  u \in Parents(w)
    <3>1. CASE u \in Linked(r.profile) \cup {r.user}
      <4>1. Exists(u)
        <5>1. r.profile \in Profiles /\ (r.user # Null => Exists(r.user))
          BY <1>1, <2>0 DEF RequestOK
        <5>2. CASE u = r.user
          BY <5>1, <5>2, MembershipAssumption
        <5>3. CASE users[u].profile = r.profile
          BY <5>1, <5>3, MembershipAssumption DEF Exists, NoMember
        <5> QED
          BY <3>1, <5>2, <5>3 DEF Linked
      <4>2. users[u] \in Member
        BY <4>1, ExistsIsMember DEF MemberInv
      <4>3. users'[u] = [users[u] EXCEPT !.profile = Null, !.deleted = @ \/ u = r.user]
        BY <2>1, <3>1 DEF WithoutProfile
      <4>4. /\ users'[u].ws = users[u].ws /\ users'[u].role = users[u].role
            /\ users[u].deleted => users'[u].deleted
        BY <4>2, <4>3 DEF Member
      <4> QED
        BY <2>2, <4>1, <4>4 DEF Parents, Members, Live, IsParent
    <3>2. CASE u \notin Linked(r.profile) \cup {r.user}
      <4>1. users'[u] = users[u]
        BY <2>1, <3>2 DEF WithoutProfile
      <4> QED
        BY <2>2, <4>1 DEF Parents, Members, Live, Exists, IsParent
    <3> QED
      BY <3>1, <3>2
  <2>3. \A w \in Users : Parents(w)' \subseteq Parents(w)
    BY <2>2 DEF Parents, Members
  <2> QED
    BY <2>1, <2>3, FinishBounds
<1>4. CASE DeleteAccount(h)
  <2>1. r.user \in Users /\ users[r.user] \in Member /\ r.step = "delete account"
    <3>1. r.step = "delete account"
      BY <1>1, <1>4 DEF DeleteAccount, At
    <3> QED
      BY <1>1, <3>1, ExistsIsMember DEF RequestOK, MemberInv
  <2> DEFINE row == [users[r.user] EXCEPT !.deleted = TRUE]
  <2>2. row.deleted
    BY <2>1 DEF Member
  <2>3. users' = [users EXCEPT ![r.user] = row] /\ Finish(h)
    BY <1>1, <1>4, <2>1 DEF DeleteAccount, MemberInv, MemberTypeOK, Member
  <2>4. \A v \in Users : users'[v] = IF v = r.user THEN row ELSE users[v]
    BY <2>1, <2>3 DEF MemberInv, MemberTypeOK
  <2> HIDE DEF row
  <2>5. \A w \in Users : Parents(w)' \subseteq Parents(w)
    BY <2>2, <2>4 DEF Parents, Members, Live, Exists, IsParent
  <2> QED
    BY <2>3, <2>5, FinishBounds
<1> QED
  BY <1>2, <1>3, <1>4

LEMMA ClockBounded ==
    ASSUME MemberInv, \/ \E w \in Users : ExpireCode(w)
                      \/ \E i \in Invites : LapseInvite(i)
    PROVE  \A w \in Users : BoundedStep(w)
<1>1. users' = users /\ req' = req
  BY DEF ExpireCode, LapseInvite
<1> QED
  BY <1>1, SameRows DEF BoundedStep, Tickets

LEMMA NextBounded ==
    ASSUME MemberInv, MemberNext
    PROVE  load' = load /\ \A w \in Users : BoundedStep(w)
<1>1. load' = load
  <2>1. ASSUME NEW h \in Handlers, FamilyStep(h)
        PROVE  load' = load
    BY <2>1 DEF FamilyStep, RegisterUser, CreateFamily, AskGraph, ReadGraph, RefreshCode,
                JoinWorkspace, CheckParentB, CreateParentB, Start, At
  <2>2. ASSUME NEW h \in Handlers, InviteStep(h)
        PROVE  load' = load
    BY <2>2 DEF InviteStep, SendInvite, RefreshForInvite, CreateInvite, AcceptInvite,
                ExpireInvite, FindInviter, CountOwn, CountTarget, Move, Start, At
  <2>3. ASSUME NEW h \in Handlers, ChildStep(h)
        PROVE  load' = load
    <3>1. CASE \E e \in Emails \cup {Null}, p \in Profiles : ClaimProfile(h, e, p)
      BY <3>1, Zenon DEF ClaimProfile, Start
    <3> QED
      BY <2>3, <3>1 DEF ChildStep, AskCreateChild, CreateChild, CreateChildAccount,
                        AskDeleteChild, DeleteChild, Start, At
  <2>4. ASSUME NEW h \in Handlers, DeleteStep(h)
        PROVE  load' = load
    BY <2>4 DEF DeleteStep, AskDeleteAccount, DeleteAccount, Abort, Start, At
  <2>5. ASSUME NEW x, ExpireCode(x) \/ LapseInvite(x)
        PROVE  load' = load
    BY <2>5 DEF ExpireCode, LapseInvite
  <2> QED
    BY <2>1, <2>2, <2>3, <2>4, <2>5 DEF MemberNext
<1>2. ASSUME NEW h \in Handlers, FamilyStep(h)
      PROVE  \A w \in Users : BoundedStep(w)
  BY <1>2, StartsBounded, QuietStepsBounded, CreateFamilyBounded, TicketsTakenBounded,
     CreateParentBBounded DEF FamilyStep
<1>3. ASSUME NEW h \in Handlers, InviteStep(h)
      PROVE  \A w \in Users : BoundedStep(w)
  BY <1>3, StartsBounded, QuietStepsBounded, TicketsTakenBounded, MoveBounded DEF InviteStep
<1>4. ASSUME NEW h \in Handlers, ChildStep(h)
      PROVE  \A w \in Users : BoundedStep(w)
  BY <1>4, StartsBounded, QuietStepsBounded, OtherWritesBounded DEF ChildStep
<1>5. ASSUME NEW h \in Handlers, DeleteStep(h)
      PROVE  \A w \in Users : BoundedStep(w)
  BY <1>5, StartsBounded, QuietStepsBounded, OtherWritesBounded DEF DeleteStep
<1> QED
  BY <1>1, <1>2, <1>3, <1>4, <1>5, ClockBounded DEF MemberNext

(* However many requests overlap, for any number of families and for every *)
(* load: the parents of a family, with the requests that have seen a free  *)
(* place there, number at most one more than the requests in flight; so    *)
(* at most two as long as requests come one at a time. *)
THEOREM ParentsAreBounded == MemberSpec => []ParentsBounded
<1> DEFINE Inv == MemberInv /\ ParentsBounded
<1>1. MemberInit => Inv
  <2> SUFFICES ASSUME MemberInit PROVE ParentsBounded
    BY MemberInitInv
  <2>1. ASSUME NEW w \in Users
        PROVE  Cardinality(Parents(w)) + Cardinality(Tickets(w)) <= 1 + Overlap
    <3>1. Parents(w) = {} /\ Tickets(w) = {}
      BY DEF MemberInit, Parents, Members, Live, Exists, Tickets, Idle
    <3>2. Cardinality({}) = 0 /\ Overlap \in Nat
      BY FS_EmptySet, MemberInitInv, SetsAreFinite
    <3> QED
      BY <3>1, <3>2
  <2> QED
    BY <2>1 DEF ParentsBounded
<1>2. Inv /\ [MemberNext]_memberVars => Inv'
  <2> SUFFICES ASSUME MemberInv, ParentsBounded, [MemberNext]_memberVars
               PROVE  MemberInv' /\ ParentsBounded'
    OBVIOUS
  <2>1. MemberInv'
    BY MemberNextInv
  <2>2. CASE MemberNext
    BY <2>1, <2>2, NextBounded, BoundedStepBounds
  <2>3. CASE UNCHANGED memberVars
    BY <2>1, <2>3 DEF memberVars, ParentsBounded, Parents, Members, Live, Exists, IsParent,
                Tickets, Overlap, Crowd
  <2> QED
    BY <2>1, <2>2, <2>3
<1> QED
  BY <1>1, <1>2, PTL DEF MemberSpec

-----------------------------------------------------------------------------
(* What links the tables, whatever overlaps.                               *)

(* An account and its profile belong to each other alone, and the profile  *)
(* is there: deleteChild unlinks the rows before it removes the profile.   *)
LinksOK ==
    /\ \A u \in Users : users[u].profile # Null
         => users[u].profile \in Profiles /\ profiles[users[u].profile] \in Users
    /\ \A u, v \in Users :
         users[u].profile # Null /\ users[u].profile = users[v].profile => u = v

Open(i) == invites[i] # NoInvite /\ invites[i].status \in {"PENDING", "LAPSED"}

FamilyFounded(h, u, row) ==
    /\ row = NewMember(u, "parentA", Null, req[h].email) /\ ~Exists(u)
    /\ \A v \in Users : users'[v] = IF v = u THEN row ELSE users[v]
    /\ \A w \in Users : w # u => codes'[w] = codes[w]
    /\ UNCHANGED <<load, profiles, invites>> /\ ThenGraph(h, u)
    /\ req[h].step # "idle"

LEMMA CreateFamilyEffect ==
    ASSUME MemberInv, NEW h \in Handlers, CreateFamily(h)
    PROVE  \E u \in Users, row \in Member : FamilyFounded(h, u, row)
<1>1. PICK u \in Users :
        /\ ~Exists(u)
        /\ users' = [users EXCEPT ![u] = NewMember(u, "parentA", Null, req[h].email)]
        /\ codes' = [codes EXCEPT ![u] = [made |-> 1, expired |-> FALSE]]
        /\ ThenGraph(h, u)
  BY DEF CreateFamily
<1>2. PICK row : row = NewMember(u, "parentA", Null, req[h].email)
  OBVIOUS
<1>3. row \in Member
  BY <1>2 DEF NewMember, Member, Roles, MemberInv, MemberTypeOK, Request
<1>4. \A v \in Users : users'[v] = IF v = u THEN row ELSE users[v]
  BY <1>1, <1>2 DEF MemberInv, MemberTypeOK
<1>5. \A w \in Users : w # u => codes'[w] = codes[w]
  BY <1>1 DEF MemberInv, MemberTypeOK
<1>6. UNCHANGED <<load, profiles, invites>> /\ req[h].step # "idle"
  BY DEF CreateFamily, At
<1> QED
  BY <1>1, <1>2, <1>3, <1>4, <1>5, <1>6 DEF FamilyFounded

ParentBJoined(h, u, row, w) ==
    /\ row = NewMember(w, "parentB", Null, req[h].email) /\ ~Exists(u)
    /\ \A v \in Users : users'[v] = IF v = u THEN row ELSE users[v]
    /\ UNCHANGED <<load, codes, profiles, invites>> /\ ThenGraph(h, w)
    /\ req[h].step # "idle"

LEMMA CreateParentBEffect ==
    ASSUME MemberInv, NEW h \in Handlers, CreateParentB(h)
    PROVE  \E u \in Users, row \in Member, w \in Users : ParentBJoined(h, u, row, w)
<1>1. PICK r \in Request : r = req[h] /\ RequestOK(r) /\ r.step = "create parentB"
  BY DEF CreateParentB, At, MemberInv, MemberTypeOK, RequestsOK
<1>2. PICK u \in Users : ~Exists(u) /\ users' = [users EXCEPT ![u] = NewMember(r.ws, "parentB", Null, r.email)]
  BY <1>1 DEF CreateParentB
<1>3. PICK row : row = NewMember(r.ws, "parentB", Null, r.email)
  OBVIOUS
<1>4. row \in Member /\ r.ws \in Users
  BY <1>1, <1>3 DEF NewMember, Member, Roles, Request, RequestOK
<1>5. \A v \in Users : users'[v] = IF v = u THEN row ELSE users[v]
  BY <1>2, <1>3 DEF MemberInv, MemberTypeOK
<1>6. UNCHANGED <<load, codes, profiles, invites>> /\ ThenGraph(h, r.ws) /\ req[h].step # "idle"
  BY <1>1 DEF CreateParentB, At
<1> QED
  BY <1>1, <1>2, <1>3, <1>4, <1>5, <1>6 DEF ParentBJoined

ChildJoined(h, r, u, row) ==
    /\ r = req[h] /\ r.step = "create child account"
    /\ r.ws \in Users /\ r.profile \in Profiles /\ ProfileFree(r.profile)
    /\ row = NewMember(r.ws, "child", r.profile, r.email) /\ ~Exists(u)
    /\ \A v \in Users : users'[v] = IF v = u THEN row ELSE users[v]
    /\ UNCHANGED <<load, codes, profiles, invites>> /\ ThenGraph(h, r.ws)

LEMMA CreateChildAccountEffect ==
    ASSUME MemberInv, NEW h \in Handlers, CreateChildAccount(h)
    PROVE  \E r \in Request, u \in Users, row \in Member : ChildJoined(h, r, u, row)
<1>1. PICK r \in Request : r = req[h] /\ RequestOK(r) /\ r.step = "create child account"
  BY DEF CreateChildAccount, At, MemberInv, MemberTypeOK, RequestsOK
<1>2. PICK u \in Users :
        ~Exists(u) /\ users' = [users EXCEPT ![u] = NewMember(r.ws, "child", r.profile, r.email)]
  BY <1>1 DEF CreateChildAccount
<1>3. PICK row : row = NewMember(r.ws, "child", r.profile, r.email)
  OBVIOUS
<1>4. row \in Member /\ r.ws \in Users /\ r.profile \in Profiles
  BY <1>1, <1>3 DEF NewMember, Member, Roles, Request, RequestOK
<1>5. \A v \in Users : users'[v] = IF v = u THEN row ELSE users[v]
  BY <1>2, <1>3 DEF MemberInv, MemberTypeOK
<1>6. UNCHANGED <<load, codes, profiles, invites>> /\ ThenGraph(h, r.ws) /\ ProfileFree(r.profile)
  BY <1>1 DEF CreateChildAccount, At
<1> QED
  BY <1>1, <1>2, <1>3, <1>4, <1>5, <1>6 DEF ChildJoined

Moved(h, r) ==
    /\ r = req[h] /\ r.step = "count" /\ r.counted = {"own", "target"}
    /\ r.user \in Users /\ Exists(r.user) /\ r.target \in Users /\ r.invite \in Invites
    /\ invites[r.invite] # NoInvite
    /\ \A v \in Users :
         /\ Exists(v)' <=> Exists(v)
         /\ users'[v].profile = users[v].profile
         /\ users'[v].deleted = users[v].deleted
         /\ users'[v].ws = IF v = r.user THEN r.target ELSE users[v].ws
         /\ users'[v].role = IF v = r.user THEN "parentB" ELSE users[v].role
    /\ \A i \in Invites : invites'[i].inviter = invites[i].inviter
    /\ \A i \in Invites : Open(i)' => Open(i)
    /\ UNCHANGED <<load, codes, profiles>> /\ Finish(h)

LEMMA MoveEffect ==
    ASSUME MemberInv, NEW h \in Handlers, Move(h)
    PROVE  \E r \in Request : Moved(h, r)
<1>1. PICK r \in Request : /\ r = req[h] /\ RequestOK(r) /\ r.step = "count"
                           /\ r.counted = {"own", "target"}
  BY DEF Move, At, MemberInv, MemberTypeOK, RequestsOK
<1>2. /\ r.user \in Users /\ Exists(r.user) /\ users[r.user] \in Member
      /\ r.target \in Users /\ r.invite \in Invites /\ invites[r.invite] # NoInvite
  BY <1>1, ExistsIsMember DEF RequestOK, MemberInv
<1>3. PICK row : row = [users[r.user] EXCEPT !.ws = r.target, !.role = "parentB"]
  OBVIOUS
<1>4. /\ row \in Member /\ row.ws = r.target /\ row.role = "parentB"
      /\ row.profile = users[r.user].profile /\ row.deleted = users[r.user].deleted
  BY <1>2, <1>3 DEF Member, Roles
<1>5. users' = [users EXCEPT ![r.user] = row]
  BY <1>1, <1>2, <1>3 DEF Move, MemberInv, MemberTypeOK, Member
<1>6. \A v \in Users : users'[v] = IF v = r.user THEN row ELSE users[v]
  BY <1>2, <1>5 DEF MemberInv, MemberTypeOK
<1>7. NoMember \notin Member
  BY MembershipAssumption DEF Member, NoMember
<1>8. \A v \in Users : Exists(v)' <=> Exists(v)
  BY <1>2, <1>4, <1>6, <1>7 DEF Exists
<1>9. invites[r.invite] \in Invite
  BY <1>2, InviteIsThere DEF MemberInv
<1>10. PICK row2 : row2 = [invites[r.invite] EXCEPT !.status = "ACCEPTED"]
  OBVIOUS
<1>11. row2.status = "ACCEPTED" /\ row2.inviter = invites[r.invite].inviter
  BY <1>9, <1>10 DEF Invite
<1>12. \A i \in Invites : invites'[i] = IF i = r.invite THEN row2 ELSE invites[i]
  BY <1>1, <1>2, <1>10 DEF Move, MemberInv, MemberTypeOK
<1>13. \A i \in Invites : /\ invites'[i].inviter = invites[i].inviter
                          /\ Open(i)' => Open(i)
  BY <1>11, <1>12 DEF Open
<1>14. UNCHANGED <<load, codes, profiles>> /\ Finish(h)
  BY DEF Move, At
<1> QED
  BY <1>1, <1>2, <1>4, <1>6, <1>8, <1>13, <1>14 DEF Moved

ChildDeleted(h, r) ==
    /\ r = req[h] /\ r.step = "delete child" /\ r.profile \in Profiles
    /\ profiles[r.profile] \in Users
    /\ \A v \in Users :
         /\ Exists(v)' <=> Exists(v)
         /\ users'[v].profile = IF v = r.user \/ users[v].profile = r.profile
                                THEN Null ELSE users[v].profile
         /\ Live(v)' <=> Live(v) /\ v # r.user
         /\ users'[v].ws = users[v].ws /\ users'[v].role = users[v].role
    /\ \A p \in Profiles : profiles'[p] = IF p = r.profile THEN "deleted" ELSE profiles[p]
    /\ UNCHANGED <<load, codes, invites>> /\ Finish(h)

LEMMA DeleteChildEffect ==
    ASSUME MemberInv, NEW h \in Handlers, DeleteChild(h)
    PROVE  \E r \in Request : ChildDeleted(h, r)
<1>1. PICK r \in Request : r = req[h] /\ RequestOK(r) /\ r.step = "delete child"
  BY DEF DeleteChild, At, MemberInv, MemberTypeOK, RequestsOK
<1>2. /\ r.profile \in Profiles
      /\ r.user # Null => r.user \in Users /\ Exists(r.user)
  BY <1>1 DEF RequestOK
<1>3. /\ users' = WithoutProfile(r.profile, r.user)
      /\ profiles' = [profiles EXCEPT ![r.profile] = "deleted"]
      /\ UNCHANGED <<load, codes, invites>> /\ Finish(h) /\ profiles[r.profile] \in Users
  BY <1>1 DEF DeleteChild, At
<1>4. NoMember \notin Member /\ Null \notin Users /\ NoMember.profile = Null /\ Null \notin Profiles
  BY MembershipAssumption DEF Member, NoMember
<1>5. ASSUME NEW v \in Users
      PROVE  /\ Exists(v)' <=> Exists(v)
             /\ users'[v].profile = IF v = r.user \/ users[v].profile = r.profile
                                    THEN Null ELSE users[v].profile
             /\ Live(v)' <=> Live(v) /\ v # r.user
             /\ users'[v].ws = users[v].ws /\ users'[v].role = users[v].role
  <2>1. CASE v \in Linked(r.profile) \cup {r.user}
    <3>1. Exists(v)
      BY <1>2, <1>4, <2>1 DEF Linked, Exists
    <3>2. users[v] \in Member
      BY <3>1, ExistsIsMember DEF MemberInv
    <3>3. users'[v] = [users[v] EXCEPT !.profile = Null, !.deleted = @ \/ v = r.user]
      BY <1>3, <2>1 DEF WithoutProfile
    <3>4. /\ users'[v] \in Member /\ users'[v].profile = Null
          /\ users'[v].deleted <=> users[v].deleted \/ v = r.user
          /\ users'[v].ws = users[v].ws /\ users'[v].role = users[v].role
      BY <3>2, <3>3 DEF Member
    <3>5. Exists(v)' /\ (v = r.user \/ users[v].profile = r.profile)
      BY <1>4, <2>1, <3>4 DEF Exists, Linked
    <3> QED
      BY <3>1, <3>4, <3>5 DEF Live
  <2>2. CASE v \notin Linked(r.profile) \cup {r.user}
    <3>1. users'[v] = users[v]
      BY <1>3, <2>2 DEF WithoutProfile
    <3> QED
      BY <2>2, <3>1 DEF Linked, Live, Exists
  <2> QED
    BY <2>1, <2>2
<1>6. \A p \in Profiles : profiles'[p] = IF p = r.profile THEN "deleted" ELSE profiles[p]
  BY <1>2, <1>3 DEF MemberInv, MemberTypeOK
<1> QED
  BY <1>1, <1>2, <1>3, <1>5, <1>6 DEF ChildDeleted

AccountDeleted(h, r) ==
    /\ r = req[h] /\ r.step = "delete account" /\ r.user \in Users
    /\ \A v \in Users :
         /\ Exists(v)' <=> Exists(v)
         /\ Live(v)' <=> Live(v) /\ v # r.user
         /\ users'[v].profile = users[v].profile
         /\ users'[v].ws = users[v].ws /\ users'[v].role = users[v].role
    /\ \A i \in Invites : invites'[i].inviter = invites[i].inviter
    /\ \A i \in Invites : Open(i)' => Open(i) /\ invites[i].inviter # r.user
    /\ UNCHANGED <<load, codes, profiles>> /\ Finish(h)

LEMMA DeleteAccountEffect ==
    ASSUME MemberInv, NEW h \in Handlers, DeleteAccount(h)
    PROVE  \E r \in Request : AccountDeleted(h, r)
<1>1. PICK r \in Request : r = req[h] /\ RequestOK(r) /\ r.step = "delete account"
  BY DEF DeleteAccount, At, MemberInv, MemberTypeOK, RequestsOK
<1>2. r.user \in Users /\ users[r.user] \in Member
  BY <1>1, ExistsIsMember DEF RequestOK, MemberInv
<1>3. PICK row : row = [users[r.user] EXCEPT !.deleted = TRUE]
  OBVIOUS
<1>4. /\ row \in Member /\ row.deleted /\ row.profile = users[r.user].profile
      /\ row.ws = users[r.user].ws /\ row.role = users[r.user].role
  BY <1>2, <1>3 DEF Member
<1>5. users' = [users EXCEPT ![r.user] = row]
  BY <1>1, <1>2, <1>3 DEF DeleteAccount, MemberInv, MemberTypeOK, Member
<1>6. \A v \in Users : users'[v] = IF v = r.user THEN row ELSE users[v]
  BY <1>2, <1>5 DEF MemberInv, MemberTypeOK
<1>7. NoMember \notin Member
  BY MembershipAssumption DEF Member, NoMember
<1>8. \A v \in Users : /\ Exists(v)' <=> Exists(v)
                       /\ Live(v)' <=> Live(v) /\ v # r.user
  BY <1>2, <1>4, <1>6, <1>7 DEF Exists, Live
<1>9. ASSUME NEW i \in Invites
      PROVE  /\ invites'[i].inviter = invites[i].inviter
             /\ Open(i)' => Open(i) /\ invites[i].inviter # r.user
  <2>1. invites'[i] = IF invites[i].inviter = r.user /\ invites[i].status \in {"PENDING", "LAPSED"}
                      THEN [invites[i] EXCEPT !.status = "EXPIRED"] ELSE invites[i]
    BY <1>1 DEF DeleteAccount
  <2>2. CASE invites[i].inviter = r.user /\ invites[i].status \in {"PENDING", "LAPSED"}
    <3>1. invites[i] # NoInvite
      BY <1>2, <2>2, MembershipAssumption DEF NoInvite
    <3>2. invites[i] \in Invite
      BY <3>1, InviteIsThere DEF MemberInv
    <3>3. invites'[i] = [invites[i] EXCEPT !.status = "EXPIRED"]
      BY <2>1, <2>2
    <3>4. invites'[i].inviter = invites[i].inviter /\ invites'[i].status = "EXPIRED"
      BY <3>2, <3>3 DEF Invite
    <3> QED
      BY <3>4 DEF Open
  <2>3. CASE ~(invites[i].inviter = r.user /\ invites[i].status \in {"PENDING", "LAPSED"})
    BY <2>1, <2>3 DEF Open
  <2> QED
    BY <2>2, <2>3
<1>10. UNCHANGED <<load, codes, profiles>> /\ Finish(h)
  BY DEF DeleteAccount, At
<1> QED
  BY <1>1, <1>2, <1>4, <1>6, <1>8, <1>9, <1>10 DEF AccountDeleted

(* The statements that leave User and Child alone. *)
LEMMA TablesUnread ==
    ASSUME NEW h \in Handlers,
           \/ FamilyStep(h) /\ ~CreateFamily(h) /\ ~CreateParentB(h)
           \/ InviteStep(h) /\ ~Move(h)
           \/ ChildStep(h) /\ ~CreateChild(h) /\ ~CreateChildAccount(h) /\ ~DeleteChild(h)
           \/ DeleteStep(h) /\ ~DeleteAccount(h)
    PROVE  UNCHANGED <<users, profiles>>
<1>1. CASE FamilyStep(h) /\ ~CreateFamily(h) /\ ~CreateParentB(h)
  BY <1>1 DEF FamilyStep, RegisterUser, AskGraph, ReadGraph, RefreshCode, JoinWorkspace, CheckParentB
<1>2. CASE InviteStep(h) /\ ~Move(h)
  BY <1>2 DEF InviteStep, SendInvite, RefreshForInvite, CreateInvite, AcceptInvite, ExpireInvite,
              FindInviter, CountOwn, CountTarget
<1>3. CASE ChildStep(h) /\ ~CreateChild(h) /\ ~CreateChildAccount(h) /\ ~DeleteChild(h)
  <2>1. CASE \E e \in Emails \cup {Null}, p \in Profiles : ClaimProfile(h, e, p)
    BY <2>1, Zenon DEF ClaimProfile
  <2> QED
    BY <1>3, <2>1 DEF ChildStep, AskCreateChild, AskDeleteChild
<1>4. CASE DeleteStep(h) /\ ~DeleteAccount(h)
  BY <1>4 DEF DeleteStep, AskDeleteAccount, Abort
<1> QED
  BY <1>1, <1>2, <1>3, <1>4

LEMMA LinksNext ==
    ASSUME MemberInv, LinksOK, [MemberNext]_memberVars
    PROVE  LinksOK'
<1>0. Null \notin Profiles /\ "deleted" \notin Users
  BY MembershipAssumption
<1>1. CASE UNCHANGED <<users, profiles>>
  BY <1>1 DEF LinksOK
<1>2. ASSUME NEW h \in Handlers, CreateFamily(h) \/ CreateParentB(h)
      PROVE  LinksOK'
  <2>1. PICK u \in Users, row \in Member :
          FamilyFounded(h, u, row) \/ \E w \in Users : ParentBJoined(h, u, row, w)
    BY <1>2, CreateFamilyEffect, CreateParentBEffect
  <2>2. /\ row.profile = Null /\ profiles' = profiles
        /\ \A v \in Users : users'[v] = IF v = u THEN row ELSE users[v]
    BY <2>1 DEF FamilyFounded, ParentBJoined, NewMember
  <2> QED
    BY <2>2 DEF LinksOK
<1>3. ASSUME NEW h \in Handlers, CreateChildAccount(h)
      PROVE  LinksOK'
  <2>1. PICK r \in Request, u \in Users, row \in Member : ChildJoined(h, r, u, row)
    BY <1>3, CreateChildAccountEffect
  <2>2. /\ row.profile = r.profile /\ r.profile \in Profiles /\ profiles[r.profile] \in Users
        /\ \A v \in Users : users[v].profile # r.profile
        /\ \A v \in Users : users'[v] = IF v = u THEN row ELSE users[v]
        /\ profiles' = profiles
    BY <2>1 DEF ChildJoined, NewMember, ProfileFree, Linked
  <2> QED
    BY <2>2 DEF LinksOK
<1>4. ASSUME NEW h \in Handlers, Move(h) \/ DeleteAccount(h)
      PROVE  LinksOK'
  <2>1. (\A v \in Users : users'[v].profile = users[v].profile) /\ profiles' = profiles
    BY <1>4, MoveEffect, DeleteAccountEffect DEF Moved, AccountDeleted
  <2> QED
    BY <2>1 DEF LinksOK
<1>5. ASSUME NEW h \in Handlers, DeleteChild(h)
      PROVE  LinksOK'
  <2>1. PICK r \in Request : ChildDeleted(h, r)
    BY <1>5, DeleteChildEffect
  <2>2.   /\ r.profile \in Profiles
          /\ \A v \in Users :
               users'[v].profile = IF v = r.user \/ users[v].profile = r.profile
                                   THEN Null ELSE users[v].profile
          /\ \A p \in Profiles : profiles'[p] = IF p = r.profile THEN "deleted" ELSE profiles[p]
    BY <2>1 DEF ChildDeleted
  <2> QED
    BY <2>2 DEF LinksOK
<1>6. ASSUME NEW h \in Handlers, CreateChild(h)
      PROVE  LinksOK'
  <2>1. PICK r \in Request : r = req[h] /\ RequestOK(r) /\ r.step = "create child"
    BY <1>6 DEF CreateChild, At, MemberInv, MemberTypeOK, RequestsOK
  <2>2. PICK p \in Profiles : profiles' = [profiles EXCEPT ![p] = r.ws]
    BY <1>6, <2>1 DEF CreateChild
  <2>3. /\ r.ws \in Users /\ users' = users
        /\ \A q \in Profiles : profiles'[q] = IF q = p THEN r.ws ELSE profiles[q]
    BY <1>6, <2>1, <2>2 DEF RequestOK, CreateChild, MemberInv, MemberTypeOK
  <2> QED
    BY <2>3 DEF LinksOK
<1>7. ASSUME NEW x, ExpireCode(x) \/ LapseInvite(x)
      PROVE  LinksOK'
  BY <1>1, <1>7 DEF ExpireCode, LapseInvite
<1>8. ASSUME NEW h \in Handlers, FamilyStep(h) \/ InviteStep(h) \/ ChildStep(h) \/ DeleteStep(h)
      PROVE  LinksOK'
  BY <1>1, <1>2, <1>3, <1>4, <1>5, <1>6, <1>8, TablesUnread
<1> QED
  BY <1>1, <1>7, <1>8 DEF MemberNext, memberVars

LEMMA LinksInit == MemberInit => LinksOK
  BY DEF MemberInit, LinksOK, NoMember

-----------------------------------------------------------------------------
(* One request at a time. *)

(* The parent who founded w, and may delete its profiles. *)
Leads(w) == Live(w) /\ users[w].role = "parentA"

(* Children have a profile in their family; one who became a parent        *)
(* elsewhere left nobody behind who could delete the profile; and an       *)
(* invitation that may be accepted is from a parent who is still there.    *)
FamilyFacts ==
    /\ \A u \in Users : Live(u) /\ users[u].role = "child"
         => users[u].profile # Null /\ profiles[users[u].profile] = users[u].ws
    /\ \A u \in Users : users[u].profile # Null /\ users[u].role # "child"
         => ~Leads(profiles[users[u].profile])
    /\ \A i \in Invites : Open(i) => Live(invites[i].inviter) /\ IsParent(invites[i].inviter)

(* What a request has read is still so: nobody else writes. *)
RequestFacts(r) ==
    /\ r.step = "create child account" => profiles[r.profile] = r.ws
    /\ r.step = "delete child"
         => /\ profiles[r.profile] \in Users /\ Leads(profiles[r.profile])
            /\ IF r.user = Null THEN Linked(r.profile) = {} ELSE r.user \in Linked(r.profile)
    /\ r.step \in {"refresh code", "refresh for invite"} => codes[r.ws].expired
    /\ r.step \in {"refresh for invite", "create invite"} => Live(r.user) /\ IsParent(r.user)
    /\ r.step \in {"find inviter", "count"}
         => Live(r.user) /\ users[r.user].ws = r.ws /\ Open(r.invite)
    /\ r.step = "count"
         => /\ users[invites[r.invite].inviter].ws = r.target
            /\ "own" \in r.counted => Members(r.ws) = {r.user}
            /\ "target" \in r.counted => Cardinality(Members(r.target)) <= 1

FactSteps == {"create child account", "delete child", "refresh code", "refresh for invite",
              "create invite", "find inviter", "count"}

SerialFacts == FamilyFacts /\ \A h \in Handlers : RequestFacts(req[h])

(* The state that one request finds: the others are idle. *)
Alone == MemberInv /\ LinksOK /\ Serial /\ SerialFacts

LEMMA NoFacts ==
    ASSUME NEW r, r.step \notin FactSteps
    PROVE  RequestFacts(r) /\ RequestFacts(r)'
  BY DEF RequestFacts, FactSteps

LEMMA OthersIdle ==
    ASSUME Alone, NEW h \in Crowd, NEW g \in Handlers, g # h
    PROVE  req[g].step = "idle"
<1>1. IsFiniteSet(Crowd) /\ Cardinality(Crowd) = 1
  BY SetsAreFinite DEF Alone, Serial, Overlap
<1>2. PICK x : Crowd = {x}
  BY <1>1, FS_Singleton
<1> QED
  BY <1>2 DEF Alone, MemberInv, RequestsOK

(* A step that leaves the tables in order and its own request true. *)
LEMMA FactsKept ==
    ASSUME Alone, NEW h \in Handlers, h \in Crowd, NEW r, req' = [req EXCEPT ![h] = r],
           FamilyFacts', RequestFacts(r)'
    PROVE  SerialFacts'
<1>1. \A g \in Handlers : req'[g] = IF g = h THEN r ELSE req[g]
  BY DEF Alone, MemberInv, MemberTypeOK
<1>2. ASSUME NEW g \in Handlers
      PROVE  RequestFacts(req[g])'
  <2>1. CASE g = h
    <3>1. req'[g] = r
      BY <1>1, <2>1
    <3> QED
      BY <3>1 DEF RequestFacts
  <2>2. CASE g # h
    <3>1. PICK q : q = req[g] /\ q = req'[g]
      BY <1>1, <2>2
    <3>2. q.step \notin FactSteps
      BY <2>2, <3>1, OthersIdle DEF FactSteps
    <3>3. RequestFacts(q)'
      BY <3>2, NoFacts
    <3> QED
      BY <3>1, <3>3 DEF RequestFacts
  <2> QED
    BY <2>1, <2>2
<1> QED
  BY <1>2 DEF SerialFacts

LEMMA FactsFinished ==
    ASSUME Alone, NEW h \in Handlers, h \in Crowd, FamilyFacts',
           Finish(h) \/ \E w : ThenGraph(h, w)
    PROVE  SerialFacts'
<1>1. PICK r : req' = [req EXCEPT ![h] = r] /\ r.step \notin FactSteps
  <2>1. Idle.step = "idle"
    BY DEF Idle
  <2>2. CASE Finish(h)
    BY <2>1, <2>2 DEF Finish, FactSteps
  <2>3. CASE \E w : ThenGraph(h, w)
    <3>1. PICK w : ThenGraph(h, w)
      BY <2>3
    <3>2. PICK q : q = [Idle EXCEPT !.step = "read graph", !.ws = w]
      OBVIOUS
    <3>3. q.step = "read graph"
      BY <3>2 DEF Idle
    <3> QED
      BY <3>1, <3>2, <3>3 DEF ThenGraph, FactSteps
  <2> QED
    BY <2>2, <2>3
<1> QED
  BY <1>1, NoFacts, FactsKept

LEMMA FactsOfReads ==
    ASSUME Alone, NEW h \in Handlers, h \in Crowd, NEW r, req' = [req EXCEPT ![h] = r],
           UNCHANGED <<users, codes, profiles, invites>>, RequestFacts(r)
    PROVE  SerialFacts'
<1>1. FamilyFacts'
  BY DEF Alone, SerialFacts, FamilyFacts, Leads, Live, Exists, IsParent, Open
<1>2. RequestFacts(r)'
  BY DEF RequestFacts, Leads, Live, Exists, IsParent, Open, Linked, Members
<1> QED
  BY <1>1, <1>2, FactsKept

LEMMA InCrowd ==
    ASSUME MemberInv, NEW h \in Handlers,
           req[h].step # "idle" \/ \E kind, r : Start(h, kind, r)
    PROVE  h \in Crowd
  BY DEF MemberInv, RequestsOK, Start

LEMMA SerialStarts ==
    ASSUME Alone, NEW h \in Handlers,
           \/ \E e \in Emails : RegisterUser(h, e)
           \/ \E u \in Users : AskGraph(h, u)
           \/ \E e \in Emails, w \in Users : JoinWorkspace(h, e, w)
           \/ \E u \in Users : AskCreateChild(h, u)
           \/ \E u \in Users : AskDeleteAccount(h, u)
    PROVE  SerialFacts'
<1>1. PICK r : /\ \E kind : Start(h, kind, r)
               /\ r.step \notin FactSteps
               /\ UNCHANGED <<users, codes, profiles, invites>>
  <2>1. CASE \E e \in Emails : RegisterUser(h, e)
    <3>1. PICK e \in Emails : RegisterUser(h, e)
      BY <2>1
    <3>2. PICK r : r = [Idle EXCEPT !.step = "create family", !.email = e]
      OBVIOUS
    <3>3. r.step = "create family"
      BY <3>2 DEF Idle
    <3> QED
      BY <3>1, <3>2, <3>3 DEF RegisterUser, FactSteps
  <2>2. CASE \E u \in Users : AskGraph(h, u)
    <3>1. PICK u \in Users : AskGraph(h, u)
      BY <2>2
    <3>2. PICK r : r = [Idle EXCEPT !.step = "read graph", !.ws = users[u].ws]
      OBVIOUS
    <3>3. r.step = "read graph"
      BY <3>2 DEF Idle
    <3> QED
      BY <3>1, <3>2, <3>3 DEF AskGraph, FactSteps
  <2>3. CASE \E e \in Emails, w \in Users : JoinWorkspace(h, e, w)
    <3>1. PICK e \in Emails, w \in Users : JoinWorkspace(h, e, w)
      BY <2>3
    <3>2. PICK r : r = [Idle EXCEPT !.step = "check parentB", !.email = e, !.ws = w]
      OBVIOUS
    <3>3. r.step = "check parentB"
      BY <3>2 DEF Idle
    <3> QED
      BY <3>1, <3>2, <3>3 DEF JoinWorkspace, FactSteps
  <2>4. CASE \E u \in Users : AskCreateChild(h, u)
    <3>1. PICK u \in Users : AskCreateChild(h, u)
      BY <2>4
    <3>2. PICK r : r = [Idle EXCEPT !.step = "create child", !.ws = users[u].ws]
      OBVIOUS
    <3>3. r.step = "create child"
      BY <3>2 DEF Idle
    <3> QED
      BY <3>1, <3>2, <3>3 DEF AskCreateChild, FactSteps
  <2>5. CASE \E u \in Users : AskDeleteAccount(h, u)
    <3>1. PICK u \in Users : AskDeleteAccount(h, u)
      BY <2>5
    <3>2. PICK r : r = [Idle EXCEPT !.step = "delete account", !.user = u]
      OBVIOUS
    <3>3. r.step = "delete account"
      BY <3>2 DEF Idle
    <3> QED
      BY <3>1, <3>2, <3>3 DEF AskDeleteAccount, FactSteps
  <2> QED
    BY <2>1, <2>2, <2>3, <2>4, <2>5
<1>2. h \in Crowd /\ req' = [req EXCEPT ![h] = r]
  BY <1>1 DEF Start
<1> QED
  BY <1>1, <1>2, NoFacts, FactsOfReads

LEMMA SerialClaims ==
    ASSUME Alone, NEW h \in Handlers, NEW e \in Emails \cup {Null}, NEW p \in Profiles,
           ClaimProfile(h, e, p)
    PROVE  SerialFacts'
<1>1. PICK r : r = [Idle EXCEPT !.step = "create child account", !.email = e,
                                !.profile = p, !.ws = profiles[p]]
  OBVIOUS
<1>2. r.step = "create child account" /\ r.profile = p /\ r.ws = profiles[p]
  BY <1>1 DEF Idle
<1>3. RequestFacts(r)
  BY <1>2 DEF RequestFacts
<1>4. h \in Crowd /\ req' = [req EXCEPT ![h] = r] /\ UNCHANGED <<users, codes, profiles, invites>>
  BY <1>1, Zenon DEF ClaimProfile, Start
<1> QED
  BY <1>3, <1>4, FactsOfReads

LEMMA SerialAskDeleteChild ==
    ASSUME Alone, NEW h \in Handlers, NEW u \in Users, NEW p \in Profiles,
           AskDeleteChild(h, u, p)
    PROVE  SerialFacts'
<1>1. PICK linked \in Users \cup {Null} :
        /\ IF Linked(p) = {} THEN linked = Null ELSE linked \in Linked(p)
        /\ Start(h, "delete child", [Idle EXCEPT !.step = "delete child",
                                       !.profile = p, !.user = linked])
  BY DEF AskDeleteChild
<1>2. PICK r : r = [Idle EXCEPT !.step = "delete child", !.profile = p, !.user = linked]
  OBVIOUS
<1>3. r.step = "delete child" /\ r.profile = p /\ r.user = linked
  BY <1>2 DEF Idle
<1>4. /\ IF linked = Null THEN Linked(p) = {} ELSE linked \in Linked(p)
  <2>1. Linked(p) \subseteq Users /\ Null \notin Users
    BY MembershipAssumption DEF Linked
  <2> QED
    BY <1>1, <2>1
<1>5. profiles[p] = u /\ Leads(u)
  BY DEF AskDeleteChild, Leads, Alone, MemberInv, TablesOK
<1>6. RequestFacts(r)
  BY <1>3, <1>4, <1>5 DEF RequestFacts
<1>7. h \in Crowd /\ req' = [req EXCEPT ![h] = r] /\ UNCHANGED <<users, codes, profiles, invites>>
  BY <1>1, <1>2 DEF AskDeleteChild, Start
<1> QED
  BY <1>6, <1>7, FactsOfReads

LEMMA SerialSendInvite ==
    ASSUME Alone, NEW h \in Handlers, NEW u \in Users, NEW e \in Emails, SendInvite(h, u, e)
    PROVE  SerialFacts'
<1>1. PICK r : r = [Idle EXCEPT !.step = InvitingStep(users[u].ws), !.user = u,
                                !.ws = users[u].ws, !.email = e]
  OBVIOUS
<1>2. r.step = InvitingStep(users[u].ws) /\ r.user = u /\ r.ws = users[u].ws
  BY <1>1 DEF Idle
<1>3. /\ r.step \in {"refresh for invite", "create invite"}
      /\ r.step = "refresh for invite" => codes[r.ws].expired
  BY <1>2 DEF InvitingStep
<1>4. Live(u) /\ IsParent(u)
  BY DEF SendInvite
<1>5. RequestFacts(r)
  BY <1>2, <1>3, <1>4 DEF RequestFacts
<1>6. h \in Crowd /\ req' = [req EXCEPT ![h] = r] /\ UNCHANGED <<users, codes, profiles, invites>>
  BY <1>1 DEF SendInvite, Start
<1> QED
  BY <1>5, <1>6, FactsOfReads

LEMMA SerialAcceptInvite ==
    ASSUME Alone, NEW h \in Handlers, NEW u \in Users, NEW i \in Invites, AcceptInvite(h, u, i)
    PROVE  SerialFacts'
<1>1. PICK r : r = [Idle EXCEPT !.step = AcceptingStep(i), !.user = u,
                                !.ws = users[u].ws, !.invite = i]
  OBVIOUS
<1>2. r.step = AcceptingStep(i) /\ r.user = u /\ r.ws = users[u].ws /\ r.invite = i
  BY <1>1 DEF Idle
<1>3. r.step \in {"expire invite", "find inviter"}
  BY <1>2 DEF AcceptingStep
<1>4. Live(u) /\ Open(i)
  BY DEF AcceptInvite, Open
<1>5. RequestFacts(r)
  BY <1>2, <1>3, <1>4 DEF RequestFacts
<1>6. h \in Crowd /\ req' = [req EXCEPT ![h] = r] /\ UNCHANGED <<users, codes, profiles, invites>>
  BY <1>1 DEF AcceptInvite, Start
<1> QED
  BY <1>5, <1>6, FactsOfReads

LEMMA SerialReads ==
    ASSUME Alone, NEW h \in Handlers, ReadGraph(h) \/ CheckParentB(h) \/ Abort(h)
    PROVE  SerialFacts'
<1>0. PICK r \in Request : r = req[h] /\ r.step # "idle" /\ h \in Crowd
  BY DEF Alone, MemberInv, MemberTypeOK, RequestsOK, ReadGraph, CheckParentB, Abort, At
<1>1. UNCHANGED <<users, codes, profiles, invites>>
  BY DEF ReadGraph, CheckParentB, Abort
<1>2. CASE Finish(h)
  <2>1. RequestFacts(Idle)
    BY NoFacts DEF Idle, FactSteps
  <2> QED
    BY <1>0, <1>1, <1>2, <2>1, FactsOfReads DEF Finish
<1>3. CASE ReadGraph(h) /\ codes[r.ws].expired /\ Goto(h, "refresh code")
  <2>1. PICK q : q = [r EXCEPT !.step = "refresh code"]
    OBVIOUS
  <2>2. q.step = "refresh code" /\ q.ws = r.ws
    BY <2>1 DEF Request
  <2>3. RequestFacts(q)
    BY <1>3, <2>2 DEF RequestFacts
  <2>4. req' = [req EXCEPT ![h] = q]
    BY <1>0, <1>3, <2>1 DEF Goto, Alone, MemberInv, MemberTypeOK
  <2> QED
    BY <1>0, <1>1, <2>3, <2>4, FactsOfReads
<1>4. CASE CheckParentB(h) /\ Goto(h, "create parentB")
  <2>1. PICK q : q = [r EXCEPT !.step = "create parentB"]
    OBVIOUS
  <2>2. q.step = "create parentB"
    BY <2>1 DEF Request
  <2>3. RequestFacts(q)
    BY <2>2, NoFacts DEF FactSteps
  <2>4. req' = [req EXCEPT ![h] = q]
    BY <1>0, <1>4, <2>1 DEF Goto, Alone, MemberInv, MemberTypeOK
  <2> QED
    BY <1>0, <1>1, <2>3, <2>4, FactsOfReads
<1> QED
  BY <1>0, <1>2, <1>3, <1>4 DEF ReadGraph, CheckParentB, Abort

LEMMA SerialCounts ==
    ASSUME Alone, NEW h \in Handlers, FindInviter(h) \/ CountOwn(h) \/ CountTarget(h)
    PROVE  SerialFacts'
<1>0. PICK r \in Request :
        /\ r = req[h] /\ r.step \in {"find inviter", "count"} /\ h \in Crowd
        /\ RequestOK(r) /\ RequestFacts(r)
  BY DEF Alone, SerialFacts, MemberInv, MemberTypeOK, RequestsOK, FindInviter, CountOwn, CountTarget, At
<1>1. UNCHANGED <<users, codes, profiles, invites>>
  BY DEF FindInviter, CountOwn, CountTarget
<1>2. CASE Finish(h)
  <2>1. RequestFacts(Idle)
    BY NoFacts DEF Idle, FactSteps
  <2> QED
    BY <1>0, <1>1, <1>2, <2>1, FactsOfReads DEF Finish
<1>3. CASE FindInviter(h)
  <2>1. PICK q : q = [r EXCEPT !.step = "count", !.target = users[invites[r.invite].inviter].ws]
    OBVIOUS
  <2>2. /\ q.step = "count" /\ q.target = users[invites[r.invite].inviter].ws
        /\ q.user = r.user /\ q.ws = r.ws /\ q.invite = r.invite /\ q.counted = r.counted
    BY <2>1 DEF Request
  <2>3. r.step = "find inviter" /\ r.counted = {}
    BY <1>0, <1>3 DEF FindInviter, At, RequestOK
  <2>4. RequestFacts(q)
    BY <1>0, <2>2, <2>3 DEF RequestFacts
  <2>5. req' = [req EXCEPT ![h] = q]
    BY <1>0, <1>3, <2>1 DEF FindInviter, Alone, MemberInv, MemberTypeOK
  <2> QED
    BY <1>0, <1>1, <2>4, <2>5, FactsOfReads
<1>4. CASE CountOwn(h) /\ ~(Cardinality(Members(r.ws)) > 1) /\ CountedAs(h, "own")
  <2>1. PICK q : q = [r EXCEPT !.counted = @ \cup {"own"}]
    OBVIOUS
  <2>2. /\ q.step = r.step /\ q.target = r.target /\ q.user = r.user /\ q.ws = r.ws
        /\ q.invite = r.invite /\ q.counted = r.counted \cup {"own"}
    BY <2>1 DEF Request
  <2>3. r.step = "count" /\ r.user \in Users
    BY <1>0, <1>4 DEF CountOwn, At, RequestOK
  <2>4. r.user \in Members(r.ws)
    BY <1>0, <2>3 DEF RequestFacts, Members
  <2>5. Members(r.ws) = {r.user}
    <3>1. IsFiniteSet(Members(r.ws)) /\ Cardinality(Members(r.ws)) \in Nat
      BY SetsAreFinite, FS_CardinalityType DEF Alone
    <3>2. Cardinality(Members(r.ws)) # 0
      BY <2>4, <3>1, FS_EmptySet
    <3>3. Cardinality(Members(r.ws)) = 1
      BY <1>4, <3>1, <3>2
    <3>4. PICK x : Members(r.ws) = {x}
      BY <3>1, <3>3, FS_Singleton
    <3> QED
      BY <2>4, <3>4
  <2>6. RequestFacts(q)
    BY <1>0, <2>2, <2>3, <2>5 DEF RequestFacts
  <2>7. req' = [req EXCEPT ![h] = q]
    BY <1>0, <1>4, <2>1 DEF CountedAs, Alone, MemberInv, MemberTypeOK
  <2> QED
    BY <1>0, <1>1, <2>6, <2>7, FactsOfReads
<1>5. CASE CountTarget(h) /\ ~(Cardinality(Members(r.target)) >= 2) /\ CountedAs(h, "target")
  <2>1. PICK q : q = [r EXCEPT !.counted = @ \cup {"target"}]
    OBVIOUS
  <2>2. /\ q.step = r.step /\ q.target = r.target /\ q.user = r.user /\ q.ws = r.ws
        /\ q.invite = r.invite /\ q.counted = r.counted \cup {"target"}
    BY <2>1 DEF Request
  <2>3. r.step = "count"
    BY <1>0, <1>5 DEF CountTarget, At
  <2>4. Cardinality(Members(r.target)) <= 1
    <3>1. Cardinality(Members(r.target)) \in Nat
      BY SetsAreFinite, FS_CardinalityType DEF Alone
    <3> QED
      BY <1>5, <3>1
  <2>5. RequestFacts(q)
    BY <1>0, <2>2, <2>3, <2>4 DEF RequestFacts
  <2>6. req' = [req EXCEPT ![h] = q]
    BY <1>0, <1>5, <2>1 DEF CountedAs, Alone, MemberInv, MemberTypeOK
  <2> QED
    BY <1>0, <1>1, <2>5, <2>6, FactsOfReads
<1> QED
  BY <1>0, <1>2, <1>3, <1>4, <1>5 DEF CountOwn, CountTarget

(* FamilyFacts when User and Child are left alone. *)
LEMMA InvitesShrink ==
    ASSUME Alone, UNCHANGED <<users, profiles>>,
           \A i \in Invites : Open(i)' => Open(i) /\ invites'[i].inviter = invites[i].inviter
    PROVE  FamilyFacts'
  BY DEF Alone, SerialFacts, FamilyFacts, Leads, Live, Exists, IsParent

LEMMA SerialCodes ==
    ASSUME Alone, NEW h \in Handlers, RefreshCode(h) \/ RefreshForInvite(h)
    PROVE  SerialFacts'
<1>0. PICK r \in Request : r = req[h] /\ r.step # "idle" /\ h \in Crowd /\ RequestFacts(r)
  BY DEF Alone, SerialFacts, MemberInv, MemberTypeOK, RequestsOK, RefreshCode, RefreshForInvite, At
<1>1. UNCHANGED <<users, profiles, invites>>
  BY DEF RefreshCode, RefreshForInvite
<1>2. FamilyFacts'
  BY <1>1, InvitesShrink DEF Open
<1>3. CASE RefreshCode(h)
  BY <1>0, <1>2, <1>3, FactsFinished DEF RefreshCode
<1>4. CASE RefreshForInvite(h)
  <2>1. PICK q : q = [r EXCEPT !.step = "create invite"]
    OBVIOUS
  <2>2. q.step = "create invite" /\ q.user = r.user /\ r.step = "refresh for invite"
    BY <1>0, <1>4, <2>1 DEF Request, RefreshForInvite, At
  <2>3. Live(r.user) /\ IsParent(r.user)
    BY <1>0, <2>2 DEF RequestFacts
  <2>4. RequestFacts(q)'
    BY <1>1, <2>2, <2>3 DEF RequestFacts, Live, Exists, IsParent
  <2>5. req' = [req EXCEPT ![h] = q]
    BY <1>0, <1>4, <2>1 DEF RefreshForInvite, Goto, Alone, MemberInv, MemberTypeOK
  <2> QED
    BY <1>0, <1>2, <2>4, <2>5, FactsKept
<1> QED
  BY <1>3, <1>4

LEMMA SerialInvites ==
    ASSUME Alone, NEW h \in Handlers, CreateInvite(h) \/ ExpireInvite(h)
    PROVE  SerialFacts'
<1>0. PICK r \in Request : /\ r = req[h] /\ r.step # "idle" /\ h \in Crowd
                           /\ RequestOK(r) /\ RequestFacts(r)
  BY DEF Alone, SerialFacts, MemberInv, MemberTypeOK, RequestsOK, CreateInvite, ExpireInvite, At
<1>1. UNCHANGED <<users, profiles>> /\ Finish(h)
  BY DEF CreateInvite, ExpireInvite
<1>2. CASE CreateInvite(h)
  <2>1. PICK i \in Invites :
          invites' = [invites EXCEPT ![i] = [inviter |-> r.user, to |-> r.email, status |-> "PENDING"]]
    BY <1>0, <1>2 DEF CreateInvite
  <2>2. PICK row : row = [inviter |-> r.user, to |-> r.email, status |-> "PENDING"]
    OBVIOUS
  <2>3. row.inviter = r.user /\ Live(r.user) /\ IsParent(r.user)
    BY <1>0, <1>2, <2>2 DEF RequestFacts, CreateInvite, At
  <2>4. \A j \in Invites : invites'[j] = IF j = i THEN row ELSE invites[j]
    BY <2>1, <2>2 DEF Alone, MemberInv, MemberTypeOK
  <2>5. \A j \in Invites : Open(j)' =>
          Live(invites'[j].inviter) /\ IsParent(invites'[j].inviter)
    BY <2>3, <2>4 DEF Open, Alone, SerialFacts, FamilyFacts
  <2>6. FamilyFacts'
    BY <1>1, <2>5 DEF Alone, SerialFacts, FamilyFacts, Leads, Live, Exists, IsParent
  <2> QED
    BY <1>0, <1>1, <2>6, FactsFinished
<1>3. CASE ExpireInvite(h)
  <2>1. r.invite \in Invites /\ invites[r.invite] \in Invite
    BY <1>0, <1>3, InviteIsThere DEF RequestOK, ExpireInvite, At, Alone, MemberInv
  <2>2. PICK row : row = [invites[r.invite] EXCEPT !.status = "EXPIRED"]
    OBVIOUS
  <2>3. row.status = "EXPIRED"
    BY <2>1, <2>2 DEF Invite
  <2>4. \A j \in Invites : invites'[j] = IF j = r.invite THEN row ELSE invites[j]
    BY <1>0, <1>3, <2>2 DEF ExpireInvite, Alone, MemberInv, MemberTypeOK
  <2>5. \A j \in Invites : Open(j)' => Open(j) /\ invites'[j].inviter = invites[j].inviter
    BY <2>3, <2>4 DEF Open
  <2> QED
    BY <1>0, <1>1, <2>5, InvitesShrink, FactsFinished
<1> QED
  BY <1>2, <1>3

LEMMA SerialNewRows ==
    ASSUME Alone, NEW h \in Handlers,
           CreateFamily(h) \/ CreateParentB(h) \/ CreateChildAccount(h)
    PROVE  SerialFacts'
<1>0. h \in Crowd /\ MemberInv
  BY DEF Alone, MemberInv, RequestsOK, CreateFamily, CreateParentB, CreateChildAccount, At
<1>1. PICK u \in Users, row \in Member :
        /\ ~Exists(u) /\ \A v \in Users : users'[v] = IF v = u THEN row ELSE users[v]
        /\ UNCHANGED <<profiles, invites>> /\ \E w : ThenGraph(h, w)
        /\ row.role # "child" => row.profile = Null
        /\ row.role = "child" => row.profile # Null /\ profiles[row.profile] = row.ws
        /\ row.role = "parentA" => ~WorkspaceExists(u)
  <2>1. CASE CreateFamily(h)
    <3>1. PICK u \in Users, row \in Member : FamilyFounded(h, u, row)
      BY <1>0, <2>1, CreateFamilyEffect
    <3>2. row.role = "parentA" /\ row.profile = Null
      BY <3>1 DEF FamilyFounded, NewMember
    <3>3. ~WorkspaceExists(u)
      BY <3>1 DEF FamilyFounded, Alone, MemberInv, TablesOK
    <3> QED
      BY <3>1, <3>2, <3>3 DEF FamilyFounded
  <2>2. CASE CreateParentB(h)
    <3>1. PICK u \in Users, row \in Member, w \in Users : ParentBJoined(h, u, row, w)
      BY <1>0, <2>2, CreateParentBEffect
    <3>2. row.role = "parentB" /\ row.profile = Null
      BY <3>1 DEF ParentBJoined, NewMember
    <3> QED
      BY <3>1, <3>2 DEF ParentBJoined
  <2>3. CASE CreateChildAccount(h)
    <3>1. PICK r \in Request, u \in Users, row \in Member : ChildJoined(h, r, u, row)
      BY <1>0, <2>3, CreateChildAccountEffect
    <3>2. row.role = "child" /\ row.profile = r.profile /\ row.ws = r.ws
      BY <3>1 DEF ChildJoined, NewMember
    <3>3. r.profile # Null
      BY <3>1, MembershipAssumption DEF ChildJoined
    <3>4. profiles[r.profile] = r.ws
      BY <3>1 DEF ChildJoined, Alone, SerialFacts, RequestFacts
    <3> QED
      BY <3>1, <3>2, <3>3, <3>4 DEF ChildJoined
  <2> QED
    BY <2>1, <2>2, <2>3
<1>2. ASSUME NEW v \in Users, v # u
      PROVE  /\ Live(v)' <=> Live(v)
             /\ Exists(v)' <=> Exists(v)
             /\ IsParent(v)' <=> IsParent(v)
             /\ Leads(v)' <=> Leads(v)
  BY <1>1, <1>2 DEF Live, Exists, IsParent, Leads
<1>3. \A v \in Users : Live(v)' /\ users'[v].role = "child"
         => users'[v].profile # Null /\ profiles'[users'[v].profile] = users'[v].ws
  BY <1>1, <1>2 DEF Alone, SerialFacts, FamilyFacts
<1>4. ASSUME NEW v \in Users, users'[v].profile # Null, users'[v].role # "child"
      PROVE  ~Leads(profiles[users[v].profile])'
  <2>1. v # u /\ users'[v] = users[v]
    BY <1>1, <1>4
  <2>2. PICK w \in Users : w = profiles[users[v].profile] /\ WorkspaceExists(w) /\ ~Leads(w)
    BY <1>4, <2>1 DEF Alone, LinksOK, SerialFacts, FamilyFacts, MemberInv, TablesOK
  <2>3. ~Leads(w)'
    <3>1. CASE w = u
      BY <1>1, <2>2, <3>1 DEF Leads
    <3>2. CASE w # u
      BY <1>2, <2>2, <3>2
    <3> QED
      BY <3>1, <3>2
  <2> QED
    BY <1>1, <2>1, <2>2, <2>3 DEF Leads, Live, Exists
<1>5. ASSUME NEW i \in Invites, Open(i)'
      PROVE  Live(invites[i].inviter)' /\ IsParent(invites[i].inviter)'
  <2>1. Open(i) /\ invites[i] \in Invite
    BY <1>1, <1>5, InviteIsThere DEF Open, Alone, MemberInv
  <2>2. PICK w \in Users : w = invites[i].inviter /\ Live(w) /\ IsParent(w)
    BY <2>1 DEF Invite, Alone, SerialFacts, FamilyFacts
  <2>3. w # u
    BY <1>1, <2>2 DEF Live
  <2>4. Live(w)' /\ IsParent(w)'
    BY <1>2, <2>2, <2>3
  <2> QED
    BY <1>1, <2>2, <2>4 DEF Live, Exists, IsParent
<1>6. FamilyFacts'
  BY <1>3, <1>4, <1>5 DEF FamilyFacts, Leads, Live, Exists, IsParent
<1> QED
  BY <1>0, <1>1, <1>6, FactsFinished

LEMMA SerialMove ==
    ASSUME Alone, NEW h \in Handlers, Move(h)
    PROVE  SerialFacts'
<1>1. PICK r \in Request : Moved(h, r) /\ RequestFacts(r) /\ h \in Crowd
  <2>1. PICK r \in Request : Moved(h, r)
    BY MoveEffect DEF Alone
  <2>2. r = req[h] /\ r.step # "idle"
    BY <2>1 DEF Moved
  <2> QED
    BY <2>1, <2>2 DEF Alone, SerialFacts, MemberInv, RequestsOK
<1>2. /\ Live(r.user) /\ users[r.user].ws = r.ws
      /\ Members(r.ws) = {r.user}
  BY <1>1 DEF Moved, RequestFacts
<1>3. ASSUME NEW v \in Users
      PROVE  /\ Live(v)' <=> Live(v)
             /\ IsParent(v) => IsParent(v)'
             /\ Leads(v)' => Leads(v) /\ v # r.user
             /\ v = r.user => users'[v].role = "parentB"
             /\ v # r.user => users'[v].role = users[v].role /\ users'[v].ws = users[v].ws
             /\ users'[v].profile = users[v].profile
  BY <1>1 DEF Moved, Live, IsParent, Leads
<1>4. UNCHANGED profiles /\ Finish(h)
  BY <1>1 DEF Moved
<1>5. \A v \in Users : Live(v)' /\ users'[v].role = "child"
         => users'[v].profile # Null /\ profiles'[users'[v].profile] = users'[v].ws
  BY <1>3, <1>4 DEF Alone, SerialFacts, FamilyFacts
<1>6. ASSUME NEW v \in Users, users'[v].profile # Null, users'[v].role # "child"
      PROVE  ~Leads(profiles[users[v].profile])'
  <2>1. PICK w \in Users : w = profiles[users[v].profile]
    BY <1>3, <1>6 DEF Alone, LinksOK
  <2>2. w = profiles'[users'[v].profile]
    BY <1>3, <1>4, <2>1
  <2>3. ~Leads(w)'
    <3>1. CASE users[v].role # "child"
      <4>1. ~Leads(w)
        BY <1>3, <1>6, <2>1, <3>1 DEF Alone, SerialFacts, FamilyFacts
      <4> QED
        BY <1>3, <4>1
    <3>2. CASE users[v].role = "child"
      <4>1. v = r.user
        BY <1>3, <1>6, <3>2
      <4>2. w = r.ws
        BY <1>2, <2>1, <3>2, <4>1 DEF Alone, SerialFacts, FamilyFacts
      <4>3. Leads(w) => w \in Members(w)
        BY DEF Leads, Members, Live, Alone, MemberInv, TablesOK
      <4> QED
        BY <1>2, <1>3, <4>2, <4>3
    <3> QED
      BY <3>1, <3>2
  <2> QED
    BY <2>2, <2>3 DEF Leads, Live, Exists
<1>7. ASSUME NEW i \in Invites, Open(i)'
      PROVE  Live(invites[i].inviter)' /\ IsParent(invites[i].inviter)'
  <2>1. Open(i) /\ invites'[i].inviter = invites[i].inviter
    BY <1>1, <1>7 DEF Moved
  <2>2. PICK w \in Users : w = invites[i].inviter /\ Live(w) /\ IsParent(w)
    BY <2>1, InviteIsThere DEF Open, Invite, Alone, MemberInv, SerialFacts, FamilyFacts
  <2>3. Live(w)' /\ IsParent(w)'
    BY <1>3, <2>2
  <2> QED
    BY <2>1, <2>2, <2>3 DEF Live, Exists, IsParent
<1>8. FamilyFacts'
  BY <1>5, <1>6, <1>7 DEF FamilyFacts, Leads, Live, Exists, IsParent
<1> QED
  BY <1>1, <1>4, <1>8, FactsFinished

LEMMA SerialCreateChild ==
    ASSUME Alone, NEW h \in Handlers, CreateChild(h)
    PROVE  SerialFacts'
<1>1. PICK r \in Request : r = req[h] /\ h \in Crowd
  BY DEF CreateChild, At, Alone, MemberInv, MemberTypeOK, RequestsOK
<1>2. PICK p \in Profiles : profiles[p] = "unused" /\ profiles' = [profiles EXCEPT ![p] = r.ws]
  BY <1>1 DEF CreateChild
<1>3. \A q \in Profiles : q # p => profiles'[q] = profiles[q]
  BY <1>2 DEF Alone, MemberInv, MemberTypeOK
<1>4. \A u \in Users : users[u].profile # Null
        => users[u].profile \in Profiles /\ users[u].profile # p
  BY <1>2, MembershipAssumption DEF Alone, LinksOK
<1>5. UNCHANGED <<users, invites>> /\ Finish(h)
  BY DEF CreateChild
<1>6. \A u \in Users : users[u].profile # Null
        => profiles'[users[u].profile] = profiles[users[u].profile]
  BY <1>3, <1>4
<1>7. \A v \in Users : Live(v) /\ users[v].role = "child"
         => users[v].profile # Null /\ profiles'[users[v].profile] = users[v].ws
  BY <1>6 DEF Alone, SerialFacts, FamilyFacts
<1>8. \A v \in Users : users[v].profile # Null /\ users[v].role # "child"
         => ~Leads(profiles'[users[v].profile])
  BY <1>6 DEF Alone, SerialFacts, FamilyFacts
<1>9. \A i \in Invites : Open(i) => Live(invites[i].inviter) /\ IsParent(invites[i].inviter)
  BY DEF Alone, SerialFacts, FamilyFacts
<1>10. FamilyFacts'
  BY <1>5, <1>7, <1>8, <1>9 DEF FamilyFacts, Leads, Live, Exists, IsParent, Open
<1> QED
  BY <1>1, <1>5, <1>10, FactsFinished

LEMMA SerialDeleteChild ==
    ASSUME Alone, NEW h \in Handlers, DeleteChild(h)
    PROVE  SerialFacts'
<1>0. Null \notin Users /\ Null \notin Profiles
  BY MembershipAssumption
<1>1. PICK r \in Request : ChildDeleted(h, r) /\ RequestFacts(r) /\ h \in Crowd
  <2>1. PICK r \in Request : ChildDeleted(h, r)
    BY DeleteChildEffect DEF Alone
  <2>2. r = req[h] /\ r.step # "idle"
    BY <2>1 DEF ChildDeleted
  <2> QED
    BY <2>1, <2>2 DEF Alone, SerialFacts, MemberInv, RequestsOK
<1>2. /\ r.profile \in Profiles /\ Leads(profiles[r.profile])
      /\ IF r.user = Null THEN Linked(r.profile) = {} ELSE r.user \in Linked(r.profile)
  BY <1>1 DEF ChildDeleted, RequestFacts
<1>3. ASSUME NEW v \in Users, users[v].profile = r.profile
      PROVE  v = r.user
  BY <1>0, <1>2, <1>3 DEF Linked, Alone, LinksOK
<1>4. ASSUME NEW v \in Users, v = r.user
      PROVE  ~IsParent(v)
  BY <1>0, <1>2, <1>4 DEF Linked, IsParent, Alone, SerialFacts, FamilyFacts
<1>5. ASSUME NEW v \in Users
      PROVE  /\ Live(v)' <=> Live(v) /\ v # r.user
             /\ users'[v].role = users[v].role /\ users'[v].ws = users[v].ws
             /\ Leads(v)' => Leads(v)
             /\ v # r.user => users'[v].profile = users[v].profile
             /\ v = r.user => users'[v].profile = Null
  BY <1>1, <1>3 DEF ChildDeleted, Leads
<1>6. ASSUME NEW v \in Users, users'[v].profile # Null
      PROVE  /\ v # r.user /\ users'[v].profile = users[v].profile
             /\ profiles[users[v].profile] \in Users
             /\ profiles'[users'[v].profile] = profiles[users[v].profile]
  <2>1. v # r.user /\ users'[v].profile = users[v].profile
    BY <1>5, <1>6
  <2>2. users[v].profile \in Profiles /\ profiles[users[v].profile] \in Users
    BY <1>6, <2>1 DEF Alone, LinksOK
  <2>3. users[v].profile # r.profile
    BY <1>3, <2>1
  <2>4. \A p \in Profiles : p # r.profile => profiles'[p] = profiles[p]
    BY <1>1 DEF ChildDeleted
  <2>5. profiles'[users[v].profile] = profiles[users[v].profile]
    BY <2>2, <2>3, <2>4
  <2> QED
    BY <2>1, <2>2, <2>5
<1>7. \A v \in Users : Live(v)' /\ users'[v].role = "child"
         => users'[v].profile # Null /\ profiles'[users'[v].profile] = users'[v].ws
  BY <1>5, <1>6 DEF Alone, SerialFacts, FamilyFacts
<1>8. ASSUME NEW v \in Users, users'[v].profile # Null, users'[v].role # "child"
      PROVE  ~Leads(profiles[users[v].profile])'
  <2>1. PICK w \in Users : w = profiles[users[v].profile] /\ w = profiles'[users'[v].profile]
    BY <1>6, <1>8
  <2>2. ~Leads(w)
    BY <1>5, <1>6, <1>8, <2>1 DEF Alone, SerialFacts, FamilyFacts
  <2>3. ~Leads(w)'
    BY <1>5, <2>2
  <2> QED
    BY <2>1, <2>3 DEF Leads, Live, Exists
<1>9. ASSUME NEW i \in Invites, Open(i)'
      PROVE  Live(invites[i].inviter)' /\ IsParent(invites[i].inviter)'
  <2>1. invites' = invites /\ Open(i)
    BY <1>1, <1>9 DEF ChildDeleted, Open
  <2>2. PICK w \in Users : w = invites[i].inviter /\ Live(w) /\ IsParent(w)
    BY <2>1, InviteIsThere DEF Open, Invite, Alone, MemberInv, SerialFacts, FamilyFacts
  <2>3. w # r.user
    BY <1>4, <2>2
  <2>4. Live(w)' /\ IsParent(w)'
    BY <1>5, <2>2, <2>3 DEF IsParent
  <2> QED
    BY <2>1, <2>2, <2>4 DEF Live, Exists, IsParent
<1>10. FamilyFacts'
  BY <1>7, <1>8, <1>9 DEF FamilyFacts, Leads, Live, Exists, IsParent
<1> QED
  BY <1>1, <1>10, FactsFinished DEF ChildDeleted

LEMMA SerialDeleteAccount ==
    ASSUME Alone, NEW h \in Handlers, DeleteAccount(h)
    PROVE  SerialFacts'
<1>1. PICK r \in Request : AccountDeleted(h, r) /\ h \in Crowd
  <2>1. PICK r \in Request : AccountDeleted(h, r)
    BY DeleteAccountEffect DEF Alone
  <2>2. r = req[h] /\ r.step # "idle"
    BY <2>1 DEF AccountDeleted
  <2> QED
    BY <2>1, <2>2 DEF Alone, MemberInv, RequestsOK
<1>2. ASSUME NEW v \in Users
      PROVE  /\ Live(v)' <=> Live(v) /\ v # r.user
             /\ users'[v].role = users[v].role /\ users'[v].ws = users[v].ws
             /\ Leads(v)' => Leads(v)
             /\ users'[v].profile = users[v].profile
  BY <1>1 DEF AccountDeleted, Leads
<1>3. profiles' = profiles
  BY <1>1 DEF AccountDeleted
<1>4. \A v \in Users : Live(v)' /\ users'[v].role = "child"
         => users'[v].profile # Null /\ profiles'[users'[v].profile] = users'[v].ws
  BY <1>2, <1>3 DEF Alone, SerialFacts, FamilyFacts
<1>5. ASSUME NEW v \in Users, users'[v].profile # Null, users'[v].role # "child"
      PROVE  ~Leads(profiles[users[v].profile])'
  <2>1. PICK w \in Users : w = profiles[users[v].profile] /\ w = profiles'[users'[v].profile]
    BY <1>2, <1>3, <1>5 DEF Alone, LinksOK
  <2>2. ~Leads(w)
    BY <1>2, <1>5, <2>1 DEF Alone, SerialFacts, FamilyFacts
  <2>3. ~Leads(w)'
    BY <1>2, <2>2
  <2> QED
    BY <2>1, <2>3 DEF Leads, Live, Exists
<1>6. ASSUME NEW i \in Invites, Open(i)'
      PROVE  Live(invites[i].inviter)' /\ IsParent(invites[i].inviter)'
  <2>1. /\ Open(i) /\ invites[i].inviter # r.user
        /\ invites'[i].inviter = invites[i].inviter
    BY <1>1, <1>6 DEF AccountDeleted
  <2>2. PICK w \in Users : w = invites[i].inviter /\ Live(w) /\ IsParent(w)
    BY <2>1, InviteIsThere DEF Open, Invite, Alone, MemberInv, SerialFacts, FamilyFacts
  <2>3. Live(w)' /\ IsParent(w)'
    BY <1>2, <2>1, <2>2 DEF IsParent
  <2> QED
    BY <2>1, <2>2, <2>3 DEF Live, Exists, IsParent
<1>7. FamilyFacts'
  BY <1>4, <1>5, <1>6 DEF FamilyFacts, Leads, Live, Exists, IsParent
<1> QED
  BY <1>1, <1>7, FactsFinished DEF AccountDeleted

(* Time only makes codes run out and invitations lapse. *)
LEMMA SerialClock ==
    ASSUME Alone, \/ \E w \in Users : ExpireCode(w)
                  \/ \E i \in Invites : LapseInvite(i)
    PROVE  SerialFacts'
<1>1. UNCHANGED <<users, profiles, req>>
  BY DEF ExpireCode, LapseInvite
<1>2. \A v \in Users : codes[v].expired => codes'[v].expired
  <2>1. CASE \E w \in Users : ExpireCode(w)
    <3>1. PICK w \in Users : codes' = [codes EXCEPT ![w].expired = TRUE]
      BY <2>1 DEF ExpireCode
    <3>2. codes \in [Users -> [made : Nat, expired : BOOLEAN]]
      BY DEF Alone, MemberInv, MemberTypeOK
    <3> QED
      BY <3>1, <3>2
  <2>2. CASE \E i \in Invites : LapseInvite(i)
    BY <2>2 DEF LapseInvite
  <2> QED
    BY <2>1, <2>2
<1>3. ASSUME NEW j \in Invites
      PROVE  /\ invites'[j].inviter = invites[j].inviter
             /\ Open(j)' <=> Open(j)
  <2>1. CASE \E w \in Users : ExpireCode(w)
    BY <2>1 DEF ExpireCode, Open
  <2>2. CASE \E i \in Invites : LapseInvite(i)
    <3>1. PICK i \in Invites : LapseInvite(i)
      BY <2>2
    <3>2. invites[i] \in Invite /\ invites[i].status = "PENDING"
      BY <3>1, InviteIsThere DEF LapseInvite, Alone, MemberInv
    <3>3. PICK row : row = [invites[i] EXCEPT !.status = "LAPSED"]
      OBVIOUS
    <3>4. row.inviter = invites[i].inviter /\ row.status = "LAPSED" /\ row.inviter \in Users
      BY <3>2, <3>3 DEF Invite
    <3>5. row # NoInvite
      BY <3>4, MembershipAssumption DEF NoInvite
    <3>6. invites'[j] = IF j = i THEN row ELSE invites[j]
      BY <3>1, <3>3 DEF LapseInvite, Alone, MemberInv, MemberTypeOK
    <3>7. invites[i] # NoInvite
      BY <3>1 DEF LapseInvite
    <3> QED
      BY <3>2, <3>4, <3>5, <3>6, <3>7 DEF Open
  <2> QED
    BY <2>1, <2>2
<1>4. FamilyFacts'
  BY <1>1, <1>3, InvitesShrink
<1>5. ASSUME NEW h \in Handlers
      PROVE  RequestFacts(req[h])'
  <2>1. PICK r \in Request : r = req[h] /\ r = req'[h] /\ RequestOK(r) /\ RequestFacts(r)
    BY <1>1 DEF Alone, SerialFacts, MemberInv, MemberTypeOK, RequestsOK
  <2>2. r.step \in {"refresh code", "refresh for invite"} => r.ws \in Users
    BY <2>1 DEF RequestOK
  <2>3. r.step \in {"find inviter", "count"} => r.invite \in Invites
    BY <2>1 DEF RequestOK
  <2>4. RequestFacts(r)'
    BY <1>1, <1>2, <1>3, <2>1, <2>2, <2>3
    DEF RequestFacts, Leads, Live, Exists, IsParent, Linked, Members
  <2> QED
    BY <2>1, <2>4 DEF RequestFacts
<1> QED
  BY <1>4, <1>5 DEF SerialFacts

LEMMA SerialNext ==
    ASSUME Alone, MemberNext
    PROVE  SerialFacts'
<1>1. ASSUME NEW h \in Handlers, FamilyStep(h)
      PROVE  SerialFacts'
  BY <1>1, SerialStarts, SerialReads, SerialNewRows, SerialCodes DEF FamilyStep
<1>2. ASSUME NEW h \in Handlers, InviteStep(h)
      PROVE  SerialFacts'
  BY <1>2, SerialSendInvite, SerialAcceptInvite, SerialCodes, SerialInvites, SerialCounts,
     SerialMove DEF InviteStep
<1>3. ASSUME NEW h \in Handlers, ChildStep(h)
      PROVE  SerialFacts'
  BY <1>3, SerialStarts, SerialClaims, SerialAskDeleteChild, SerialNewRows, SerialCreateChild,
     SerialDeleteChild DEF ChildStep
<1>4. ASSUME NEW h \in Handlers, DeleteStep(h)
      PROVE  SerialFacts'
  BY <1>4, SerialStarts, SerialReads, SerialDeleteAccount DEF DeleteStep
<1> QED
  BY <1>1, <1>2, <1>3, <1>4, SerialClock DEF MemberNext

FamilyInv == MemberInv /\ LinksOK /\ (Serial => SerialFacts)

LEMMA FamilyInit == MemberInit => FamilyInv
<1> SUFFICES ASSUME MemberInit PROVE SerialFacts
  BY MemberInitInv, LinksInit DEF FamilyInv
<1>1. \A u \in Users : ~Exists(u) /\ users[u].profile = Null
  BY DEF MemberInit, Exists, NoMember
<1>2. \A i \in Invites : ~Open(i)
  BY DEF MemberInit, Open
<1>3. FamilyFacts
  BY <1>1, <1>2 DEF FamilyFacts, Live
<1>4. Idle.step \notin FactSteps
  BY DEF Idle, FactSteps
<1>5. \A h \in Handlers : RequestFacts(req[h])
  BY <1>4, NoFacts DEF MemberInit
<1> QED
  BY <1>3, <1>5 DEF SerialFacts

LEMMA FamilyNext == FamilyInv /\ [MemberNext]_memberVars => FamilyInv'
<1> SUFFICES ASSUME FamilyInv, [MemberNext]_memberVars
             PROVE  MemberInv' /\ LinksOK' /\ (Serial' => SerialFacts')
  BY DEF FamilyInv
<1>1. MemberInv' /\ LinksOK'
  BY MemberNextInv, LinksNext DEF FamilyInv
<1>2. CASE MemberNext
  <2>1. Serial' => Serial
    BY <1>2, NextBounded DEF FamilyInv, Serial, Overlap, Crowd
  <2> QED
    BY <1>1, <1>2, <2>1, SerialNext DEF FamilyInv, Alone
<1>3. CASE UNCHANGED memberVars
  BY <1>1, <1>3 DEF FamilyInv, memberVars, Serial, Overlap, Crowd, SerialFacts, FamilyFacts,
     RequestFacts, Leads, Live, Exists, IsParent, Open, Linked, Members
<1> QED
  BY <1>2, <1>3

(* What holds of the tables when requests come one at a time. *)
THEOREM FamilyInvariance == MemberSpec => []FamilyInv
  BY FamilyInit, FamilyNext, PTL DEF MemberSpec

(* With one request at a time, a child that can sign in has its profile in *)
(* the family of its row, through joins, moves, deletions of profiles and  *)
(* of accounts: deleteChild takes the account with the profile.            *)
THEOREM ChildrenKeepTheirProfiles == MemberSpec => []ChildAccountsHaveProfiles
<1>1. FamilyInv => ChildAccountsHaveProfiles
  BY DEF FamilyInv, SerialFacts, FamilyFacts, ChildAccountsHaveProfiles
<1> QED
  BY <1>1, FamilyInvariance, PTL

(* Only an accepted invitation takes a row to another family. *)
LEMMA OnlyMovesMove ==
    ASSUME MemberInv, [MemberNext]_memberVars, NEW u \in Users, Exists(u),
           users'[u].ws # users[u].ws
    PROVE  \E h \in Handlers : Move(h)
<1> SUFFICES ASSUME \A h \in Handlers : ~Move(h)
             PROVE  users'[u].ws = users[u].ws
  OBVIOUS
<1>1. ASSUME NEW h \in Handlers,
             CreateFamily(h) \/ CreateParentB(h) \/ CreateChildAccount(h)
      PROVE  users'[u].ws = users[u].ws
  BY <1>1, CreateFamilyEffect, CreateParentBEffect, CreateChildAccountEffect
  DEF FamilyFounded, ParentBJoined, ChildJoined
<1>2. ASSUME NEW h \in Handlers, DeleteChild(h) \/ DeleteAccount(h)
      PROVE  users'[u].ws = users[u].ws
  BY <1>2, DeleteChildEffect, DeleteAccountEffect DEF ChildDeleted, AccountDeleted
<1>3. ASSUME NEW h \in Handlers, CreateChild(h)
      PROVE  users'[u].ws = users[u].ws
  BY <1>3 DEF CreateChild
<1>4. ASSUME NEW h \in Handlers, FamilyStep(h) \/ InviteStep(h) \/ ChildStep(h) \/ DeleteStep(h)
      PROVE  users'[u].ws = users[u].ws
  BY <1>1, <1>2, <1>3, <1>4, TablesUnread
<1>5. ASSUME NEW x, ExpireCode(x) \/ LapseInvite(x)
      PROVE  users'[u].ws = users[u].ws
  BY <1>5 DEF ExpireCode, LapseInvite
<1> QED
  BY <1>4, <1>5 DEF MemberNext, memberVars

(* With one request at a time, an accepted invitation takes nobody away    *)
(* from a family that others are in, and leads to one where exactly one    *)
(* person is: the counts of the two families still hold at the move, and   *)
(* the inviter is there, whatever happened since the invitation was sent.  *)
THEOREM MovesAreOfSingles == MemberSpec => MovesJoinTwoSingles
<1> DEFINE Joins(u) == /\ Members(users[u].ws) = {u}
                       /\ Cardinality(Members(users'[u].ws)) = 1
           Good == Serial => \A u \in Users :
                     Exists(u) /\ users'[u].ws # users[u].ws => Joins(u)
<1>1. FamilyInv /\ [MemberNext]_memberVars => Good
  <2> SUFFICES ASSUME FamilyInv, [MemberNext]_memberVars, Serial, NEW u \in Users, Exists(u),
                      users'[u].ws # users[u].ws
               PROVE  Joins(u)
    OBVIOUS
  <2>1. PICK h \in Handlers : Move(h)
    BY OnlyMovesMove DEF FamilyInv
  <2>2. PICK r \in Request : Moved(h, r)
    BY <2>1, MoveEffect DEF FamilyInv
  <2>3. /\ u = r.user /\ users'[u].ws = r.target /\ r.step = "count"
        /\ r.counted = {"own", "target"} /\ r.invite \in Invites /\ r = req[h]
    BY <2>2 DEF Moved
  <2>4. RequestFacts(r)
    BY <2>3 DEF FamilyInv, SerialFacts
  <2>5. Members(users[u].ws) = {u} /\ Cardinality(Members(r.target)) <= 1
    BY <2>3, <2>4 DEF RequestFacts
  <2>6. PICK w \in Users : w = invites[r.invite].inviter /\ Live(w)
    BY <2>3, <2>4, InviteIsThere
    DEF RequestFacts, Open, Invite, FamilyInv, MemberInv, SerialFacts, FamilyFacts
  <2>7. w \in Members(r.target)
    BY <2>3, <2>4, <2>6 DEF RequestFacts, Members
  <2>8. Cardinality(Members(r.target)) = 1
    <3>1. IsFiniteSet(Members(r.target)) /\ Cardinality(Members(r.target)) \in Nat
      BY SetsAreFinite, FS_CardinalityType DEF FamilyInv
    <3>2. Cardinality(Members(r.target)) # 0
      BY <2>7, <3>1, FS_EmptySet
    <3> QED
      BY <2>5, <3>1, <3>2
  <2> QED
    BY <2>3, <2>5, <2>8
<1> QED
  BY <1>1, FamilyInvariance, PTL DEF MemberSpec, MovesJoinTwoSingles

(* With one request at a time, no read or invitation renews a code that    *)
(* still holds: a code that was shown or mailed to somebody stays good     *)
(* until it runs out. *)
THEOREM CodesStayUntilTheyExpire == MemberSpec => FreshCodesStay
<1> DEFINE Good == Serial => \A w \in Users :
                     WorkspaceExists(w) /\ codes'[w].made # codes[w].made => codes[w].expired
<1>1. FamilyInv /\ [MemberNext]_memberVars => Good
  <2> SUFFICES ASSUME FamilyInv, [MemberNext]_memberVars, Serial, NEW w \in Users,
                      WorkspaceExists(w), codes'[w].made # codes[w].made
               PROVE  codes[w].expired
    OBVIOUS
  <2>1. ASSUME NEW h \in Handlers, RefreshCode(h) \/ RefreshForInvite(h)
        PROVE  codes[w].expired
    <3>1. PICK r \in Request : /\ r = req[h] /\ RequestFacts(r)
                               /\ r.step \in {"refresh code", "refresh for invite"}
      BY <2>1 DEF RefreshCode, RefreshForInvite, At, FamilyInv, SerialFacts, MemberInv, MemberTypeOK
    <3>2. codes' = [codes EXCEPT ![r.ws].made = @ + 1, ![r.ws].expired = FALSE]
      BY <2>1, <3>1 DEF RefreshCode, RefreshForInvite, NewCode
    <3>3. w # r.ws => codes'[w] = codes[w]
      BY <3>2 DEF FamilyInv, MemberInv, MemberTypeOK
    <3>4. w = r.ws
      BY <3>3
    <3> QED
      BY <3>1, <3>4 DEF RequestFacts
  <2>2. ASSUME NEW h \in Handlers, CreateFamily(h)
        PROVE  FALSE
    <3>1. PICK u \in Users, row \in Member : FamilyFounded(h, u, row)
      BY <2>2, CreateFamilyEffect DEF FamilyInv
    <3>2. u # w
      BY <3>1 DEF FamilyFounded, FamilyInv, MemberInv, TablesOK
    <3> QED
      BY <3>1, <3>2 DEF FamilyFounded
  <2>3. ASSUME NEW v \in Users, ExpireCode(v)
        PROVE  FALSE
    <3>1. codes' = [codes EXCEPT ![v].expired = TRUE]
      BY <2>3 DEF ExpireCode
    <3>2. codes \in [Users -> [made : Nat, expired : BOOLEAN]]
      BY DEF FamilyInv, MemberInv, MemberTypeOK
    <3> QED
      BY <3>1, <3>2
  <2>4. ASSUME NEW h \in Handlers, FamilyStep(h)
        PROVE  codes[w].expired
    BY <2>1, <2>2, <2>4 DEF FamilyStep, RegisterUser, AskGraph, ReadGraph, JoinWorkspace,
       CheckParentB, CreateParentB
  <2>5. ASSUME NEW h \in Handlers, InviteStep(h)
        PROVE  codes[w].expired
    BY <2>1, <2>5 DEF InviteStep, SendInvite, CreateInvite, AcceptInvite, ExpireInvite,
       FindInviter, CountOwn, CountTarget, Move
  <2>6. ASSUME NEW h \in Handlers, ChildStep(h)
        PROVE  FALSE
    <3>1. CASE \E e \in Emails \cup {Null}, p \in Profiles : ClaimProfile(h, e, p)
      BY <3>1, Zenon DEF ClaimProfile
    <3> QED
      BY <2>6, <3>1 DEF ChildStep, AskCreateChild, CreateChild, CreateChildAccount,
         AskDeleteChild, DeleteChild
  <2>7. ASSUME NEW h \in Handlers, DeleteStep(h)
        PROVE  FALSE
    BY <2>7 DEF DeleteStep, AskDeleteAccount, DeleteAccount, Abort
  <2>8. ASSUME NEW i \in Invites, LapseInvite(i)
        PROVE  FALSE
    BY <2>8 DEF LapseInvite
  <2> QED
    BY <2>3, <2>4, <2>5, <2>6, <2>7, <2>8 DEF MemberNext, memberVars
<1> QED
  BY <1>1, FamilyInvariance, PTL DEF MemberSpec, FreshCodesStay
=============================================================================
