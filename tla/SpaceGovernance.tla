-------------------------- MODULE SpaceGovernance --------------------------
(***************************************************************************)
(* Who is in a shared space and with which role: the membership documents, *)
(* the invites, and the calls of services/space_service.py that change     *)
(* them (join, leave, add, change a role, remove, transfer the ownership,  *)
(* make, accept and revoke an invite) over services/storage.py.  A call    *)
(* reads the caller's role, then perhaps the target's, and writes last:    *)
(* only the transfer and the acceptance of an invite are transactions, so  *)
(* calls of different members interleave between any two of their steps.   *)
(***************************************************************************)
EXTENDS Naturals, FiniteSets

CONSTANTS
    Users,     \* users of the site
    Creator,   \* the user who made the space (Space.created_by)
    Invites,   \* invite tokens
    Uses,      \* Uses[r]: max_uses of an invite for role r
    Offered,   \* the roles the calls hand out
    Backend,   \* "firestore" or "memory"
    None,      \* no role, no user
    MaxBusy,   \* bound on the calls under way at once
    MaxCalls   \* bound on the calls in all

Roles == {"owner", "admin", "coordinator", "member"}
Managers == {"owner", "admin", "coordinator"}

(* A privileged invite is for one use.                                     *)
ASSUME GovernanceAssumption ==
    /\ IsFiniteSet(Users) /\ Creator \in Users
    /\ None \notin Users \cup Roles \cup Invites
    /\ Offered \subseteq Roles
    /\ Uses \in [Roles -> Nat \ {0}]
    /\ \A r \in Managers : Uses[r] = 1
    /\ Backend \in {"firestore", "memory"}
    /\ MaxBusy \in Nat /\ MaxCalls \in Nat

VARIABLES
    member,    \* memberships/<space>_<uid>: the role of every user
    invite,    \* invites/<token>
    admitted,  \* admitted[i]: how often invite i let somebody in
    call,      \* call[u]: what user u is asking of the space
    calls      \* how many calls were made

svars == <<member, invite, admitted, call, calls>>

Rank == [owner |-> 4, admin |-> 3, coordinator |-> 2, member |-> 1]

Invite == [made: BOOLEAN, by: Users \cup {None}, role: Roles \cup {None}, used: Nat,
           revoked: BOOLEAN, expired: BOOLEAN]
NoInvite == [made |-> FALSE, by |-> None, role |-> None, used |-> 0,
             revoked |-> FALSE, expired |-> FALSE]

Ops == {"leave", "add", "role", "remove", "transfer", "invite", "revoke", "accept"}
Call == [op: Ops \cup {None}, pc: {"idle", "rejoin", "caller", "target", "write"},
         target: Users \cup {None}, role: Roles \cup {None}, token: Invites \cup {None},
         acting: Roles \cup {None}, used: Nat, fresh: BOOLEAN]
NoCall == [op |-> None, pc |-> "idle", target |-> None, role |-> None, token |-> None,
           acting |-> None, used |-> 0, fresh |-> TRUE]

Holders(r) == {u \in Users : member[u] = r}
Inside == {u \in Users : member[u] # None}

(* Every call of another user that is under way has been overtaken.        *)
Overtake(u) == [v \in Users |-> IF v = u THEN NoCall ELSE [call[v] EXCEPT !.fresh = FALSE]]

(* Operators marked "mutant" stand for a bug in the definition after them  *)
(* and are used by no specification; PROJECT.json lists what each breaks.  *)

-----------------------------------------------------------------------------
(* A user calls the API, and get_space_with_auth looks for the membership: *)
(* a member goes on, the creator is made an owner again, anybody else is   *)
(* turned away.  Accepting an invite needs no membership and goes to its   *)
(* transaction at once.                                                    *)
GetSpaceWithAuth(u) ==
    IF member[u] # None THEN "caller" ELSE IF u = Creator THEN "rejoin" ELSE "idle"

Ask(u, op, target, role, token) ==
    LET pc == IF op = "accept" THEN "write" ELSE GetSpaceWithAuth(u) IN
    /\ call[u].pc = "idle" /\ calls < MaxCalls /\ pc # "idle"
    /\ Cardinality({v \in Users : call[v].pc # "idle"}) < MaxBusy
    /\ call' = [call EXCEPT ![u] = [NoCall EXCEPT !.op = op, !.target = target,
                   !.role = role, !.token = token, !.pc = pc]]
    /\ calls' = calls + 1
    /\ UNCHANGED <<member, invite, admitted>>

AskAny(u) ==
    \/ Ask(u, "leave", None, None, None)
    \/ \E t \in Users, op \in {"remove", "transfer"} :
           /\ t # u
           /\ Ask(u, op, t, None, None)
    \/ \E t \in Users, op \in {"add", "role"}, r \in Offered : Ask(u, op, t, r, None)
    \/ \E i \in Invites, r \in Offered :
           ~invite[i].made /\ Ask(u, "invite", None, r, i)
    \/ \E i \in Invites, op \in {"revoke", "accept"} :
           invite[i].made /\ Ask(u, op, None, None, i)

Goto(u, pc) == call' = [call EXCEPT ![u].pc = pc]
Refuse(u) == call' = [call EXCEPT ![u] = NoCall]

Rejoin(u) ==
    /\ call[u].pc = "rejoin"
    /\ member' = [member EXCEPT ![u] = "owner"]
    /\ call' = [Overtake(u) EXCEPT ![u] = [call[u] EXCEPT !.pc = "caller"]]
    /\ UNCHANGED <<invite, admitted, calls>>

-----------------------------------------------------------------------------
(* What a role may ask for.                                                *)
MayAdd(acting, role) ==
    acting \in Managers /\ (role = "owner" => acting = "owner")

MayInvite(acting, role) ==
    /\ acting \in Managers
    /\ role = "owner" => acting = "owner"
    /\ role \in {"admin", "coordinator"} => acting \in {"owner", "admin"}

MayRevoke(u, acting, token) ==
    acting \in {"owner", "admin"} \/ invite[token].by = u

Permitted(u, acting) ==
    CASE call[u].op = "leave" -> TRUE
      [] call[u].op = "add" -> MayAdd(acting, call[u].role)
      [] call[u].op \in {"role", "remove"} -> acting \in {"owner", "admin"}
      [] call[u].op = "transfer" -> acting = "owner"
      [] call[u].op = "invite" -> MayInvite(acting, call[u].role)
      [] call[u].op = "revoke" -> MayRevoke(u, acting, call[u].token)

(* get_user_role: the caller's role, which the rest of the call trusts.    *)
GetUserRole(u) ==
    /\ call[u].pc = "caller"
    /\ IF Permitted(u, member[u])
       THEN call' = [call EXCEPT ![u].acting = member[u], ![u].fresh = TRUE,
                ![u].pc = IF call[u].op \in {"leave", "role", "remove", "revoke"}
                          THEN "target" ELSE "write"]
       ELSE Refuse(u)
    /\ UNCHANGED <<member, invite, admitted, calls>>

(* Mutant: the count is not looked at.                                     *)
LeaveAnyway(u) == TRUE

(* The sole owner of a space with other members may not leave.             *)
MayLeave(u) ==
    ~(call[u].acting = "owner" /\ Cardinality(Inside) > 1
      /\ Cardinality(Holders("owner")) <= 1)

MayChangeRole(acting, old, new) ==
    /\ old \notin {None, "owner"}
    /\ ~(acting = "admin" /\ (old = "admin" \/ new \in {"owner", "admin"}))

(* Mutant: the owner may be removed like anybody else.                     *)
RemoveAnyone(acting, old) == old # None

MayRemove(acting, old) ==
    /\ old \notin {None, "owner"}
    /\ ~(acting = "admin" /\ old = "admin")

(* The second read: the target's role, the number of owners.               *)
Examine(u) ==
    /\ call[u].pc = "target" /\ call[u].op # "revoke"
    /\ IF CASE call[u].op = "leave" -> MayLeave(u)
            [] call[u].op = "role" ->
                   MayChangeRole(call[u].acting, member[call[u].target], call[u].role)
            [] call[u].op = "remove" ->
                   MayRemove(call[u].acting, member[call[u].target])
       THEN Goto(u, "write")
       ELSE Refuse(u)
    /\ UNCHANGED <<member, invite, admitted, calls>>

-----------------------------------------------------------------------------
(* The writes that trust what was read.                                    *)
Write(u, op) == call[u].pc = "write" /\ call[u].op = op

LeaveSpace(u) ==
    /\ Write(u, "leave")
    /\ member' = [member EXCEPT ![u] = None]
    /\ call' = Overtake(u)
    /\ UNCHANGED <<invite, admitted, calls>>

AddMember(u) ==
    /\ call[u].pc = "write" /\ call[u].op \in {"add", "role"}
    /\ member' = [member EXCEPT ![call[u].target] = call[u].role]
    /\ call' = Overtake(u)
    /\ UNCHANGED <<invite, admitted, calls>>

RemoveMember(u) ==
    /\ Write(u, "remove")
    /\ member' = [member EXCEPT ![call[u].target] = None]
    /\ call' = Overtake(u)
    /\ UNCHANGED <<invite, admitted, calls>>

(* The transfer checks both sides again inside its transaction.            *)
Transferable(u) == member[u] = "owner" /\ member[call[u].target] # None

TransferOwnership(u) ==
    /\ Write(u, "transfer")
    /\ IF Transferable(u)
       THEN /\ member' = [member EXCEPT ![call[u].target] = "owner", ![u] = "admin"]
            /\ call' = Overtake(u)
       ELSE Refuse(u) /\ UNCHANGED member
    /\ UNCHANGED <<invite, admitted, calls>>

-----------------------------------------------------------------------------
CreateInvite(u) ==
    /\ Write(u, "invite")
    /\ invite' = [invite EXCEPT ![call[u].token] =
           IF @.made THEN @ ELSE [NoInvite EXCEPT !.made = TRUE, !.by = u,
                                                  !.role = call[u].role]]
    /\ Refuse(u)
    /\ UNCHANGED <<member, admitted, calls>>

(* Mutant: the count alone decides.                                        *)
ValidByCount(i) == invite[i].used < Uses[invite[i].role] /\ ~invite[i].expired

Valid(i) == ~invite[i].revoked /\ invite[i].used < Uses[invite[i].role] /\ ~invite[i].expired

(* One transaction: the invite is spent, and the membership only rises.    *)
AcceptInviteAndJoin(u) ==
    LET i == call[u].token IN
    /\ Write(u, "accept")
    /\ IF Valid(i)
       THEN /\ invite' = [invite EXCEPT ![i].used = @ + 1,
                   ![i].revoked = invite[i].used + 1 >= Uses[invite[i].role]]
            /\ admitted' = [admitted EXCEPT ![i] = @ + 1]
            /\ member' = [member EXCEPT ![u] =
                   IF @ # None /\ Rank[@] >= Rank[invite[i].role] THEN @
                   ELSE invite[i].role]
            /\ call' = Overtake(u)
       ELSE Refuse(u) /\ UNCHANGED <<member, invite, admitted>>
    /\ UNCHANGED calls

(* Firestore revokes by writing back the whole invite it has read, so the  *)
(* uses counted in between are lost; the in-memory store marks it in place *)
(* under its lock.                                                         *)
ReadInvite(u) ==
    /\ call[u].pc = "target" /\ call[u].op = "revoke"
    /\ call' = [call EXCEPT ![u].pc = "write", ![u].used = invite[call[u].token].used]
    /\ UNCHANGED <<member, invite, admitted, calls>>

RevokeInvite(u) ==
    /\ Write(u, "revoke")
    /\ invite' = [invite EXCEPT ![call[u].token].revoked = TRUE,
           ![call[u].token].used = IF Backend = "firestore" THEN call[u].used ELSE @]
    /\ Refuse(u)
    /\ UNCHANGED <<member, admitted, calls>>

Expire(i) ==
    /\ invite[i].made /\ ~invite[i].expired
    /\ invite' = [invite EXCEPT ![i].expired = TRUE]
    /\ UNCHANGED <<member, admitted, call, calls>>

-----------------------------------------------------------------------------
(* create_space has made its creator the owner; the others are in already, *)
(* as direct_add_member puts them there, or are not, and an invite of the  *)
(* creator may be out and partly used.                                     *)
Out(r, n) == [NoInvite EXCEPT !.made = TRUE, !.by = Creator, !.role = r, !.used = n]

Init ==
    /\ member \in [Users -> Offered \cup {None}] /\ member[Creator] = "owner"
    /\ \E role \in [Invites -> Offered \cup {None}] :
       \E used \in [Invites -> 0..1] :
           /\ \A i \in Invites : IF role[i] = None THEN used[i] = 0
                               ELSE used[i] < Uses[role[i]]
           /\ invite = [i \in Invites |-> IF role[i] = None THEN NoInvite
                                         ELSE Out(role[i], used[i])]
           /\ admitted = used
    /\ call = [u \in Users |-> NoCall]
    /\ calls = 0

Step(u) ==
    \/ Rejoin(u) \/ GetUserRole(u) \/ Examine(u)
    \/ LeaveSpace(u) \/ AddMember(u) \/ RemoveMember(u) \/ TransferOwnership(u)
    \/ CreateInvite(u) \/ AcceptInviteAndJoin(u) \/ ReadInvite(u) \/ RevokeInvite(u)

Next == (\E u \in Users : AskAny(u) \/ Step(u)) \/ \E i \in Invites : Expire(i)

Spec == Init /\ [][Next]_svars

-----------------------------------------------------------------------------
GovernanceTypeOK ==
    /\ member \in [Users -> Roles \cup {None}]
    /\ invite \in [Invites -> Invite]
    /\ admitted \in [Invites -> Nat]
    /\ call \in [Users -> Call]
    /\ calls \in 0..MaxCalls

(* An invite lets in no more users than its max_uses, although revoke      *)
(* writes an old used_count back over the uses made in the meantime.       *)
AdmissionsAreBounded ==
    \A i \in Invites : invite[i].made => admitted[i] <= Uses[invite[i].role]

(* Once revoked, by hand or by its last use, an invite stays revoked and   *)
(* lets nobody in, whatever write was on its way.                          *)
RevocationIsFinal ==
    [][\A i \in Invites : invite[i].revoked =>
          invite'[i].revoked /\ admitted'[i] = admitted[i]]_svars

(* The step that takes the last owner from a space somebody is still in is *)
(* a write decided before another call changed the memberships, or a       *)
(* direct add over an owner: taken one after the other, the remaining      *)
(* calls always leave an owner.                                            *)
OwnerRemains ==
    [][Holders("owner") # {} /\ Holders("owner")' = {} =>
          \/ Inside' = {}
          \/ \E u \in Users : /\ call[u].pc = "write" /\ call'[u].pc = "idle"
                              /\ ~call[u].fresh \/ call[u].op = "add"]_svars

-----------------------------------------------------------------------------
(* What one might expect besides and the code does not give.               *)
(* "Sole Space owner cannot leave without transferring ownership":         *)
SpaceKeepsOwner == Inside # {} => Holders("owner") # {}

(* "Cannot change Owner role directly; use ownership transfer":            *)
OwnerIsAskedFirst ==
    [][\A u \in Users : member[u] = "owner" /\ member'[u] # "owner" =>
          call[u].op \in {"leave", "transfer"}]_svars
=============================================================================
