----------------------- MODULE SpaceGovernanceProofs -----------------------
(***************************************************************************)
(* Proofs about SpaceGovernance, for every number of users, invites and    *)
(* calls and for both stores: the types hold, an invite admits no more     *)
(* users than it is for, a revoked invite is spent for good, and only an   *)
(* overtaken write, or a direct add, takes the last owner from a space.    *)
(* AdmissionInvariant says why the uses that a revocation writes back do   *)
(* no harm: they are counted only as long as nothing was revoked.          *)
(* TrustInvariant says what a call that nobody overtook still knows.       *)
(***************************************************************************)
EXTENDS SpaceGovernance, FiniteSetTheorems, TLAPS

(* A call under way is about the target, role and token it was asked for.  *)
WellAsked(u) ==
    call[u].pc # "idle" =>
        /\ call[u].op = "invite" => call[u].token \in Invites /\ call[u].role \in Roles
        /\ call[u].op \in {"accept", "revoke"} =>
               call[u].token \in Invites /\ invite[call[u].token].made
        /\ call[u].op = "transfer" => call[u].target \in Users /\ call[u].target # u

Counted(i) ==
    /\ invite[i].made => invite[i].role \in Roles /\ admitted[i] <= Uses[invite[i].role]
    /\ ~invite[i].made => ~invite[i].revoked /\ invite[i].used = 0 /\ admitted[i] = 0
    /\ ~invite[i].revoked => invite[i].used = admitted[i]

AdmissionInvariant ==
    /\ \A u \in Users : WellAsked(u)
    /\ \A i \in Invites : Counted(i)

(* What a call read is still so, if nobody has changed a membership since. *)
Trusted(u) ==
    call[u].fresh =>
        /\ call[u].op = "leave" /\ call[u].pc \in {"target", "write"} =>
               call[u].acting = member[u]
        /\ call[u].op = "leave" /\ call[u].pc = "write" => MayLeave(u)
        /\ call[u].op \in {"role", "remove"} /\ call[u].pc = "write" =>
               member[call[u].target] # "owner"

TrustInvariant == \A u \in Users : Trusted(u)

-----------------------------------------------------------------------------
(* Types.                                                                  *)
LEMMA NoCallType == NoCall \in Call
  BY DEF NoCall, Call

LEMMA NoInviteType == NoInvite \in Invite
  BY DEF NoInvite, Invite

LEMMA OvertakeType ==
  ASSUME call \in [Users -> Call], NEW u \in Users
  PROVE  Overtake(u) \in [Users -> Call]
  <1>1. \A v \in Users : [call[v] EXCEPT !.fresh = FALSE] \in Call
    BY DEF Call
  <1> QED
    BY <1>1, NoCallType DEF Overtake

LEMMA InitTypeOK ==
  ASSUME Init PROVE GovernanceTypeOK
  <1>1. PICK role \in [Invites -> Offered \cup {None}], used \in [Invites -> 0..1] :
          /\ invite = [i \in Invites |-> IF role[i] = None THEN NoInvite
                                         ELSE Out(role[i], used[i])]
          /\ admitted = used
    BY DEF Init
  <1>2. \A r \in Roles \cup {None}, n \in 0..1 : Out(r, n) \in Invite
    <2>1. \A j \in Invite, by \in Users, r \in Roles \cup {None}, n \in Nat :
            [j EXCEPT !.made = TRUE, !.by = by, !.role = r, !.used = n] \in Invite
      BY DEF Invite
    <2>2. Creator \in Users
      BY GovernanceAssumption
    <2> TAKE r \in Roles \cup {None}, n \in 0..1
    <2>3. n \in Nat
      OBVIOUS
    <2> QED
      BY <2>1, <2>2, <2>3, NoInviteType, Zenon DEF Out
  <1>3. invite \in [Invites -> Invite]
    <2>1. \A i \in Invites : role[i] \in Roles \cup {None} /\ used[i] \in 0..1
      BY GovernanceAssumption
    <2>2. \A i \in Invites : (IF role[i] = None THEN NoInvite ELSE Out(role[i], used[i])) \in Invite
      BY <1>2, <2>1, NoInviteType
    <2> QED
      BY <1>1, <2>2
  <1>4. admitted \in [Invites -> Nat]
    BY <1>1
  <1>5. member \in [Users -> Roles \cup {None}]
    BY GovernanceAssumption DEF Init
  <1>6. call \in [Users -> Call]
    BY NoCallType DEF Init
  <1> QED
    BY <1>3, <1>4, <1>5, <1>6, GovernanceAssumption DEF Init, GovernanceTypeOK

(* What an asked call looks like.                                          *)
LEMMA AskType ==
  ASSUME GovernanceTypeOK, NEW u \in Users, NEW op \in Ops,
         NEW target \in Users \cup {None}, NEW role \in Roles \cup {None},
         NEW token \in Invites \cup {None}, Ask(u, op, target, role, token)
  PROVE  /\ GovernanceTypeOK'
         /\ call'[u].op = op /\ call'[u].target = target /\ call'[u].role = role
         /\ call'[u].token = token /\ call'[u].fresh
         /\ op # "accept" => call'[u].pc \in {"caller", "rejoin"}
         /\ \A v \in Users \ {u} : call'[v] = call[v]
         /\ UNCHANGED <<member, invite, admitted>>
  <1> DEFINE pc == IF op = "accept" THEN "write" ELSE GetSpaceWithAuth(u)
             c == [NoCall EXCEPT !.op = op, !.target = target, !.role = role,
                                 !.token = token, !.pc = pc]
  <1>1. pc \in {"write", "caller", "rejoin"} /\ (op # "accept" => pc \in {"caller", "rejoin"})
    BY DEF Ask, GetSpaceWithAuth
  <1>2. /\ c \in Call /\ c.op = op /\ c.target = target /\ c.role = role
        /\ c.token = token /\ c.fresh /\ c.pc = pc
    BY <1>1 DEF NoCall, Call
  <1>3. call' = [call EXCEPT ![u] = c] /\ calls' = calls + 1 /\ calls < MaxCalls
        /\ UNCHANGED <<member, invite, admitted>>
    BY DEF Ask
  <1> HIDE DEF c, pc
  <1>4. call' \in [Users -> Call] /\ call'[u] = c /\ \A v \in Users \ {u} : call'[v] = call[v]
    BY <1>2, <1>3 DEF GovernanceTypeOK
  <1>5. calls' \in 0..MaxCalls
    BY <1>3, GovernanceAssumption DEF GovernanceTypeOK
  <1> QED
    BY <1>1, <1>2, <1>3, <1>4, <1>5 DEF GovernanceTypeOK

(* A step leaves every call that is not over about what it was asked for.  *)
GoesOn(v) ==
    call'[v].pc # "idle" =>
        /\ call[v].pc # "idle"
        /\ call'[v].op = call[v].op /\ call'[v].target = call[v].target
        /\ call'[v].role = call[v].role /\ call'[v].token = call[v].token

LEMMA GotoStep ==
  ASSUME GovernanceTypeOK, NEW u \in Users, call[u].pc # "idle",
         NEW pc \in {"idle", "rejoin", "caller", "target", "write"}, Goto(u, pc)
  PROVE  /\ call' \in [Users -> Call] /\ \A v \in Users : GoesOn(v)
         /\ call'[u].pc = pc /\ call'[u].fresh = call[u].fresh
         /\ call'[u].op = call[u].op /\ call'[u].target = call[u].target
         /\ call'[u].acting = call[u].acting
         /\ \A v \in Users \ {u} : call'[v] = call[v]
  BY DEF GovernanceTypeOK, Goto, GoesOn, Call

LEMMA RefuseStep ==
  ASSUME GovernanceTypeOK, NEW u \in Users, Refuse(u)
  PROVE  /\ call' \in [Users -> Call] /\ \A v \in Users : GoesOn(v)
         /\ call'[u].pc = "idle" /\ call'[u].op = None
         /\ \A v \in Users \ {u} : call'[v] = call[v]
  <1>1. call' = [call EXCEPT ![u] = NoCall] /\ NoCall.pc = "idle" /\ NoCall.op = None
    BY DEF Refuse, NoCall
  <1> QED
    BY <1>1, NoCallType DEF GovernanceTypeOK, GoesOn

LEMMA OvertakeStep ==
  ASSUME GovernanceTypeOK, NEW u \in Users, call' = Overtake(u)
  PROVE  /\ call' \in [Users -> Call] /\ \A v \in Users : GoesOn(v)
         /\ call'[u].pc = "idle" /\ call'[u].op = None
         /\ \A v \in Users \ {u} : ~call'[v].fresh
  <1>1. NoCall.pc = "idle" /\ NoCall.op = None
    BY DEF NoCall
  <1>2. call'[u] = NoCall
    BY DEF Overtake
  <1>3. ASSUME NEW v \in Users \ {u}
        PROVE  /\ call'[v].pc = call[v].pc /\ call'[v].op = call[v].op
               /\ call'[v].target = call[v].target /\ call'[v].role = call[v].role
               /\ call'[v].token = call[v].token /\ ~call'[v].fresh
    <2>1. call'[v] = [call[v] EXCEPT !.fresh = FALSE] /\ call[v] \in Call
      BY DEF Overtake, GovernanceTypeOK
    <2> QED
      BY <2>1 DEF Call
  <1> QED
    BY <1>1, <1>2, <1>3, OvertakeType DEF GovernanceTypeOK, GoesOn

(* What each kind of step does to the calls, and that it keeps the types.  *)
LEMMA RejoinStep ==
  ASSUME GovernanceTypeOK, NEW u \in Users, Rejoin(u)
  PROVE  /\ GovernanceTypeOK' /\ \A v \in Users : GoesOn(v)
         /\ call'[u].pc = "caller" /\ \A v \in Users \ {u} : ~call'[v].fresh
         /\ member' = [member EXCEPT ![u] = "owner"] /\ UNCHANGED <<invite, admitted>>
  <1>1. /\ call[u].pc = "rejoin" /\ member' = [member EXCEPT ![u] = "owner"]
        /\ call' = [Overtake(u) EXCEPT ![u] = [call[u] EXCEPT !.pc = "caller"]]
        /\ UNCHANGED <<invite, admitted, calls>>
    BY DEF Rejoin
  <1>2. PICK c \in Call :
          /\ c = [call[u] EXCEPT !.pc = "caller"] /\ c.pc = "caller" /\ c.op = call[u].op
          /\ c.target = call[u].target /\ c.role = call[u].role /\ c.token = call[u].token
    <2>1. call[u] \in Call
      BY DEF GovernanceTypeOK
    <2>2. [call[u] EXCEPT !.pc = "caller"] \in Call
      BY <2>1 DEF Call
    <2> QED
      BY <2>1, <2>2 DEF Call
  <1>3. call' \in [Users -> Call] /\ call'[u] = c
    BY <1>1, <1>2, OvertakeType DEF GovernanceTypeOK
  <1>4. ASSUME NEW v \in Users \ {u}
        PROVE  /\ call'[v].pc = call[v].pc /\ call'[v].op = call[v].op
               /\ call'[v].target = call[v].target /\ call'[v].role = call[v].role
               /\ call'[v].token = call[v].token /\ ~call'[v].fresh
    <2>1. call'[v] = [call[v] EXCEPT !.fresh = FALSE] /\ call[v] \in Call
      BY <1>1 DEF Overtake, GovernanceTypeOK
    <2> QED
      BY <2>1 DEF Call
  <1>5. \A v \in Users : GoesOn(v)
    BY <1>1, <1>2, <1>3, <1>4 DEF GoesOn
  <1>6. member' \in [Users -> Roles \cup {None}]
    BY <1>1 DEF GovernanceTypeOK, Roles
  <1> QED
    BY <1>1, <1>2, <1>3, <1>4, <1>5, <1>6 DEF GovernanceTypeOK

LEMMA GetUserRoleStep ==
  ASSUME GovernanceTypeOK, NEW u \in Users, GetUserRole(u)
  PROVE  /\ GovernanceTypeOK' /\ \A v \in Users : GoesOn(v)
         /\ UNCHANGED <<member, invite, admitted>>
         /\ \A v \in Users \ {u} : call'[v] = call[v]
         /\ \/ call'[u].pc = "idle"
            \/ /\ call'[u].acting = member[u]
               /\ call'[u].op \in {"leave", "role", "remove"} => call'[u].pc = "target"
  <1> DEFINE pc == IF call[u].op \in {"leave", "role", "remove", "revoke"}
                   THEN "target" ELSE "write"
  <1>1. call[u].pc = "caller" /\ UNCHANGED <<member, invite, admitted, calls>>
    BY DEF GetUserRole
  <1>2. CASE Refuse(u)
    BY <1>1, <1>2, RefuseStep DEF GovernanceTypeOK
  <1>3. CASE call' = [call EXCEPT ![u].acting = member[u], ![u].fresh = TRUE, ![u].pc = pc]
    <2>1. PICK r \in Roles \cup {None} : r = member[u]
      BY DEF GovernanceTypeOK
    <2>2. PICK q \in {"target", "write"} : q = pc
      OBVIOUS
    <2>3. call' = [call EXCEPT ![u].acting = r, ![u].fresh = TRUE, ![u].pc = q]
      BY <1>3, <2>1, <2>2, Zenon
    <2>4. /\ call' \in [Users -> Call] /\ call[u] \in Call
          /\ call'[u].acting = r /\ call'[u].pc = q /\ call'[u].op = call[u].op
          /\ \A v \in Users \ {u} : call'[v] = call[v]
          /\ call'[u].target = call[u].target /\ call'[u].role = call[u].role
          /\ call'[u].token = call[u].token
      <3> DEFINE c == [call[u] EXCEPT !.acting = r, !.fresh = TRUE, !.pc = q]
      <3>1. call[u] \in Call /\ call \in [Users -> Call]
        BY DEF GovernanceTypeOK
      <3>2. /\ c \in Call /\ c.acting = r /\ c.pc = q /\ c.op = call[u].op
            /\ c.target = call[u].target /\ c.role = call[u].role /\ c.token = call[u].token
        BY <3>1 DEF Call
      <3>3. call' = [call EXCEPT ![u] = c]
        BY <2>3, <3>1
      <3> HIDE DEF c
      <3> QED
        BY <3>1, <3>2, <3>3
    <2>5. \A v \in Users : GoesOn(v)
      BY <1>1, <2>4 DEF GoesOn
    <2> QED
      BY <1>1, <2>1, <2>2, <2>4, <2>5 DEF GovernanceTypeOK
  <1> QED
    BY <1>2, <1>3 DEF GetUserRole

LEMMA ExamineStep ==
  ASSUME GovernanceTypeOK, NEW u \in Users, Examine(u)
  PROVE  /\ GovernanceTypeOK' /\ \A v \in Users : GoesOn(v)
         /\ UNCHANGED <<member, invite, admitted>>
         /\ \A v \in Users \ {u} : call'[v] = call[v]
         /\ \/ call'[u].pc = "idle"
            \/ /\ call[u].pc = "target" /\ call'[u].fresh = call[u].fresh
               /\ call'[u].op = call[u].op /\ call'[u].target = call[u].target
               /\ call'[u].acting = call[u].acting
               /\ call[u].op = "leave" => MayLeave(u)
               /\ call[u].op \in {"role", "remove"} => member[call[u].target] # "owner"
  <1>1. call[u].pc = "target" /\ UNCHANGED <<member, invite, admitted, calls>>
    BY DEF Examine
  <1>2. CASE Refuse(u)
    BY <1>1, <1>2, RefuseStep DEF GovernanceTypeOK
  <1>3. ASSUME ~Refuse(u)
        PROVE  /\ Goto(u, "write")
               /\ call[u].op = "leave" => MayLeave(u)
               /\ call[u].op \in {"role", "remove"} => member[call[u].target] # "owner"
    BY <1>3 DEF Examine, MayChangeRole, MayRemove
  <1>4. CASE ~Refuse(u)
    BY <1>1, <1>3, <1>4, GotoStep DEF GovernanceTypeOK
  <1> QED
    BY <1>2, <1>4

(* The writes of a membership that was decided before.                     *)
LEMMA LeaveStep ==
  ASSUME GovernanceTypeOK, NEW u \in Users, LeaveSpace(u)
  PROVE  /\ GovernanceTypeOK' /\ call' = Overtake(u) /\ UNCHANGED <<invite, admitted>>
  BY OvertakeStep DEF LeaveSpace, GovernanceTypeOK

LEMMA AddStep ==
  ASSUME GovernanceTypeOK, NEW u \in Users, AddMember(u)
  PROVE  /\ GovernanceTypeOK' /\ call' = Overtake(u) /\ UNCHANGED <<invite, admitted>>
  <1>1. call[u].role \in Roles \cup {None}
    BY DEF GovernanceTypeOK, Call
  <1> QED
    BY <1>1, OvertakeStep DEF AddMember, GovernanceTypeOK

LEMMA RemoveStep ==
  ASSUME GovernanceTypeOK, NEW u \in Users, RemoveMember(u)
  PROVE  /\ GovernanceTypeOK' /\ call' = Overtake(u) /\ UNCHANGED <<invite, admitted>>
  BY OvertakeStep DEF RemoveMember, GovernanceTypeOK

LEMMA TransferStep ==
  ASSUME GovernanceTypeOK, NEW u \in Users, TransferOwnership(u)
  PROVE  /\ GovernanceTypeOK' /\ UNCHANGED <<invite, admitted>>
         /\ \/ UNCHANGED member /\ Refuse(u)
            \/ call' = Overtake(u)
  <1>1. CASE Transferable(u)
    BY <1>1, OvertakeStep DEF TransferOwnership, GovernanceTypeOK, Roles
  <1>2. CASE ~Transferable(u)
    BY <1>2, RefuseStep DEF TransferOwnership, GovernanceTypeOK
  <1> QED
    BY <1>1, <1>2

-----------------------------------------------------------------------------
(* The steps on an invite.                                                 *)
LEMMA CreateStep ==
  ASSUME GovernanceTypeOK, AdmissionInvariant, NEW u \in Users, CreateInvite(u)
  PROVE  /\ GovernanceTypeOK' /\ Refuse(u) /\ UNCHANGED <<member, admitted>>
         /\ \A i \in Invites :
               \/ invite'[i] = invite[i]
               \/ /\ ~invite[i].made /\ invite'[i].made /\ invite'[i].role \in Roles
                  /\ invite'[i].used = 0 /\ ~invite'[i].revoked
  <1> DEFINE t == call[u].token
             j == [NoInvite EXCEPT !.made = TRUE, !.by = u, !.role = call[u].role]
  <1>1. /\ call[u].pc = "write" /\ call[u].op = "invite" /\ Refuse(u)
        /\ UNCHANGED <<member, admitted, calls>>
        /\ invite' = [invite EXCEPT ![t] = IF @.made THEN @ ELSE j]
    BY DEF CreateInvite, Write
  <1>2. t \in Invites /\ call[u].role \in Roles
    BY <1>1 DEF AdmissionInvariant, WellAsked
  <1>3. /\ j \in Invite /\ j.made /\ j.role = call[u].role /\ j.used = 0 /\ ~j.revoked
    BY <1>2 DEF NoInvite, Invite
  <1> HIDE DEF j, t
  <1>4. /\ invite' \in [Invites -> Invite]
        /\ invite'[t] = (IF invite[t].made THEN invite[t] ELSE j)
        /\ \A i \in Invites \ {t} : invite'[i] = invite[i]
    BY <1>1, <1>2, <1>3 DEF GovernanceTypeOK
  <1> QED
    BY <1>1, <1>2, <1>3, <1>4, RefuseStep DEF GovernanceTypeOK

LEMMA AcceptStep ==
  ASSUME GovernanceTypeOK, AdmissionInvariant, NEW u \in Users, AcceptInviteAndJoin(u)
  PROVE  /\ GovernanceTypeOK'
         /\ \/ Refuse(u) /\ UNCHANGED <<member, invite, admitted>>
            \/ /\ call' = Overtake(u)
               /\ \A v \in Users : member[v] = "owner" => member'[v] = "owner"
               /\ \A i \in Invites :
                     \/ invite'[i] = invite[i] /\ admitted'[i] = admitted[i]
                     \/ /\ invite[i].made /\ ~invite[i].revoked
                        /\ invite[i].used + 1 <= Uses[invite[i].role]
                        /\ invite'[i].made /\ invite'[i].role = invite[i].role
                        /\ invite'[i].used = invite[i].used + 1
                        /\ admitted'[i] = admitted[i] + 1
  <1> DEFINE t == call[u].token
             r == invite[t].role
             last == invite[t].used + 1 >= Uses[r]
             better == IF member[u] # None /\ Rank[member[u]] >= Rank[r] THEN member[u] ELSE r
  <1>1. call[u].pc = "write" /\ call[u].op = "accept" /\ UNCHANGED calls
    BY DEF AcceptInviteAndJoin, Write
  <1>2. t \in Invites /\ invite[t].made /\ r \in Roles
    BY <1>1 DEF AdmissionInvariant, WellAsked, Counted
  <1>3. CASE ~Valid(t)
    <2>1. Refuse(u) /\ UNCHANGED <<member, invite, admitted>>
      BY <1>3 DEF AcceptInviteAndJoin
    <2> QED
      BY <1>1, <2>1, RefuseStep DEF GovernanceTypeOK
  <1>4. CASE Valid(t)
    <2>1. /\ invite' = [invite EXCEPT ![t].used = @ + 1, ![t].revoked = last]
          /\ admitted' = [admitted EXCEPT ![t] = @ + 1]
          /\ member' = [member EXCEPT ![u] = better]
          /\ call' = Overtake(u)
      BY <1>4 DEF AcceptInviteAndJoin
    <2>2. PICK k \in Nat : k = invite[t].used + 1
      BY <1>2 DEF GovernanceTypeOK, Invite
    <2>3. PICK l \in BOOLEAN : l = last
      BY last \in BOOLEAN
    <2>4. invite[t] \in Invite /\ invite \in [Invites -> Invite]
      BY <1>2 DEF GovernanceTypeOK
    <2> DEFINE j == [invite[t] EXCEPT !.used = k, !.revoked = l]
    <2>5. j \in Invite /\ j.used = k /\ j.made = invite[t].made /\ j.role = r
      BY <2>4 DEF Invite
    <2>6. invite' = [invite EXCEPT ![t] = j]
      BY <2>1, <2>2, <2>3, <2>4
    <2> HIDE DEF j
    <2>7. /\ invite' \in [Invites -> Invite] /\ invite'[t] = j
          /\ \A i \in Invites \ {t} : invite'[i] = invite[i]
      BY <1>2, <2>4, <2>5, <2>6
    <2>8. better \in Roles \cup {None}
      BY <1>2 DEF GovernanceTypeOK
    <2>9. member[u] = "owner" => better = "owner"
      BY <1>2, GovernanceAssumption DEF Rank, Roles
    <2>10. /\ member' \in [Users -> Roles \cup {None}]
           /\ \A v \in Users : member[v] = "owner" => member'[v] = "owner"
      BY <2>1, <2>8, <2>9 DEF GovernanceTypeOK
    <2>11. /\ admitted' \in [Invites -> Nat] /\ admitted'[t] = admitted[t] + 1
           /\ \A i \in Invites \ {t} : admitted'[i] = admitted[i]
      BY <1>2, <2>1 DEF GovernanceTypeOK
    <2>12. ~invite[t].revoked /\ invite[t].used + 1 <= Uses[r]
      <3>1. ~invite[t].revoked /\ invite[t].used < Uses[r]
        BY <1>4 DEF Valid
      <3>2. invite[t].used \in Nat /\ Uses[r] \in Nat
        BY <1>2, <2>4, GovernanceAssumption DEF Invite
      <3> QED
        BY <3>1, <3>2
    <2>13. GovernanceTypeOK'
      BY <1>1, <2>1, <2>7, <2>10, <2>11, OvertakeStep DEF GovernanceTypeOK
    <2> QED
      BY <1>2, <2>1, <2>2, <2>5, <2>7, <2>10, <2>11, <2>12, <2>13
  <1> QED
    BY <1>3, <1>4

LEMMA ReadStep ==
  ASSUME GovernanceTypeOK, AdmissionInvariant, NEW u \in Users, ReadInvite(u)
  PROVE  /\ GovernanceTypeOK' /\ \A v \in Users : GoesOn(v)
         /\ UNCHANGED <<member, invite, admitted>>
         /\ \A v \in Users \ {u} : call'[v] = call[v]
         /\ call'[u].op = "revoke"
  <1>1. /\ call[u].pc = "target" /\ call[u].op = "revoke"
        /\ call' = [call EXCEPT ![u].pc = "write", ![u].used = invite[call[u].token].used]
        /\ UNCHANGED <<member, invite, admitted, calls>>
    BY DEF ReadInvite
  <1>2. call[u].token \in Invites
    BY <1>1 DEF AdmissionInvariant, WellAsked
  <1>3. PICK k \in Nat : k = invite[call[u].token].used
    BY <1>2 DEF GovernanceTypeOK, Invite
  <1> DEFINE c == [call[u] EXCEPT !.pc = "write", !.used = k]
  <1>4. call[u] \in Call /\ call \in [Users -> Call]
    BY DEF GovernanceTypeOK
  <1>5. /\ c \in Call /\ c.op = call[u].op /\ c.target = call[u].target
        /\ c.role = call[u].role /\ c.token = call[u].token
    BY <1>4 DEF Call
  <1>6. call' = [call EXCEPT ![u] = c]
    BY <1>1, <1>3, <1>4
  <1> HIDE DEF c
  <1> QED
    BY <1>1, <1>4, <1>5, <1>6 DEF GovernanceTypeOK, GoesOn

LEMMA RevokeStep ==
  ASSUME GovernanceTypeOK, AdmissionInvariant, NEW u \in Users, RevokeInvite(u)
  PROVE  /\ GovernanceTypeOK' /\ Refuse(u) /\ UNCHANGED <<member, admitted>>
         /\ \A i \in Invites :
               \/ invite'[i] = invite[i]
               \/ /\ invite[i].made /\ invite'[i].made /\ invite'[i].revoked
                  /\ invite'[i].role = invite[i].role
  <1> DEFINE t == call[u].token
             n == IF Backend = "firestore" THEN call[u].used ELSE invite[t].used
  <1>1. /\ call[u].pc = "write" /\ call[u].op = "revoke" /\ Refuse(u)
        /\ UNCHANGED <<member, admitted, calls>>
        /\ invite' = [invite EXCEPT ![t].revoked = TRUE,
              ![t].used = IF Backend = "firestore" THEN call[u].used ELSE @]
    BY DEF RevokeInvite, Write
  <1>2. t \in Invites /\ invite[t].made
    BY <1>1 DEF AdmissionInvariant, WellAsked
  <1>3. invite[t] \in Invite /\ invite \in [Invites -> Invite]
    BY <1>2 DEF GovernanceTypeOK
  <1>4. PICK k \in Nat : k = n
    BY <1>3 DEF GovernanceTypeOK, Call, Invite
  <1> DEFINE j == [invite[t] EXCEPT !.revoked = TRUE, !.used = k]
  <1>5. j \in Invite /\ j.made = invite[t].made /\ j.role = invite[t].role /\ j.revoked
    BY <1>3 DEF Invite
  <1>6. invite' = [invite EXCEPT ![t] = j]
    BY <1>1, <1>3, <1>4
  <1> HIDE DEF j
  <1>7. /\ invite' \in [Invites -> Invite] /\ invite'[t] = j
        /\ \A i \in Invites \ {t} : invite'[i] = invite[i]
    BY <1>2, <1>3, <1>5, <1>6
  <1> QED
    BY <1>1, <1>2, <1>5, <1>7, RefuseStep DEF GovernanceTypeOK

LEMMA ExpireStep ==
  ASSUME GovernanceTypeOK, NEW e \in Invites, Expire(e)
  PROVE  /\ GovernanceTypeOK' /\ UNCHANGED <<member, admitted, call>>
         /\ \A i \in Invites :
               /\ invite'[i].made = invite[i].made /\ invite'[i].role = invite[i].role
               /\ invite'[i].used = invite[i].used /\ invite'[i].revoked = invite[i].revoked
  <1> DEFINE j == [invite[e] EXCEPT !.expired = TRUE]
  <1>1. invite[e] \in Invite /\ invite \in [Invites -> Invite]
    BY DEF GovernanceTypeOK
  <1>2. /\ j \in Invite /\ j.made = invite[e].made /\ j.role = invite[e].role
        /\ j.used = invite[e].used /\ j.revoked = invite[e].revoked
    BY <1>1 DEF Invite
  <1>3. invite' = [invite EXCEPT ![e] = j] /\ UNCHANGED <<member, admitted, call, calls>>
    BY DEF Expire
  <1> HIDE DEF j
  <1> QED
    BY <1>1, <1>2, <1>3 DEF GovernanceTypeOK

-----------------------------------------------------------------------------
(* The invites are counted.                                                *)
LEMMA InitAdmission ==
  ASSUME Init PROVE AdmissionInvariant
  <1>1. PICK role \in [Invites -> Offered \cup {None}], used \in [Invites -> 0..1] :
          /\ \A i \in Invites : IF role[i] = None THEN used[i] = 0 ELSE used[i] < Uses[role[i]]
          /\ invite = [i \in Invites |-> IF role[i] = None THEN NoInvite
                                         ELSE Out(role[i], used[i])]
          /\ admitted = used
    BY DEF Init
  <1>2. ASSUME NEW i \in Invites PROVE Counted(i)
    <2>1. CASE role[i] = None
      <3>1. invite[i] = NoInvite /\ admitted[i] = 0
        BY <1>1, <2>1
      <3> QED
        BY <3>1 DEF Counted, NoInvite
    <2>2. CASE role[i] # None
      <3>1. invite[i] = Out(role[i], used[i]) /\ admitted[i] = used[i]
        BY <1>1, <2>2
      <3>2. role[i] \in Roles /\ used[i] < Uses[role[i]] /\ used[i] \in Nat
        BY <1>1, <2>2, GovernanceAssumption
      <3>3. Uses[role[i]] \in Nat
        BY <3>2, GovernanceAssumption
      <3>4. /\ invite[i].made /\ ~invite[i].revoked
            /\ invite[i].role = role[i] /\ invite[i].used = used[i]
        BY <3>1 DEF Out, NoInvite
      <3> QED
        BY <3>1, <3>2, <3>3, <3>4 DEF Counted
    <2> QED
      BY <2>1, <2>2
  <1>3. \A u \in Users : call[u].pc = "idle"
    BY DEF Init, NoCall
  <1> QED
    BY <1>2, <1>3 DEF AdmissionInvariant, WellAsked

(* What is asked is recorded as it was asked.                              *)
LEMMA AskAnyStep ==
  ASSUME GovernanceTypeOK, AdmissionInvariant, NEW u \in Users, AskAny(u)
  PROVE  /\ GovernanceTypeOK' /\ WellAsked(u)'
         /\ \A v \in Users \ {u} : call'[v] = call[v]
         /\ UNCHANGED <<member, invite, admitted>>
         /\ call'[u].op # "accept" => call'[u].pc \in {"caller", "rejoin"}
  <1> DEFINE Sound(op, target, role, token) ==
                /\ op = "invite" => token \in Invites /\ role \in Roles
                /\ op \in {"accept", "revoke"} => token \in Invites /\ invite[token].made
                /\ op = "transfer" => target \in Users /\ target # u
  <1>1. \E op \in Ops, target \in Users \cup {None}, role \in Roles \cup {None},
           token \in Invites \cup {None} :
          Ask(u, op, target, role, token) /\ Sound(op, target, role, token)
    <2>1. CASE Ask(u, "leave", None, None, None)
      BY <2>1 DEF Ops
    <2>2. CASE \E t \in Users, op \in {"remove", "transfer"} :
                 t # u /\ Ask(u, op, t, None, None)
      BY <2>2 DEF Ops
    <2>3. CASE \E t \in Users, op \in {"add", "role"}, r \in Offered : Ask(u, op, t, r, None)
      <3>1. PICK t \in Users, op \in {"add", "role"}, r \in Offered : Ask(u, op, t, r, None)
        BY <2>3
      <3> QED
        BY <3>1, GovernanceAssumption DEF Ops
    <2>4. CASE \E i \in Invites, r \in Offered :
                 ~invite[i].made /\ Ask(u, "invite", None, r, i)
      <3>1. PICK i \in Invites, r \in Offered : Ask(u, "invite", None, r, i)
        BY <2>4
      <3> QED
        BY <3>1, GovernanceAssumption DEF Ops
    <2>5. CASE \E i \in Invites, op \in {"revoke", "accept"} :
                 invite[i].made /\ Ask(u, op, None, None, i)
      BY <2>5 DEF Ops
    <2> QED
      BY <2>1, <2>2, <2>3, <2>4, <2>5 DEF AskAny
  <1>2. PICK op \in Ops, target \in Users \cup {None}, role \in Roles \cup {None},
             token \in Invites \cup {None} :
          Ask(u, op, target, role, token) /\ Sound(op, target, role, token)
    BY <1>1
  <1>3. /\ GovernanceTypeOK' /\ call'[u].op = op /\ call'[u].target = target
        /\ call'[u].role = role /\ call'[u].token = token
        /\ (op # "accept" => call'[u].pc \in {"caller", "rejoin"})
        /\ (\A v \in Users \ {u} : call'[v] = call[v])
        /\ UNCHANGED <<member, invite, admitted>>
    BY <1>2, AskType
  <1>4. WellAsked(u)'
    BY <1>2, <1>3 DEF WellAsked
  <1> QED
    BY <1>3, <1>4

LEMMA AskedStays ==
  ASSUME AdmissionInvariant, \A v \in Users : GoesOn(v),
         \A i \in Invites : invite[i].made => invite'[i].made
  PROVE  \A u \in Users : WellAsked(u)'
  BY DEF AdmissionInvariant, WellAsked, GoesOn

LEMMA CountStays ==
  ASSUME AdmissionInvariant, NEW i \in Invites, admitted'[i] = admitted[i],
         invite'[i].made = invite[i].made, invite'[i].role = invite[i].role,
         \/ invite'[i].revoked = invite[i].revoked /\ invite'[i].used = invite[i].used
         \/ invite[i].made /\ invite'[i].revoked
  PROVE  Counted(i)'
  BY DEF AdmissionInvariant, Counted

(* Every step keeps types and counts, and nothing revives an invite.       *)
LEMMA AdmissionStep ==
  ASSUME GovernanceTypeOK, AdmissionInvariant, [Next]_svars
  PROVE  /\ GovernanceTypeOK' /\ AdmissionInvariant'
         /\ \A i \in Invites : invite[i].revoked =>
               invite'[i].revoked /\ admitted'[i] = admitted[i]
  <1> DEFINE Kept == /\ GovernanceTypeOK' /\ AdmissionInvariant'
                     /\ \A i \in Invites : invite[i].revoked =>
                           invite'[i].revoked /\ admitted'[i] = admitted[i]
  <1>1. ASSUME NEW u \in Users, AskAny(u) PROVE Kept
    <2>1. \A v \in Users : WellAsked(v)'
      BY <1>1, AskAnyStep DEF AdmissionInvariant, WellAsked
    <2>2. \A i \in Invites : Counted(i)'
      BY <1>1, AskAnyStep, CountStays
    <2> QED
      BY <1>1, <2>1, <2>2, AskAnyStep DEF AdmissionInvariant
  <1>2. ASSUME GovernanceTypeOK', \A v \in Users : GoesOn(v), UNCHANGED <<invite, admitted>>
        PROVE  Kept
    BY <1>2, AskedStays, CountStays DEF AdmissionInvariant
  <1>3. ASSUME NEW u \in Users, Step(u) PROVE Kept
    <2>1. CASE Rejoin(u) \/ GetUserRole(u) \/ Examine(u) \/ ReadInvite(u)
      BY <2>1, <1>2, RejoinStep, GetUserRoleStep, ExamineStep, ReadStep
    <2>2. CASE LeaveSpace(u) \/ AddMember(u) \/ RemoveMember(u)
      BY <2>2, <1>2, LeaveStep, AddStep, RemoveStep, OvertakeStep
    <2>3. CASE TransferOwnership(u)
      BY <2>3, <1>2, TransferStep, OvertakeStep, RefuseStep
    <2>4. CASE CreateInvite(u)
      <3>1. \A v \in Users : WellAsked(v)'
        BY <2>4, CreateStep, RefuseStep, AskedStays
      <3>2. ASSUME NEW i \in Invites PROVE Counted(i)'
        <4>1. CASE invite'[i] = invite[i]
          BY <4>1, <2>4, CreateStep, CountStays
        <4>2. CASE /\ ~invite[i].made /\ invite'[i].made /\ invite'[i].role \in Roles
                   /\ invite'[i].used = 0 /\ ~invite'[i].revoked
          <5>1. admitted'[i] = 0
            BY <4>2, <2>4, CreateStep DEF AdmissionInvariant, Counted
          <5>2. Uses[invite'[i].role] \in Nat
            BY <4>2, GovernanceAssumption
          <5> QED
            BY <4>2, <5>1, <5>2 DEF Counted
        <4> QED
          BY <2>4, <4>1, <4>2, CreateStep
      <3>3. \A i \in Invites : invite[i].revoked => invite'[i].revoked /\ admitted'[i] = admitted[i]
        BY <2>4, CreateStep DEF AdmissionInvariant, Counted
      <3> QED
        BY <2>4, <3>1, <3>2, <3>3, CreateStep DEF AdmissionInvariant
    <2>5. CASE AcceptInviteAndJoin(u)
      <3>1. \A v \in Users : WellAsked(v)'
        BY <2>5, AcceptStep, RefuseStep, OvertakeStep, AskedStays
      <3>2. ASSUME NEW i \in Invites
            PROVE  /\ Counted(i)'
                   /\ invite[i].revoked => invite'[i].revoked /\ admitted'[i] = admitted[i]
        <4>1. CASE invite'[i] = invite[i] /\ admitted'[i] = admitted[i]
          BY <4>1, CountStays
        <4>2. CASE /\ invite[i].made /\ ~invite[i].revoked
                   /\ invite[i].used + 1 <= Uses[invite[i].role]
                   /\ invite'[i].made /\ invite'[i].role = invite[i].role
                   /\ invite'[i].used = invite[i].used + 1
                   /\ admitted'[i] = admitted[i] + 1
          <5>1. invite[i].used = admitted[i]
            BY <4>2 DEF Counted, AdmissionInvariant
          <5>2. invite[i].role \in Roles
            BY <4>2 DEF Counted, AdmissionInvariant
          <5>3. admitted'[i] = invite'[i].used /\ admitted'[i] <= Uses[invite'[i].role]
            BY <4>2, <5>1
          <5> QED
            BY <4>2, <5>2, <5>3 DEF Counted
        <4> QED
          BY <2>5, <4>1, <4>2, AcceptStep
      <3> QED
        BY <2>5, <3>1, <3>2, AcceptStep DEF AdmissionInvariant
    <2>6. CASE RevokeInvite(u)
      <3>1. \A v \in Users : WellAsked(v)'
        BY <2>6, RevokeStep, RefuseStep, AskedStays
      <3>2. ASSUME NEW i \in Invites PROVE Counted(i)'
        <4>1. /\ admitted'[i] = admitted[i]
              /\ \/ invite'[i] = invite[i]
                 \/ /\ invite[i].made /\ invite'[i].made /\ invite'[i].revoked
                    /\ invite'[i].role = invite[i].role
          BY <2>6, RevokeStep
        <4>2. CASE invite'[i] = invite[i]
          BY <4>1, <4>2, CountStays
        <4>3. CASE invite'[i] # invite[i]
          BY <4>1, <4>3, CountStays
        <4> QED
          BY <4>2, <4>3
      <3> QED
        BY <2>6, <3>1, <3>2, RevokeStep DEF AdmissionInvariant
    <2> QED
      BY <1>3, <2>1, <2>2, <2>3, <2>4, <2>5, <2>6 DEF Step
  <1>4. ASSUME NEW i \in Invites, Expire(i) PROVE Kept
    <2>1. \A v \in Users : WellAsked(v)'
      BY <1>4, ExpireStep DEF AdmissionInvariant, WellAsked
    <2>2. \A j \in Invites : Counted(j)'
      BY <1>4, ExpireStep, CountStays
    <2> QED
      BY <1>4, <2>1, <2>2, ExpireStep DEF AdmissionInvariant
  <1>5. CASE UNCHANGED svars
    BY <1>5 DEF svars, GovernanceTypeOK, AdmissionInvariant, WellAsked, Counted
  <1> QED
    BY <1>1, <1>3, <1>4, <1>5 DEF Next

-----------------------------------------------------------------------------
(* Calls that trust what they read.                                        *)
LEMMA OvertakenTrust ==
  ASSUME NEW u \in Users, call'[u].pc \notin {"target", "write"},
         \A v \in Users \ {u} : ~call'[v].fresh
  PROVE  TrustInvariant'
  BY DEF TrustInvariant, Trusted

LEMMA QuietTrust ==
  ASSUME TrustInvariant, NEW u \in Users, UNCHANGED member,
         \A v \in Users \ {u} : call'[v] = call[v],
         \/ call'[u].pc \notin {"target", "write"}
         \/ call'[u].op \notin {"leave", "role", "remove"}
         \/ call'[u].pc = "target" /\ call'[u].acting = member[u]
         \/ /\ call[u].pc = "target" /\ call'[u].fresh = call[u].fresh
            /\ call'[u].op = call[u].op /\ call'[u].target = call[u].target
            /\ call'[u].acting = call[u].acting
            /\ call[u].op = "leave" => MayLeave(u)
            /\ call[u].op \in {"role", "remove"} => member[call[u].target] # "owner"
  PROVE  TrustInvariant'
  <1>1. Inside' = Inside /\ Holders("owner")' = Holders("owner")
    BY DEF Inside, Holders
  <1>2. ASSUME NEW v \in Users \ {u} PROVE Trusted(v)'
    BY <1>1, <1>2 DEF TrustInvariant, Trusted, MayLeave
  <1>3. Trusted(u)'
    BY <1>1 DEF TrustInvariant, Trusted, MayLeave
  <1> QED
    BY <1>2, <1>3 DEF TrustInvariant

LEMMA TrustStep ==
  ASSUME GovernanceTypeOK, AdmissionInvariant, TrustInvariant, [Next]_svars
  PROVE  TrustInvariant'
  <1>1. ASSUME NEW u \in Users, AskAny(u) PROVE TrustInvariant'
    <2>1. call'[u].op = "accept" \/ call'[u].pc \in {"caller", "rejoin"}
      BY <1>1, AskAnyStep
    <2> QED
      BY <1>1, <2>1, AskAnyStep, QuietTrust
  <1>2. ASSUME NEW u \in Users, UNCHANGED member, Refuse(u) PROVE TrustInvariant'
    BY <1>2, RefuseStep, QuietTrust
  <1>3. ASSUME NEW u \in Users, call' = Overtake(u) PROVE TrustInvariant'
    BY <1>3, OvertakeStep, OvertakenTrust
  <1>4. ASSUME NEW u \in Users, Step(u) PROVE TrustInvariant'
    <2>1. CASE Rejoin(u)
      BY <2>1, RejoinStep, OvertakenTrust
    <2>2. CASE GetUserRole(u)
      <3>1. \/ call'[u].pc = "idle"
            \/ call'[u].op \notin {"leave", "role", "remove"}
            \/ call'[u].pc = "target" /\ call'[u].acting = member[u]
        BY <2>2, GetUserRoleStep
      <3> QED
        BY <2>2, <3>1, GetUserRoleStep, QuietTrust
    <2>3. CASE Examine(u)
      BY <2>3, ExamineStep, QuietTrust
    <2>4. CASE LeaveSpace(u) \/ AddMember(u) \/ RemoveMember(u)
      BY <2>4, <1>3, LeaveStep, AddStep, RemoveStep
    <2>5. CASE TransferOwnership(u) \/ AcceptInviteAndJoin(u)
      BY <2>5, <1>2, <1>3, TransferStep, AcceptStep
    <2>6. CASE CreateInvite(u) \/ RevokeInvite(u)
      BY <2>6, <1>2, CreateStep, RevokeStep
    <2>7. CASE ReadInvite(u)
      BY <2>7, ReadStep, QuietTrust
    <2> QED
      BY <1>4, <2>1, <2>2, <2>3, <2>4, <2>5, <2>6, <2>7 DEF Step
  <1>5. ASSUME UNCHANGED <<member, call>> PROVE TrustInvariant'
    BY <1>5 DEF TrustInvariant, Trusted, MayLeave, Inside, Holders
  <1>6. ASSUME NEW i \in Invites, Expire(i) PROVE TrustInvariant'
    BY <1>6, <1>5, ExpireStep
  <1> QED
    BY <1>1, <1>4, <1>5, <1>6 DEF Next, svars

-----------------------------------------------------------------------------
(* Who may be the last owner to go.                                        *)
Unowned == Holders("owner") # {} /\ Holders("owner")' = {}

(* Somebody who leaves with nobody having changed a membership meanwhile   *)
(* is not the last owner, or leaves nobody behind.                         *)
LEMMA LeaveKeepsOwner ==
  ASSUME GovernanceTypeOK, TrustInvariant, NEW u \in Users, LeaveSpace(u),
         call[u].fresh, Unowned
  PROVE  Inside' = {}
  <1>1. call[u].pc = "write" /\ call[u].op = "leave" /\ member' = [member EXCEPT ![u] = None]
    BY DEF LeaveSpace, Write
  <1>2. member'[u] = None /\ \A v \in Users \ {u} : member'[v] = member[v]
    BY <1>1 DEF GovernanceTypeOK
  <1>3. Holders("owner") \subseteq {u} /\ u \in Holders("owner")
    BY <1>2 DEF Unowned, Holders
  <1>4. Holders("owner") = {u}
    BY <1>3
  <1>5. Cardinality(Holders("owner")) = 1
    BY <1>4, FS_Singleton
  <1>6. call[u].acting = "owner" /\ MayLeave(u)
    <2>1. call[u].acting = member[u] /\ MayLeave(u)
      BY <1>1 DEF TrustInvariant, Trusted
    <2> QED
      BY <1>3, <2>1 DEF Holders
  <1>7. ~(Cardinality(Inside) > 1)
    BY <1>5, <1>6 DEF MayLeave
  <1>8. IsFiniteSet(Inside) /\ u \in Inside
    <2>1. Inside \subseteq Users
      BY DEF Inside
    <2>2. IsFiniteSet(Inside)
      BY <2>1, FS_Subset, GovernanceAssumption
    <2>3. None # "owner"
      BY GovernanceAssumption DEF Roles
    <2> QED
      BY <1>3, <2>2, <2>3 DEF Inside, Holders
  <1>9. Inside \subseteq {u}
    <2>1. Cardinality(Inside) \in Nat
      BY <1>8, FS_CardinalityType
    <2>2. Cardinality(Inside) # 0
      BY <1>8, FS_EmptySet
    <2>3. Cardinality(Inside) = 1
      BY <1>7, <2>1, <2>2
    <2> QED
      BY <1>8, <2>3, FS_Singleton
  <1> QED
    BY <1>2, <1>9 DEF Inside

(* A write to one user takes the last owner only from that user.           *)
LEMMA OtherOwnersStay ==
  ASSUME GovernanceTypeOK, NEW t, NEW r, member' = [member EXCEPT ![t] = r], Unowned
  PROVE  t \in Users /\ member[t] = "owner" /\ r # "owner"
  BY DEF GovernanceTypeOK, Unowned, Holders

LEMMA OwnerStep ==
  ASSUME GovernanceTypeOK, AdmissionInvariant, TrustInvariant, [Next]_svars, Unowned
  PROVE  \/ Inside' = {}
         \/ \E u \in Users : /\ call[u].pc = "write" /\ call'[u].pc = "idle"
                             /\ ~call[u].fresh \/ call[u].op = "add"
  <1> DEFINE Excused == \/ Inside' = {}
                        \/ \E u \in Users : /\ call[u].pc = "write" /\ call'[u].pc = "idle"
                                            /\ ~call[u].fresh \/ call[u].op = "add"
  <1>1. ~UNCHANGED member
    BY DEF Unowned, Holders
  <1>2. \A u \in Users : ~AskAny(u)
    BY <1>1, AskAnyStep
  <1>3. \A i \in Invites : ~Expire(i)
    BY <1>1, ExpireStep
  <1>4. ~UNCHANGED svars
    BY <1>1 DEF svars
  <1>5. PICK u \in Users : Step(u)
    BY <1>2, <1>3, <1>4 DEF Next
  <1>6. CASE Rejoin(u)
    BY <1>6, RejoinStep, OtherOwnersStay
  <1>7. CASE GetUserRole(u) \/ Examine(u) \/ CreateInvite(u) \/ ReadInvite(u) \/ RevokeInvite(u)
    BY <1>1, <1>7, GetUserRoleStep, ExamineStep, CreateStep, ReadStep, RevokeStep
  <1>8. CASE LeaveSpace(u)
    <2>1. call[u].pc = "write" /\ call'[u].pc = "idle"
      BY <1>8, LeaveStep, OvertakeStep DEF LeaveSpace, Write
    <2>2. CASE call[u].fresh
      BY <1>8, <2>2, LeaveKeepsOwner
    <2>3. CASE ~call[u].fresh
      BY <2>1, <2>3
    <2> QED
      BY <2>2, <2>3
  <1>9. CASE AddMember(u) \/ RemoveMember(u)
    <2>1. /\ call[u].pc = "write" /\ call'[u].pc = "idle"
          /\ call[u].op \in {"add", "role", "remove"}
      BY <1>9, AddStep, RemoveStep, OvertakeStep DEF AddMember, RemoveMember, Write
    <2>2. member[call[u].target] = "owner"
      BY <1>9, OtherOwnersStay DEF AddMember, RemoveMember
    <2>3. call[u].fresh => call[u].op = "add"
      BY <2>1, <2>2 DEF TrustInvariant, Trusted
    <2> QED
      BY <2>1, <2>3
  <1>10. CASE TransferOwnership(u)
    <2>1. /\ call[u].op = "transfer" /\ call[u].pc = "write"
          /\ member' = [member EXCEPT ![call[u].target] = "owner", ![u] = "admin"]
      BY <1>1, <1>10 DEF TransferOwnership, Write
    <2>2. call[u].target \in Users /\ call[u].target # u
      BY <2>1 DEF AdmissionInvariant, WellAsked
    <2>3. member'[call[u].target] = "owner"
      BY <2>1, <2>2 DEF GovernanceTypeOK
    <2> QED
      BY <2>2, <2>3 DEF Unowned, Holders
  <1>11. CASE AcceptInviteAndJoin(u)
    <2>1. \A v \in Users : member[v] = "owner" => member'[v] = "owner"
      BY <1>1, <1>11, AcceptStep
    <2> QED
      BY <2>1 DEF Unowned, Holders
  <1> QED
    BY <1>5, <1>6, <1>7, <1>8, <1>9, <1>10, <1>11 DEF Step

-----------------------------------------------------------------------------
(* The calls of services/space_service.py keep memberships and invites     *)
(* well formed, and what a call read holds until another call writes.      *)
THEOREM GovernanceCorrect == Spec => [](GovernanceTypeOK /\ AdmissionInvariant /\ TrustInvariant)
  <1>1. Init => GovernanceTypeOK /\ AdmissionInvariant /\ TrustInvariant
    <2>1. Init => TrustInvariant
      BY DEF Init, NoCall, TrustInvariant, Trusted
    <2> QED
      BY <2>1, InitTypeOK, InitAdmission
  <1>2. GovernanceTypeOK /\ AdmissionInvariant /\ TrustInvariant /\ [Next]_svars
          => (GovernanceTypeOK /\ AdmissionInvariant /\ TrustInvariant)'
    BY AdmissionStep, TrustStep
  <1> QED
    BY <1>1, <1>2, PTL DEF Spec

(* An invite lets in no more users than its max_uses, however its          *)
(* acceptances and revocations interleave (accept_invite, save_invite).    *)
THEOREM InvitesAreBounded == Spec => []AdmissionsAreBounded
  <1>1. AdmissionInvariant => AdmissionsAreBounded
    BY DEF AdmissionInvariant, Counted, AdmissionsAreBounded
  <1> QED
    BY <1>1, GovernanceCorrect, PTL

(* A revoked or spent invite lets nobody in any more.                      *)
THEOREM RevokedForGood == Spec => RevocationIsFinal
  <1>1. GovernanceTypeOK /\ AdmissionInvariant /\ [Next]_svars
          => [\A i \in Invites : invite[i].revoked =>
                 invite'[i].revoked /\ admitted'[i] = admitted[i]]_svars
    BY AdmissionStep
  <1> QED
    BY <1>1, GovernanceCorrect, PTL DEF Spec, RevocationIsFinal

(* Only a write that another call overtook, or a direct add, takes the     *)
(* last owner from a space with members: one after the other, leave_space, *)
(* update_role, remove_member, transfer and accept leave an owner.         *)
THEOREM OwnersRemain == Spec => OwnerRemains
  <1>1. GovernanceTypeOK /\ AdmissionInvariant /\ TrustInvariant /\ [Next]_svars
          => [Holders("owner") # {} /\ Holders("owner")' = {} =>
                \/ Inside' = {}
                \/ \E u \in Users : /\ call[u].pc = "write" /\ call'[u].pc = "idle"
                                    /\ ~call[u].fresh \/ call[u].op = "add"]_svars
    BY OwnerStep DEF Unowned
  <1> QED
    BY <1>1, GovernanceCorrect, PTL DEF Spec, OwnerRemains
=============================================================================
