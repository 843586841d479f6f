------------------------------ MODULE Membership ------------------------------
(***************************************************************************)
(* The members of one organization: requests of its admins that change a   *)
(* role or remove a member, and the access dialog of the organization page *)
(* of one of them, `Me`, which saves a role and an access in two requests  *)
(* and decides from a cached row whether the first is needed.              *)
(***************************************************************************)
EXTENDS Naturals, FiniteSets

CONSTANTS Person, NoPerson,
          Me,                 \* the admin with the page
          FirstRoles,         \* the roles at the start
          MaxMembershipEvents \* bound: requests begun, dialogs opened and saved, together

ASSUME PersonAssumption == IsFiniteSet(Person) /\ Me \in Person /\ NoPerson \notin Person
ASSUME FirstRolesAssumption == /\ FirstRoles \in [Person -> {"owner", "admin", "member"}]
                               /\ \E p \in Person : FirstRoles[p] = "owner"
ASSUME MembershipEventsAssumption == MaxMembershipEvents \in Nat

Role == {"owner", "admin", "member"}
Access == {"all", "custom"}

VARIABLES memberRole,    \* person -> role, or "none" for who is not a member
          memberAccess,  \* person -> access to boards
          changes,       \* requests in flight that change a role or remove a member
          activeMember,  \* activeMemberId, of the access dialog
          memberDetails, \* person -> the row cached for the dialog: none or one
          detailsFetch,  \* the fetch of that row: none or one
          accessSave,    \* handleSaveAccess
          saved,         \* history: person -> what the last save that succeeded asked
          membershipEvents,
          demoted,       \* history: an owner's role was changed
          overlapped     \* history: an owner was removed after a count that was old by then

membershipVars == <<memberRole, memberAccess, changes, activeMember, memberDetails,
                    detailsFetch, accessSave, saved, membershipEvents, demoted, overlapped>>
-------------------------------------------------------------------------------
Owners == {p \in Person : memberRole[p] = "owner"}
IsOrgAdmin(p) == memberRole[p] \in {"owner", "admin"}
IsMember(p) == memberRole[p] \in Role

NoSave == [phase |-> "idle", p |-> NoPerson, role |-> "member", access |-> "all", excused |-> FALSE]
MembershipEvent == membershipEvents < MaxMembershipEvents /\ membershipEvents' = membershipEvents + 1

MembershipInit ==
    /\ memberRole = FirstRoles
    /\ memberAccess = [p \in Person |-> "all"]
    /\ changes = {}
    /\ activeMember = NoPerson
    /\ memberDetails = [p \in Person |-> {}]
    /\ detailsFetch = {}
    /\ accessSave = NoSave
    /\ saved = [p \in Person |-> {}]
    /\ membershipEvents = 0
    /\ demoted = FALSE
    /\ overlapped = FALSE

\* Another change of p: what was saved for p need not hold any more.
Supersede(p) ==
    /\ saved' = [saved EXCEPT ![p] = {}]
    /\ accessSave' = IF accessSave.p = p THEN [accessSave EXCEPT !.excused = TRUE] ELSE accessSave
-------------------------------------------------------------------------------
\* update_org_member and remove_org_member: the caller's role and the member's row
\* are read, nothing is locked.
BeginChange(by, kind, p, role) ==
    /\ MembershipEvent
    /\ IsOrgAdmin(by) /\ IsMember(p)
    /\ kind = "remove" => p # by /\ (memberRole[p] = "owner" => memberRole[by] = "owner")
    /\ changes' = changes \cup {[id |-> membershipEvents, by |-> by, kind |-> kind, p |-> p,
                                 role |-> role, was |-> memberRole[p], owners |-> {},
                                 ready |-> kind = "role" \/ memberRole[p] # "owner"]}

OtherChanges(by, kind, p, role) ==
    /\ by # Me
    /\ BeginChange(by, kind, p, role)
    /\ UNCHANGED <<memberRole, memberAccess, activeMember, memberDetails, detailsFetch,
                   accessSave, saved, demoted, overlapped>>

\* handleRemoveMember: whether the member may be removed is read from the cached row.
HandleRemoveMember ==
    /\ activeMember # NoPerson /\ activeMember # Me
    /\ \E row \in memberDetails[activeMember] : row.role = "owner" => memberRole[Me] = "owner"
    /\ BeginChange(Me, "remove", activeMember, "member")
    /\ UNCHANGED <<memberRole, memberAccess, activeMember, memberDetails, detailsFetch,
                   accessSave, saved, demoted, overlapped>>

\* Variant: the owners are listed and not counted.
CountOwnersOnly(c) ==
    /\ c \in changes /\ ~c.ready
    /\ changes' = (changes \ {c}) \cup {[c EXCEPT !.ready = TRUE, !.owners = Owners]}
    /\ UNCHANGED <<memberRole, memberAccess, activeMember, memberDetails, detailsFetch,
                   accessSave, saved, membershipEvents, demoted, overlapped>>

\* The last owner is not removed, as far as this count tells.
CountOwners(c) ==
    /\ c \in changes /\ ~c.ready
    /\ changes' = (changes \ {c}) \cup (IF Cardinality(Owners) <= 1 THEN {}
                                        ELSE {[c EXCEPT !.ready = TRUE, !.owners = Owners]})
    /\ UNCHANGED <<memberRole, memberAccess, activeMember, memberDetails, detailsFetch,
                   accessSave, saved, membershipEvents, demoted, overlapped>>

\* The row is written only if the role differs from the one read, and if it is there.
CommitRole(c) ==
    /\ c \in changes /\ c.ready /\ c.kind = "role"
    /\ changes' = changes \ {c}
    /\ IF IsMember(c.p) /\ c.role # c.was
       THEN /\ memberRole' = [memberRole EXCEPT ![c.p] = c.role]
            /\ demoted' = (demoted \/ (memberRole[c.p] = "owner" /\ c.role # "owner"))
            /\ Supersede(c.p)
       ELSE UNCHANGED <<memberRole, demoted, saved, accessSave>>
    /\ UNCHANGED <<memberAccess, activeMember, memberDetails, detailsFetch, membershipEvents,
                   overlapped>>

\* The page closes its dialog when its own removal is answered.
CommitRemoval(c) ==
    /\ c \in changes /\ c.ready /\ c.kind = "remove"
    /\ changes' = changes \ {c}
    /\ memberRole' = [memberRole EXCEPT ![c.p] = "none"]
    /\ overlapped' = (overlapped \/ (c.p \in Owners /\ c.owners # Owners))
    /\ activeMember' = IF c.by = Me THEN NoPerson ELSE activeMember
    /\ Supersede(c.p)
    /\ UNCHANGED <<memberAccess, memberDetails, detailsFetch, membershipEvents, demoted>>
-------------------------------------------------------------------------------
\* openAccessDialog; the cached row, if any, shows at once.
OpenAccessDialog(p) ==
    /\ MembershipEvent
    /\ activeMember = NoPerson
    /\ activeMember' = p
    /\ UNCHANGED <<memberRole, memberAccess, changes, memberDetails, detailsFetch, accessSave,
                   saved, demoted, overlapped>>

CloseAccessDialog ==
    /\ activeMember # NoPerson
    /\ activeMember' = NoPerson
    /\ UNCHANGED <<memberRole, memberAccess, changes, memberDetails, detailsFetch, accessSave,
                   saved, membershipEvents, demoted, overlapped>>

\* memberDetailsQuery: read on the server, then cached.
DetailsRead ==
    /\ detailsFetch = {}
    /\ activeMember # NoPerson /\ IsMember(activeMember)
    /\ detailsFetch' = {[p |-> activeMember, role |-> memberRole[activeMember]]}
    /\ UNCHANGED <<memberRole, memberAccess, changes, activeMember, memberDetails, accessSave,
                   saved, membershipEvents, demoted, overlapped>>

DetailsAnswered ==
    /\ \E row \in detailsFetch :
          memberDetails' = [memberDetails EXCEPT ![row.p] = {row}]
    /\ detailsFetch' = {}
    /\ UNCHANGED <<memberRole, memberAccess, changes, activeMember, accessSave, saved,
                   membershipEvents, demoted, overlapped>>

\* handleSaveAccess: the role is sent only if it differs from the cached row's.
HandleSaveAccess(role, access) ==
    /\ MembershipEvent
    /\ accessSave.phase = "idle"
    /\ activeMember # NoPerson
    /\ \E row \in memberDetails[activeMember] :
          accessSave' = [phase |-> IF row.role # role THEN "role" ELSE "access",
                         p |-> activeMember, role |-> role, access |-> access,
                         excused |-> row.role # memberRole[activeMember]]
    /\ saved' = [saved EXCEPT ![activeMember] = {}]
    /\ UNCHANGED <<memberRole, memberAccess, changes, activeMember, memberDetails,
                   detailsFetch, demoted, overlapped>>

\* updateMemberRoleMutation, awaited: the server takes the role, and the answer comes
\* back or the save ends here.
SaveRole ==
    /\ accessSave.phase = "role"
    /\ IsOrgAdmin(Me) /\ IsMember(accessSave.p)
    /\ memberRole' = [memberRole EXCEPT ![accessSave.p] = accessSave.role]
    /\ demoted' = (demoted \/ (accessSave.p \in Owners /\ accessSave.role # "owner"))
    /\ \/ accessSave' = [accessSave EXCEPT !.phase = "access"]
       \/ accessSave' = NoSave
    /\ UNCHANGED <<memberAccess, changes, activeMember, memberDetails, detailsFetch, saved,
                   membershipEvents, overlapped>>

\* updateMemberAccessMutation: what was saved holds from here on.
SaveAccess ==
    /\ accessSave.phase = "access"
    /\ IsOrgAdmin(Me) /\ IsMember(accessSave.p)
    /\ memberAccess' = [memberAccess EXCEPT ![accessSave.p] = accessSave.access]
    /\ \/ /\ activeMember' = NoPerson
          /\ saved' = [saved EXCEPT ![accessSave.p] = {accessSave}]
       \/ UNCHANGED <<activeMember, saved>>
    /\ accessSave' = NoSave
    /\ UNCHANGED <<memberRole, changes, memberDetails, detailsFetch, membershipEvents, demoted,
                   overlapped>>

\* Variant: the access is sent whatever becomes of the role.
SaveRefusedGoesOn ==
    /\ accessSave.phase \in {"role", "access"}
    /\ accessSave' = IF accessSave.phase = "role" THEN [accessSave EXCEPT !.phase = "access"]
                                                  ELSE NoSave
    /\ UNCHANGED <<memberRole, memberAccess, changes, activeMember, memberDetails,
                   detailsFetch, saved, membershipEvents, demoted, overlapped>>

\* Either request refused or lost: the error is shown, the dialog stays, and so does
\* what the first one did.
SaveRefused ==
    /\ accessSave.phase \in {"role", "access"}
    /\ accessSave' = NoSave
    /\ UNCHANGED <<memberRole, memberAccess, changes, activeMember, memberDetails,
                   detailsFetch, saved, membershipEvents, demoted, overlapped>>

MembershipNext ==
    \/ \E by, p \in Person : \/ \E role \in Role : OtherChanges(by, "role", p, role)
                             \/ OtherChanges(by, "remove", p, "member")
    \/ HandleRemoveMember
    \/ \E c \in changes : CountOwners(c) \/ CommitRole(c) \/ CommitRemoval(c)
    \/ \E p \in Person : OpenAccessDialog(p)
    \/ CloseAccessDialog
    \/ DetailsRead \/ DetailsAnswered
    \/ \E role \in Role, access \in Access : HandleSaveAccess(role, access)
    \/ SaveRole \/ SaveAccess \/ SaveRefused

MembershipSpec == MembershipInit /\ [][MembershipNext]_membershipVars
-------------------------------------------------------------------------------
SaveType == [phase : {"idle", "role", "access"}, p : Person \cup {NoPerson}, role : Role,
             access : Access, excused : BOOLEAN]

MembershipTypeOK ==
    /\ memberRole \in [Person -> Role \cup {"none"}]
    /\ memberAccess \in [Person -> Access]
    /\ changes \subseteq [id : Nat, by : Person, kind : {"role", "remove"}, p : Person,
                          role : Role, was : Role, owners : SUBSET Person, ready : BOOLEAN]
    /\ activeMember \in Person \cup {NoPerson}
    /\ memberDetails \in [Person -> SUBSET [p : Person, role : Role]]
    /\ detailsFetch \subseteq [p : Person, role : Role]
    /\ accessSave \in SaveType
    /\ saved \in [Person -> SUBSET SaveType]
    /\ membershipEvents \in Nat
    /\ demoted \in BOOLEAN /\ overlapped \in BOOLEAN

\* The organization keeps an owner, unless one was given another role (which
\* update_org_member allows even of the last) or removed on a count that was old by
\* then: two removals may each count the other's owner.
SomeOwnerRemains == Owners # {} \/ demoted \/ overlapped

\* A save that was reported to have succeeded holds, role and access, until the
\* member is changed again, unless the cached row was old when the save looked at
\* it or another change came in between.
SavedAccessHolds ==
    \A p \in Person : \A s \in saved[p] :
        s.excused \/ (memberRole[p] = s.role /\ memberAccess[p] = s.access)
===============================================================================
