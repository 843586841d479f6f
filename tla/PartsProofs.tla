------------------------------ MODULE PartsProofs ------------------------------
(***************************************************************************)
(* What holds of three small components, each a specification of its own:  *)
(* the optimistic deletions of a list, for every list and every number of  *)
(* overlapping deletions and fetches; the members of an organization, for  *)
(* every organization and any number of requests; and the tasks of a board *)
(* under overlapping updates, for every board and every set of agents.     *)
(*                                                                         *)
(* The last part is about MCParts, which puts these and the components of  *)
(* the other proof modules side by side: each of them behaves there as its *)
(* own specification allows, so what is proved of it holds there too.      *)
(***************************************************************************)
EXTENDS MCParts, PageProofs, BoardPageProofs, DependencyGraphProofs

-----------------------------------------------------------------------------
(***************************************************************************)
(* Deletions from a list.                                                  *)
(***************************************************************************)
\* The deletions in flight are of different items, and each has seen the fetch in
\* flight begin: a deletion cancels the fetches from before it.
DeletionsApart ==
    \A d, e \in deletions :
        /\ d.item = e.item => d = e
        /\ fetch.phase # "idle" => d.refetched

\* Rows read with no deletion in flight are the server's until one is.
RowsAreStored == deletions = {} /\ fetch.phase = "read" => fetch.rows = stored

ListInv == /\ ListTypeOK /\ DeletionsApart /\ RowsAreStored
           /\ DeletingIsHidden /\ ListSettles

Deletion == [item : Item, found : SUBSET Item, phase : {"sent", "served"}, ok : BOOLEAN,
             refetched : BOOLEAN]
-------------------------------------------------------------------------------
\* The list starts as the server's, with nothing in flight.
LEMMA ListInitOK == ListInit => ListInv
<1> SUFFICES ASSUME ListInit PROVE ListInv
  OBVIOUS
<1> USE DEF ListInit, NoFetch
<1>1. ListTypeOK
  <2>1. fetchFailed \in BOOLEAN
    OBVIOUS
  <2>2. fetch \in [phase : {"idle", "sent", "read"}, rows : SUBSET Item]
    OBVIOUS
  <2> QED BY <2>1, <2>2 DEF ListTypeOK
<1>2. DeletionsApart /\ DeletingIsHidden
  BY DEF DeletionsApart, DeletingIsHidden
<1>3. RowsAreStored /\ ListSettles
  BY DEF RowsAreStored, ListSettles
<1> QED BY <1>1, <1>2, <1>3 DEF ListInv

\* The deletions left when a fetch begins: the same, each having seen it begin.
LEMMA Refetched ==
  ASSUME NEW left \in SUBSET deletions, deletions \subseteq Deletion, DeletionsApart,
         Refetch(left)
  PROVE  /\ deletions' \subseteq Deletion
         /\ fetch' = [phase |-> "sent", rows |-> {}]
         /\ DeletionsApart'
         /\ \A e \in deletions' : \E d \in left : e.item = d.item
<1>1. \A d \in left : LET e == [d EXCEPT !.refetched = TRUE]
                      IN  e \in Deletion /\ e.item = d.item /\ e.refetched
  BY DEF Deletion
<1>2. \A e \in deletions' : \E d \in left : e = [d EXCEPT !.refetched = TRUE]
  BY DEF Refetch
<1>3. \A e \in deletions' : e \in Deletion /\ e.refetched /\ \E d \in left : e.item = d.item
  BY <1>1, <1>2
<1>4. ASSUME NEW e \in deletions', NEW f \in deletions', e.item = f.item PROVE e = f
  <2>1. PICK c \in left : e = [c EXCEPT !.refetched = TRUE]
    BY <1>2
  <2>2. PICK d \in left : f = [d EXCEPT !.refetched = TRUE]
    BY <1>2
  <2>3. c.item = d.item
    BY <1>1, <1>4, <2>1, <2>2
  <2>4. c = d
    BY <2>3 DEF DeletionsApart
  <2> QED BY <2>1, <2>2, <2>4
<1> QED
  BY <1>3, <1>4 DEF DeletionsApart, Refetch
-------------------------------------------------------------------------------
\* The interval's fetch.
LEMMA IntervalFetchStep == ListInv /\ IntervalFetch => ListInv'
<1> SUFFICES ASSUME ListInv, IntervalFetch PROVE ListInv'
  OBVIOUS
<1> USE DEF ListInv, ListTypeOK, IntervalFetch
<1>1. /\ deletions' \subseteq Deletion
      /\ fetch' = [phase |-> "sent", rows |-> {}]
      /\ DeletionsApart'
      /\ \A e \in deletions' : \E d \in deletions : e.item = d.item
  BY Refetched DEF Deletion
<1>2. ListTypeOK'
  BY <1>1 DEF Deletion
<1>3. DeletingIsHidden'
  BY <1>1 DEF DeletingIsHidden
<1>4. RowsAreStored' /\ ListSettles'
  BY <1>1 DEF RowsAreStored, ListSettles
<1> QED BY <1>1, <1>2, <1>3, <1>4

\* The fetch on the server, its answer and its failure.
LEMMA FetchStep == ListInv /\ (FetchRead \/ FetchAnswered \/ FetchFails) => ListInv'
<1> SUFFICES ASSUME ListInv, FetchRead \/ FetchAnswered \/ FetchFails PROVE ListInv'
  OBVIOUS
<1> USE DEF ListInv, ListTypeOK
<1>1. CASE FetchRead
  BY <1>1 DEF FetchRead, DeletionsApart, RowsAreStored, DeletingIsHidden, ListSettles
<1>2. CASE FetchFails
  BY <1>2 DEF FetchFails, NoFetch, DeletionsApart, RowsAreStored, DeletingIsHidden, ListSettles
<1>3. CASE FetchAnswered
  <2> USE DEF FetchAnswered, NoFetch
  <2>1. ListTypeOK' /\ DeletionsApart' /\ RowsAreStored'
    BY <1>3 DEF DeletionsApart, RowsAreStored
  <2>2. ListSettles'
    BY <1>3 DEF RowsAreStored, ListSettles
  <2>3. ASSUME NEW d \in deletions', d.item \in cached' PROVE d.item \in restored'
    <3>1. d \in deletions /\ d.refetched /\ d.item \in fetch.rows
      BY <1>3, <2>3 DEF DeletionsApart
    <3> QED BY <1>3, <3>1
  <2> QED BY <2>1, <2>2, <2>3 DEF DeletingIsHidden
<1> QED BY <1>1, <1>2, <1>3

\* A deletion begins: it hides its item, and no fetch is left from before.
LEMMA OnMutateStep ==
  ASSUME NEW i \in Item, ListInv, OnMutate(i) PROVE ListInv'
<1> USE DEF ListInv, ListTypeOK, OnMutate
<1> DEFINE new == [item |-> i, found |-> cached, phase |-> "sent", ok |-> FALSE,
                   refetched |-> FALSE]
<1>1. new \in Deletion /\ new.item = i
  BY DEF Deletion
<1>2. fetch' = NoFetch /\ deletions' = deletions \cup {new} /\ \A d \in deletions : d.item # i
  BY DEF Deleting
<1>3. ListTypeOK'
  <2>1. NoFetch \in [phase : {"idle", "sent", "read"}, rows : SUBSET Item]
    BY DEF NoFetch
  <2>2. deletions' \subseteq Deletion
    BY <1>1, <1>2 DEF Deletion
  <2> QED BY <1>2, <2>1, <2>2 DEF Deletion
<1>4. DeletionsApart'
  <2>1. fetch'.phase = "idle"
    BY <1>2 DEF NoFetch
  <2>2. ASSUME NEW d \in deletions', NEW e \in deletions', d.item = e.item PROVE d = e
    BY <1>1, <1>2, <2>2 DEF DeletionsApart
  <2> QED BY <2>1, <2>2 DEF DeletionsApart
<1>5. DeletingIsHidden'
  BY <1>1, <1>2 DEF DeletingIsHidden
<1>6. RowsAreStored' /\ ListSettles'
  BY <1>2 DEF RowsAreStored, ListSettles
<1> QED BY <1>3, <1>4, <1>5, <1>6

\* The server's answer to a deletion.
LEMMA ServeDeletionStep ==
  ASSUME NEW d \in deletions, ListInv, ServeDeletion(d) PROVE ListInv'
<1> USE DEF ListInv, ListTypeOK
<1>1. PICK done \in BOOLEAN, ok \in BOOLEAN :
        /\ stored' = IF done THEN stored \ {d.item} ELSE stored
        /\ deletions' = (deletions \ {d}) \cup {[d EXCEPT !.phase = "served", !.ok = ok]}
  BY DEF ServeDeletion
<1> DEFINE served == [d EXCEPT !.phase = "served", !.ok = ok]
<1>2. served \in Deletion /\ served.item = d.item /\ served.refetched = d.refetched
  BY DEF Deletion
<1>3. UNCHANGED <<cached, fetch, refetches, fetchFailed, restored>>
  BY DEF ServeDeletion
<1>4. ListTypeOK'
  BY <1>1, <1>2, <1>3 DEF Deletion
<1>5. DeletionsApart'
  <2>1. ASSUME NEW c \in deletions', NEW e \in deletions', c.item = e.item PROVE c = e
    <3>1. \A x \in deletions' : x = served \/ (x \in deletions /\ x # d)
      BY <1>1
    <3>2. \A x \in deletions : x.item = d.item => x = d
      BY DEF DeletionsApart
    <3>3. \A x \in deletions' : x.item = d.item => x = served
      BY <1>2, <3>1, <3>2
    <3>4. CASE c.item = d.item
      BY <2>1, <3>3, <3>4
    <3>5. CASE c.item # d.item
      BY <1>2, <2>1, <3>1, <3>5 DEF DeletionsApart
    <3> QED BY <3>4, <3>5
  <2>2. ASSUME NEW c \in deletions', fetch'.phase # "idle" PROVE c.refetched
    <3>1. c = served \/ c \in deletions
      BY <1>1
    <3> QED BY <1>2, <1>3, <2>2, <3>1 DEF DeletionsApart
  <2> QED BY <2>1, <2>2 DEF DeletionsApart
<1>6. DeletingIsHidden'
  BY <1>1, <1>2, <1>3 DEF DeletingIsHidden
<1>7. RowsAreStored' /\ ListSettles'
  BY <1>1 DEF RowsAreStored, ListSettles
<1> QED BY <1>4, <1>5, <1>6, <1>7

\* A deletion ends: the list it leaves is fetched again.
LEMMA DeletionEnds ==
  ASSUME NEW d \in deletions, ListInv, DeletionSucceeds(d) \/ DeletionFails(d) PROVE ListInv'
<1> USE DEF ListInv, ListTypeOK
<1>1. Refetch(deletions \ {d})
  BY DEF DeletionSucceeds, DeletionFails
<1>2. /\ deletions' \subseteq Deletion
      /\ fetch' = [phase |-> "sent", rows |-> {}]
      /\ DeletionsApart'
      /\ \A e \in deletions' : \E c \in deletions \ {d} : e.item = c.item
  BY <1>1, Refetched DEF Deletion
<1>3. RowsAreStored' /\ ListSettles'
  BY <1>2 DEF RowsAreStored, ListSettles
<1>4. CASE DeletionSucceeds(d)
  <2>1. ListTypeOK'
    BY <1>2, <1>4 DEF DeletionSucceeds, Deletion
  <2>2. DeletingIsHidden'
    BY <1>2, <1>4 DEF DeletionSucceeds, DeletingIsHidden
  <2> QED BY <1>2, <1>3, <2>1, <2>2
<1>5. CASE DeletionFails(d)
  <2>1. /\ cached' = d.found
        /\ restored' = restored \cup (d.found \cap (Deleting \ {d.item}))
        /\ UNCHANGED <<stored, refetches, fetchFailed>>
    BY <1>5 DEF DeletionFails
  <2>2. Deleting \subseteq Item
    BY DEF Deleting
  <2>3. ListTypeOK'
    BY <1>2, <2>1, <2>2 DEF Deletion
  <2>4. ASSUME NEW e \in deletions', e.item \in cached' PROVE e.item \in restored'
    <3>1. PICK c \in deletions \ {d} : e.item = c.item
      BY <1>2
    <3>2. c.item # d.item
      BY DEF DeletionsApart
    <3>3. c.item \in Deleting
      BY DEF Deleting
    <3> QED BY <2>1, <2>4, <3>1, <3>2, <3>3
  <2>5. DeletingIsHidden'
    BY <2>4 DEF DeletingIsHidden
  <2> QED BY <1>2, <1>3, <2>3, <2>5
<1> QED BY <1>4, <1>5
-------------------------------------------------------------------------------
\* The parts of the invariant together.
THEOREM ListInvariant == ListSpec => []ListInv
<1>1. ListInit => ListInv
  BY ListInitOK
<1>2. ListInv /\ [ListNext]_listVars => ListInv'
  <2> SUFFICES ASSUME ListInv, [ListNext]_listVars PROVE ListInv'
    OBVIOUS
  <2>1. CASE ListNext
    BY <2>1, IntervalFetchStep, FetchStep, OnMutateStep, ServeDeletionStep, DeletionEnds
    DEF ListNext
  <2>2. CASE UNCHANGED listVars
    BY <2>2 DEF listVars, ListInv, ListTypeOK, DeletionsApart, RowsAreStored,
                DeletingIsHidden, ListSettles
  <2> QED BY <2>1, <2>2
<1> QED
  BY <1>1, <1>2, PTL DEF ListSpec

\* However deletions and fetches overlap and fail, the cached list, the server's and
\* the deletions in flight are of their types (createOptimisticListDeleteMutation).
THEOREM ListTypeCorrect == ListSpec => []ListTypeOK
<1>1. ListInv => ListTypeOK
  BY DEF ListInv
<1> QED
  BY <1>1, ListInvariant, PTL

\* For any number of deletions in flight: an item being deleted is not listed, unless
\* the failure of another or a fetch begun later put it back (onMutate, onError).
THEOREM DeletingHidden == ListSpec => []DeletingIsHidden
<1>1. ListInv => DeletingIsHidden
  BY DEF ListInv
<1> QED
  BY <1>1, ListInvariant, PTL

\* For any number of deletions, in any order of their failures: when the last ends and
\* its fetch is answered, the list is the server's (onSettled invalidates the query).
THEOREM ListIsServers == ListSpec => []ListSettles
<1>1. ListInv => ListSettles
  BY DEF ListInv
<1> QED
  BY <1>1, ListInvariant, PTL

-----------------------------------------------------------------------------
(***************************************************************************)
(* The members of an organization.                                         *)
(***************************************************************************)
\* Owners named by a count are at least two: CountOwners lets no other pass.
OwnersCounted == \A c \in changes : c.owners = {} \/ Cardinality(c.owners) > 1

\* A save whose access is to be sent has its role in place, and nothing saved
\* before stands for a member whose save is in flight.
SaveUnderWay ==
    accessSave.phase # "idle" =>
        /\ saved[accessSave.p] = {}
        /\ accessSave.p \in Person
        /\ \/ accessSave.phase = "role"
           \/ accessSave.excused
           \/ memberRole[accessSave.p] = accessSave.role

MembershipInv == MembershipTypeOK /\ OwnersCounted /\ SaveUnderWay
                 /\ SomeOwnerRemains /\ SavedAccessHolds
-------------------------------------------------------------------------------
\* The organization starts with an owner, no request and nothing saved.
LEMMA MembershipInitOK == MembershipInit => MembershipInv
<1> SUFFICES ASSUME MembershipInit PROVE MembershipInv
  OBVIOUS
<1> USE DEF MembershipInit
<1>1. MembershipTypeOK
  BY PersonAssumption, FirstRolesAssumption DEF MembershipTypeOK, NoSave, SaveType, Role, Access
<1>2. OwnersCounted /\ SaveUnderWay /\ SavedAccessHolds
  BY DEF OwnersCounted, SaveUnderWay, SavedAccessHolds, NoSave
<1>3. SomeOwnerRemains
  BY FirstRolesAssumption DEF SomeOwnerRemains, Owners
<1> QED BY <1>1, <1>2, <1>3 DEF MembershipInv

\* The values handleSaveAccess and its requests give the save are saves.
LEMMA SaveTypes ==
  ASSUME accessSave \in SaveType
  PROVE  /\ NoSave \in SaveType
         /\ [accessSave EXCEPT !.phase = "access"] \in SaveType
         /\ [accessSave EXCEPT !.excused = TRUE] \in SaveType
  BY DEF SaveType, NoSave, Role, Access

\* The role that the page sends when it removes a member.
LEMMA MemberIsRole == "member" \in Role
  BY DEF Role

\* Every step keeps the types.
LEMMA MembershipTypeStep ==
  ASSUME MembershipTypeOK, [MembershipNext]_membershipVars
  PROVE  MembershipTypeOK'
<1> DEFINE Change == [id : Nat, by : Person, kind : {"role", "remove"}, p : Person,
                      role : Role, was : Role, owners : SUBSET Person, ready : BOOLEAN]
<1> USE DEF MembershipTypeOK, Role, Access
<1>1. ASSUME NEW by \in Person, NEW kind \in {"role", "remove"}, NEW p \in Person,
             NEW role \in Role, BeginChange(by, kind, p, role)
      PROVE  /\ membershipEvents' \in Nat
             /\ changes' \subseteq Change
  <2>1. memberRole[p] \in Role
    BY <1>1 DEF BeginChange, IsMember
  <2>2. (kind = "role" \/ memberRole[p] # "owner") \in BOOLEAN
    OBVIOUS
  <2>3. [id |-> membershipEvents, by |-> by, kind |-> kind, p |-> p, role |-> role,
         was |-> memberRole[p], owners |-> {},
         ready |-> kind = "role" \/ memberRole[p] # "owner"] \in Change
    BY <2>1, <2>2
  <2>4. changes' \subseteq Change
    BY <1>1, <2>3 DEF BeginChange
  <2>5. membershipEvents' \in Nat
    BY <1>1 DEF BeginChange, MembershipEvent
  <2> QED BY <2>4, <2>5
<1>2. ASSUME NEW by \in Person, NEW p \in Person, NEW role \in Role,
             OtherChanges(by, "role", p, role) \/ OtherChanges(by, "remove", p, "member")
      PROVE  MembershipTypeOK'
  BY <1>1, <1>2 DEF OtherChanges
<1>3. CASE HandleRemoveMember
  <2>1. Me \in Person /\ activeMember \in Person /\ "member" \in Role
    BY <1>3, PersonAssumption DEF HandleRemoveMember
  <2>2. BeginChange(Me, "remove", activeMember, "member")
    BY <1>3 DEF HandleRemoveMember
  <2> QED BY <1>1, <1>3, <2>1, <2>2 DEF HandleRemoveMember
<1>4. ASSUME NEW c \in changes, CountOwners(c) PROVE MembershipTypeOK'
  <2>1. c \in Change /\ Owners \in SUBSET Person
    BY DEF Owners
  <2>2. [c EXCEPT !.ready = TRUE, !.owners = Owners] \in Change
    BY <2>1
  <2>3. changes' \subseteq Change
    BY <1>4, <2>2 DEF CountOwners
  <2> QED BY <1>4, <2>3 DEF CountOwners
<1>5. ASSUME NEW c \in changes, CommitRole(c) PROVE MembershipTypeOK'
  <2>1. c \in Change
    OBVIOUS
  <2>2. demoted' \in BOOLEAN
    BY <1>5 DEF CommitRole
  <2>3. accessSave' \in SaveType /\ saved' \in [Person -> SUBSET SaveType]
    BY <1>5, <2>1, SaveTypes DEF CommitRole, Supersede
  <2>4. memberRole' \in [Person -> Role \cup {"none"}] /\ changes' \subseteq Change
    BY <1>5, <2>1 DEF CommitRole
  <2> QED BY <1>5, <2>2, <2>3, <2>4 DEF CommitRole
<1>6. ASSUME NEW c \in changes, CommitRemoval(c) PROVE MembershipTypeOK'
  BY <1>6, SaveTypes DEF CommitRemoval, Supersede
<1>7. ASSUME NEW p \in Person, OpenAccessDialog(p) PROVE MembershipTypeOK'
  BY <1>7 DEF OpenAccessDialog, MembershipEvent
<1>8. CASE CloseAccessDialog
  BY <1>8 DEF CloseAccessDialog
<1>9. CASE DetailsRead
  BY <1>9 DEF DetailsRead, IsMember
<1>10. CASE DetailsAnswered
  BY <1>10 DEF DetailsAnswered
<1>11. ASSUME NEW role \in Role, NEW access \in Access, HandleSaveAccess(role, access)
       PROVE  MembershipTypeOK'
  BY <1>11 DEF HandleSaveAccess, MembershipEvent, SaveType
<1>12. CASE SaveRole
  <2>1. demoted' \in BOOLEAN
    BY <1>12 DEF SaveRole
  <2>2. accessSave' \in SaveType
    BY <1>12, SaveTypes DEF SaveRole
  <2>3. memberRole' \in [Person -> Role \cup {"none"}]
    BY <1>12 DEF SaveRole, SaveType
  <2> QED BY <1>12, <2>1, <2>2, <2>3 DEF SaveRole
<1>13. CASE SaveAccess
  <2>1. accessSave' \in SaveType /\ saved' \in [Person -> SUBSET SaveType]
    BY <1>13, SaveTypes DEF SaveAccess, SaveType
  <2>2. memberAccess' \in [Person -> Access] /\ activeMember' \in Person \cup {NoPerson}
    BY <1>13 DEF SaveAccess, SaveType
  <2> QED BY <1>13, <2>1, <2>2 DEF SaveAccess
<1>14. CASE SaveRefused
  BY <1>14, SaveTypes DEF SaveRefused
<1>15. CASE UNCHANGED membershipVars
  BY <1>15 DEF membershipVars
<1> QED
  BY <1>2, <1>3, <1>4, <1>5, <1>6, <1>7, <1>8, <1>9, <1>10, <1>11, <1>12, <1>13, <1>14, <1>15
  DEF MembershipNext
-------------------------------------------------------------------------------
\* Owners other than the one who leaves stay owners: with two of them one is left.
LEMMA AnotherOwner ==
  ASSUME NEW S \in SUBSET Person, NEW p, S = {} \/ Cardinality(S) > 1, p \in S
  PROVE  S \ {p} # {}
<1>1. SUFFICES ASSUME S \ {p} = {} PROVE FALSE
  OBVIOUS
<1>2. S = {p}
  BY <1>1
<1>3. Cardinality(S) = 1
  BY <1>2, FS_Singleton
<1> QED BY <1>2, <1>3

\* The role of a member who is not demoted leaves the owners as many.
LEMMA OwnersAfterRole ==
  ASSUME MembershipTypeOK, NEW p \in Person, NEW role \in Role,
         memberRole' = [memberRole EXCEPT ![p] = role],
         ~(memberRole[p] = "owner" /\ role # "owner")
  PROVE  Owners \subseteq Owners'
  BY DEF Owners, MembershipTypeOK

\* Owners named by a request are at least two, whatever steps are taken.
LEMMA OwnersCountedStep ==
  ASSUME MembershipTypeOK, OwnersCounted, [MembershipNext]_membershipVars
  PROVE  OwnersCounted'
<1> USE DEF OwnersCounted
<1>1. ASSUME NEW by \in Person, NEW kind, NEW p \in Person, NEW role, BeginChange(by, kind, p, role)
      PROVE  OwnersCounted'
  BY <1>1 DEF BeginChange
<1>2. ASSUME NEW by \in Person, NEW p \in Person, NEW role \in Role,
             OtherChanges(by, "role", p, role) \/ OtherChanges(by, "remove", p, "member")
      PROVE  OwnersCounted'
  BY <1>1, <1>2 DEF OtherChanges
<1>3. CASE HandleRemoveMember
  BY <1>1, <1>3, PersonAssumption DEF HandleRemoveMember, MembershipTypeOK
<1>4. ASSUME NEW c \in changes, CountOwners(c) PROVE OwnersCounted'
  <2>1. Cardinality(Owners) \in Nat
    BY PersonAssumption, FS_Subset, FS_CardinalityType DEF Owners
  <2>2. CASE Cardinality(Owners) <= 1
    BY <1>4, <2>2 DEF CountOwners
  <2>3. CASE ~(Cardinality(Owners) <= 1)
    <3>1. changes' = (changes \ {c}) \cup {[c EXCEPT !.ready = TRUE, !.owners = Owners]}
      BY <1>4, <2>3 DEF CountOwners
    <3>2. [c EXCEPT !.ready = TRUE, !.owners = Owners].owners = Owners
      BY DEF MembershipTypeOK
    <3>3. Cardinality(Owners) > 1
      BY <2>1, <2>3
    <3> QED BY <3>1, <3>2, <3>3
  <2> QED BY <2>2, <2>3
<1>5. ASSUME NEW c \in changes, CommitRole(c) \/ CommitRemoval(c) PROVE OwnersCounted'
  BY <1>5 DEF CommitRole, CommitRemoval
<1>6. ASSUME UNCHANGED changes PROVE OwnersCounted'
  BY <1>6
<1>7. CASE SaveRole \/ SaveAccess \/ SaveRefused
  BY <1>6, <1>7 DEF SaveRole, SaveAccess, SaveRefused
<1>8. CASE \/ \E p \in Person : OpenAccessDialog(p)
           \/ CloseAccessDialog \/ DetailsRead \/ DetailsAnswered
  BY <1>6, <1>8 DEF OpenAccessDialog, CloseAccessDialog, DetailsRead, DetailsAnswered
<1>9. ASSUME NEW role \in Role, NEW access \in Access, HandleSaveAccess(role, access)
      PROVE  OwnersCounted'
  BY <1>6, <1>9 DEF HandleSaveAccess
<1>10. CASE UNCHANGED membershipVars
  BY <1>6, <1>10 DEF membershipVars
<1>11. CASE MembershipNext
  BY <1>2, <1>3, <1>4, <1>5, <1>7, <1>8, <1>9, <1>11, MemberIsRole DEF MembershipNext
<1> QED
  BY <1>10, <1>11
\* An owner remains: of the steps that take an owner's role, one that gives another
\* is on record, and a removal leaves one of those it counted, or was overlapped.
LEMMA SomeOwnerStep ==
  ASSUME MembershipTypeOK, OwnersCounted, SaveUnderWay, SomeOwnerRemains,
         [MembershipNext]_membershipVars
  PROVE  SomeOwnerRemains'
<1>1. ASSUME UNCHANGED <<memberRole, demoted, overlapped>> PROVE SomeOwnerRemains'
  BY <1>1 DEF SomeOwnerRemains, Owners
<1>2. ASSUME NEW p \in Person, NEW role \in Role,
             memberRole' = [memberRole EXCEPT ![p] = role],
             demoted' = (demoted \/ (memberRole[p] = "owner" /\ role # "owner")),
             UNCHANGED overlapped
      PROVE  SomeOwnerRemains'
  <2>1. CASE memberRole[p] = "owner" /\ role # "owner"
    BY <1>2, <2>1 DEF SomeOwnerRemains
  <2>2. CASE ~(memberRole[p] = "owner" /\ role # "owner")
    <3>1. Owners \subseteq Owners'
      BY <1>2, <2>2, OwnersAfterRole
    <3>2. demoted' = demoted
      BY <1>2, <2>2 DEF MembershipTypeOK
    <3> QED BY <1>2, <3>1, <3>2 DEF SomeOwnerRemains
  <2> QED BY <2>1, <2>2
<1>3. ASSUME NEW c \in changes, CommitRole(c) PROVE SomeOwnerRemains'
  <2>1. c.p \in Person /\ c.role \in Role
    BY DEF MembershipTypeOK
  <2>2. CASE IsMember(c.p) /\ c.role # c.was
    BY <1>2, <1>3, <2>1, <2>2 DEF CommitRole
  <2>3. CASE ~(IsMember(c.p) /\ c.role # c.was)
    BY <1>1, <1>3, <2>3 DEF CommitRole
  <2> QED BY <2>2, <2>3
<1>4. ASSUME NEW c \in changes, CommitRemoval(c) PROVE SomeOwnerRemains'
  <2>1. c.p \in Person /\ Owners \in SUBSET Person
    BY DEF MembershipTypeOK, Owners
  <2>2. Owners' = Owners \ {c.p}
    BY <1>4, <2>1 DEF CommitRemoval, Owners, MembershipTypeOK
  <2>3. CASE c.p \in Owners /\ c.owners # Owners
    BY <1>4, <2>3 DEF CommitRemoval, SomeOwnerRemains
  <2>4. CASE c.p \in Owners /\ c.owners = Owners
    BY <2>1, <2>2, <2>4, AnotherOwner DEF OwnersCounted, SomeOwnerRemains
  <2>5. CASE c.p \notin Owners
    <3>1. overlapped' = overlapped /\ demoted' = demoted
      BY <1>4, <2>5 DEF CommitRemoval, MembershipTypeOK
    <3> QED BY <2>2, <2>5, <3>1 DEF SomeOwnerRemains
  <2> QED BY <2>3, <2>4, <2>5
<1>5. CASE SaveRole
  <2>1. accessSave.p \in Person /\ accessSave.role \in Role
    BY <1>5 DEF SaveRole, SaveUnderWay, MembershipTypeOK, SaveType
  <2>2. demoted' = (demoted \/ (memberRole[accessSave.p] = "owner" /\ accessSave.role # "owner"))
    BY <1>5, <2>1 DEF SaveRole, Owners
  <2> QED BY <1>2, <1>5, <2>1, <2>2 DEF SaveRole
<1>6. ASSUME NEW by \in Person, NEW p \in Person, NEW role \in Role,
             OtherChanges(by, "role", p, role) \/ OtherChanges(by, "remove", p, "member")
      PROVE  SomeOwnerRemains'
  BY <1>1, <1>6 DEF OtherChanges
<1>7. ASSUME NEW c \in changes, CountOwners(c) PROVE SomeOwnerRemains'
  BY <1>1, <1>7 DEF CountOwners
<1>8. CASE \/ \E p \in Person : OpenAccessDialog(p)
           \/ CloseAccessDialog \/ DetailsRead \/ DetailsAnswered \/ HandleRemoveMember
  BY <1>1, <1>8 DEF OpenAccessDialog, CloseAccessDialog, DetailsRead, DetailsAnswered,
                    HandleRemoveMember
<1>9. ASSUME NEW role \in Role, NEW access \in Access, HandleSaveAccess(role, access)
      PROVE  SomeOwnerRemains'
  BY <1>1, <1>9 DEF HandleSaveAccess
<1>10. CASE SaveAccess \/ SaveRefused \/ UNCHANGED membershipVars
  BY <1>1, <1>10 DEF SaveAccess, SaveRefused, membershipVars
<1>11. CASE MembershipNext
  BY <1>3, <1>4, <1>5, <1>6, <1>7, <1>8, <1>9, <1>10, <1>11, MemberIsRole DEF MembershipNext
<1> QED
  BY <1>10, <1>11
-------------------------------------------------------------------------------
\* What was saved holds on: a step that writes a member's row either withdraws what
\* was saved for that member or is the save's own.
LEMMA SavedStep ==
  ASSUME MembershipTypeOK, SaveUnderWay, SavedAccessHolds, [MembershipNext]_membershipVars
  PROVE  SaveUnderWay' /\ SavedAccessHolds'
<1> USE DEF SaveUnderWay, SavedAccessHolds
<1>1. ASSUME UNCHANGED <<memberRole, memberAccess, saved, accessSave>>
      PROVE  SaveUnderWay' /\ SavedAccessHolds'
  BY <1>1
<1>2. ASSUME NEW p \in Person, NEW role, Supersede(p), UNCHANGED memberAccess,
             memberRole' = [memberRole EXCEPT ![p] = role]
      PROVE  SaveUnderWay' /\ SavedAccessHolds'
  <2>1. \A q \in Person : q # p => memberRole'[q] = memberRole[q] /\ saved'[q] = saved[q]
    BY <1>2 DEF Supersede, MembershipTypeOK
  <2>2. saved'[p] = {}
    BY <1>2 DEF Supersede, MembershipTypeOK
  <2>3. SavedAccessHolds'
    BY <1>2, <2>1, <2>2
  <2>4. CASE accessSave.p = p
    <3>1. accessSave' = [accessSave EXCEPT !.excused = TRUE]
      BY <1>2, <2>4 DEF Supersede
    <3>2. accessSave'.p = p /\ accessSave'.excused
      BY <2>4, <3>1 DEF MembershipTypeOK, SaveType
    <3> QED BY <2>2, <2>3, <3>2
  <2>5. CASE accessSave.p # p
    <3>1. accessSave' = accessSave
      BY <1>2, <2>5 DEF Supersede
    <3> QED BY <2>1, <2>3, <2>5, <3>1
  <2> QED BY <2>4, <2>5
<1>3. ASSUME NEW c \in changes, CommitRole(c) PROVE SaveUnderWay' /\ SavedAccessHolds'
  <2>1. c.p \in Person
    BY DEF MembershipTypeOK
  <2>2. CASE IsMember(c.p) /\ c.role # c.was
    BY <1>2, <1>3, <2>1, <2>2 DEF CommitRole
  <2>3. CASE ~(IsMember(c.p) /\ c.role # c.was)
    BY <1>1, <1>3, <2>3 DEF CommitRole
  <2> QED BY <2>2, <2>3
<1>4. ASSUME NEW c \in changes, CommitRemoval(c) PROVE SaveUnderWay' /\ SavedAccessHolds'
  <2>1. c.p \in Person
    BY DEF MembershipTypeOK
  <2> QED BY <1>2, <1>4, <2>1 DEF CommitRemoval
<1>5. ASSUME NEW role \in Role, NEW access \in Access, HandleSaveAccess(role, access)
      PROVE  SaveUnderWay' /\ SavedAccessHolds'
  <2>1. activeMember \in Person
    BY <1>5 DEF HandleSaveAccess, MembershipTypeOK
  <2>2. PICK seen \in memberDetails[activeMember] :
          accessSave' = [phase |-> IF seen.role # role THEN "role" ELSE "access",
                         p |-> activeMember, role |-> role, access |-> access,
                         excused |-> seen.role # memberRole[activeMember]]
    BY <1>5 DEF HandleSaveAccess
  <2>3. /\ saved'[activeMember] = {}
        /\ \A q \in Person : q # activeMember => saved'[q] = saved[q]
        /\ memberRole' = memberRole /\ memberAccess' = memberAccess
    BY <1>5, <2>1 DEF HandleSaveAccess, MembershipTypeOK
  <2>4. SavedAccessHolds'
    BY <2>1, <2>3
  <2>5. accessSave'.p = activeMember /\ accessSave'.role = role
    BY <2>2
  <2>6. CASE seen.role # role
    BY <2>1, <2>2, <2>3, <2>4, <2>5, <2>6
  <2>7. CASE seen.role = role /\ seen.role # memberRole[activeMember]
    BY <2>1, <2>2, <2>3, <2>4, <2>5, <2>7
  <2>8. CASE seen.role = role /\ seen.role = memberRole[activeMember]
    BY <2>1, <2>3, <2>4, <2>5, <2>8
  <2> QED BY <2>6, <2>7, <2>8
<1>6. CASE SaveRole
  <2>1. accessSave.p \in Person /\ saved[accessSave.p] = {}
    BY <1>6 DEF SaveRole
  <2>2. /\ memberRole'[accessSave.p] = accessSave.role
        /\ \A q \in Person : q # accessSave.p => memberRole'[q] = memberRole[q]
        /\ memberAccess' = memberAccess /\ saved' = saved
    BY <1>6, <2>1 DEF SaveRole, MembershipTypeOK
  <2>3. SavedAccessHolds'
    BY <2>1, <2>2
  <2>4. CASE accessSave' = [accessSave EXCEPT !.phase = "access"]
    <3>1. accessSave'.p = accessSave.p /\ accessSave'.role = accessSave.role
      BY <2>4 DEF MembershipTypeOK, SaveType
    <3> QED BY <2>1, <2>2, <2>3, <3>1
  <2>5. CASE accessSave' = NoSave
    BY <2>3, <2>5 DEF NoSave
  <2> QED BY <1>6, <2>4, <2>5 DEF SaveRole
<1>7. CASE SaveAccess
  <2>1. accessSave.p \in Person /\ saved[accessSave.p] = {}
    BY <1>7 DEF SaveAccess
  <2>2. accessSave.excused \/ memberRole[accessSave.p] = accessSave.role
    BY <1>7 DEF SaveAccess
  <2>3. /\ memberAccess'[accessSave.p] = accessSave.access
        /\ \A q \in Person : q # accessSave.p => memberAccess'[q] = memberAccess[q]
        /\ memberRole' = memberRole /\ accessSave' = NoSave
    BY <1>7, <2>1 DEF SaveAccess, MembershipTypeOK
  <2>4. CASE saved' = [saved EXCEPT ![accessSave.p] = {accessSave}]
    <3>1. /\ saved'[accessSave.p] = {accessSave}
          /\ \A q \in Person : q # accessSave.p => saved'[q] = saved[q]
      BY <2>1, <2>4 DEF MembershipTypeOK
    <3>2. SavedAccessHolds'
      BY <2>2, <2>3, <3>1
    <3> QED BY <2>3, <3>2 DEF NoSave
  <2>5. CASE saved' = saved
    <3>1. SavedAccessHolds'
      BY <2>1, <2>3, <2>5
    <3> QED BY <2>3, <3>1 DEF NoSave
  <2> QED BY <1>7, <2>4, <2>5 DEF SaveAccess
<1>8. CASE SaveRefused
  BY <1>8 DEF SaveRefused, NoSave
<1>9. ASSUME NEW by \in Person, NEW p \in Person, NEW role \in Role,
             OtherChanges(by, "role", p, role) \/ OtherChanges(by, "remove", p, "member")
      PROVE  SaveUnderWay' /\ SavedAccessHolds'
  BY <1>1, <1>9 DEF OtherChanges
<1>10. ASSUME NEW c \in changes, CountOwners(c) PROVE SaveUnderWay' /\ SavedAccessHolds'
  BY <1>1, <1>10 DEF CountOwners
<1>11. CASE \/ \E p \in Person : OpenAccessDialog(p)
            \/ CloseAccessDialog \/ DetailsRead \/ DetailsAnswered \/ HandleRemoveMember
  BY <1>1, <1>11 DEF OpenAccessDialog, CloseAccessDialog, DetailsRead, DetailsAnswered,
                     HandleRemoveMember
<1>12. CASE UNCHANGED membershipVars
  BY <1>1, <1>12 DEF membershipVars
<1>13. CASE MembershipNext
  BY <1>3, <1>4, <1>5, <1>6, <1>7, <1>8, <1>9, <1>10, <1>11, <1>13, MemberIsRole
  DEF MembershipNext
<1> QED
  BY <1>12, <1>13
-------------------------------------------------------------------------------
\* The parts of the invariant together.
THEOREM MembershipInvariant == MembershipSpec => []MembershipInv
<1>1. MembershipInit => MembershipInv
  BY MembershipInitOK
<1>2. MembershipInv /\ [MembershipNext]_membershipVars => MembershipInv'
  BY MembershipTypeStep, OwnersCountedStep, SomeOwnerStep, SavedStep DEF MembershipInv
<1> QED
  BY <1>1, <1>2, PTL DEF MembershipSpec

\* Whatever the admins and the page do, roles, accesses, rows cached for the dialog
\* and requests in flight are of their types (organizations.py, organization page).
THEOREM MembershipTypeCorrect == MembershipSpec => []MembershipTypeOK
<1>1. MembershipInv => MembershipTypeOK
  BY DEF MembershipInv
<1> QED
  BY <1>1, MembershipInvariant, PTL

\* An organization of any number of members is left without owner only through a
\* change of role, or a removal whose count of the owners was old by the time it
\* committed (remove_org_member, update_org_member).
THEOREM OwnerRemains == MembershipSpec => []SomeOwnerRemains
<1>1. MembershipInv => SomeOwnerRemains
  BY DEF MembershipInv
<1> QED
  BY <1>1, MembershipInvariant, PTL

\* A save of the access dialog that was reported to have succeeded holds until the
\* member is changed again, if the cached row was not old when the save looked at it
\* (handleSaveAccess, however its two requests interleave with those of others).
THEOREM SavedHolds == MembershipSpec => []SavedAccessHolds
<1>1. MembershipInv => SavedAccessHolds
  BY DEF MembershipInv
<1> QED
  BY <1>1, MembershipInvariant, PTL

-----------------------------------------------------------------------------
(***************************************************************************)
(* The tasks of a board.                                                   *)
(***************************************************************************)
\* What the rules of p's role make of it, the row: blocked, p moves its task to the
\* inbox, leaves it done or is the lead's for other dependencies; and the lead leaves
\* a done task done.
Allowed(p, after, blocked) ==
    /\ blocked => \/ p.by = "lead" /\ p.what = "deps"
                  \/ after.st = "inbox"
                  \/ p.was.st = "done" /\ after.st = "done"
    /\ p.by = "lead" /\ p.was.st = "done" => after.st = "done"

RulesKept ==
    \A p \in patches :
        /\ p.phase = "rules" /\ p.what # "status" => p.new.st = p.was.st
        /\ p.phase = "commit" => Allowed(p, p.new, ~p.clear)

\* A request resets a task as it has loaded it once.
ResetsApart == \A p \in patches : \A r, s \in p.resets : r.t = s.t => r = s

BoardInv == BoardTypeOK /\ RulesKept /\ ResetsApart /\ BlockedNotStarted /\ AssigneeTold
-------------------------------------------------------------------------------
\* A board starts with nothing in flight and nothing overtaken.
LEMMA BoardInitOK == BoardInit => BoardInv
  BY DEF BoardInit, BoardInv, BoardTypeOK, RulesKept, ResetsApart,
     BlockedNotStarted, AssigneeTold

\* A request that arrives.
LEMMA PatchArrivesStep ==
  ASSUME BoardInv, NEW by \in Actor, NEW task \in WorkTask, PatchArrives(by, task)
  PROVE  BoardInv'
<1> USE DEF BoardInv, BoardTypeOK
<1>1. PICK p \in PatchType : /\ patches' = patches \cup {p}
                             /\ p.phase = "rules" /\ p.resets = {}
                             /\ p.what # "status" => p.new.st = p.was.st
  <2>1. workRow[task] \in WorkRow
    OBVIOUS
  <2> DEFINE P(id, what, st, who, deps) ==
          [id |-> id, by |-> by, t |-> task, was |-> workRow[task], what |-> what,
           new |-> [st |-> st, who |-> who], deps |-> deps, clear |-> FALSE,
           phase |-> "rules", resets |-> {}]
  <2>2. ASSUME NEW id \in PatchId, NEW what \in {"status", "who", "deps"},
               NEW st \in WorkStatus, NEW who \in Claimant \cup {NoClaimant},
               NEW deps \in SUBSET WorkTask, what # "status" => st = workRow[task].st
        PROVE  /\ P(id, what, st, who, deps) \in PatchType
               /\ P(id, what, st, who, deps).phase = "rules"
               /\ P(id, what, st, who, deps).resets = {}
               /\ P(id, what, st, who, deps).what # "status" =>
                      P(id, what, st, who, deps).new.st = P(id, what, st, who, deps).was.st
    <3>1. [st |-> st, who |-> who] \in WorkRow
      BY DEF WorkRow
    <3> QED BY <2>1, <2>2, <3>1 DEF PatchType
  <2>3. workRow[task].st \in WorkStatus /\ workRow[task].who \in Claimant \cup {NoClaimant}
    BY <2>1 DEF WorkRow
  <2>4. \A deps \in SUBSET MayDependOn[task] : deps \in SUBSET WorkTask
    BY MayDependOnAssumption
  <2>5. \E id \in PatchId, what \in {"status", "who", "deps"}, st \in WorkStatus,
           who \in Claimant \cup {NoClaimant}, deps \in SUBSET WorkTask :
             /\ what # "status" => st = workRow[task].st
             /\ patches' = patches \cup {P(id, what, st, who, deps)}
    <3>1. CASE \E st \in WorkStatus : PatchTask(by, task, "status", st, workRow[task].who, {})
      BY <2>3, <3>1 DEF PatchTask
    <3>2. CASE \E who \in Claimant \cup {NoClaimant} :
                   PatchTask(by, task, "who", workRow[task].st, who, {})
      BY <2>3, <3>2 DEF PatchTask
    <3>3. CASE \E deps \in SUBSET MayDependOn[task] :
                   PatchTask(by, task, "deps", workRow[task].st, workRow[task].who, deps)
      BY <2>3, <2>4, <3>3 DEF PatchTask
    <3> QED BY <3>1, <3>2, <3>3 DEF PatchArrives
  <2>6. PICK id \in PatchId, what \in {"status", "who", "deps"}, st \in WorkStatus,
             who \in Claimant \cup {NoClaimant}, deps \in SUBSET WorkTask :
               /\ what # "status" => st = workRow[task].st
               /\ patches' = patches \cup {P(id, what, st, who, deps)}
    BY <2>5
  <2> HIDE DEF P
  <2> QED BY <2>2, <2>6
<1>2. patchesSoFar' \in Nat /\ UNCHANGED <<workRow, dependsOn, startedBy, told, untold>>
  BY DEF PatchArrives, PatchTask
<1>3. BoardTypeOK' /\ RulesKept' /\ ResetsApart'
  BY <1>1, <1>2 DEF RulesKept, ResetsApart
<1>4. BlockedNotStarted'
  BY <1>1, <1>2 DEF BlockedNotStarted, Overtaken, WillReset
<1>5. AssigneeTold'
  BY <1>1, <1>2 DEF AssigneeTold, WillTell
<1> QED BY <1>3, <1>4, <1>5

\* A step that changes no task and takes over what requests are to reset and to tell.
LEMMA TakenOver ==
  ASSUME BlockedNotStarted, AssigneeTold,
         UNCHANGED <<workRow, dependsOn, startedBy, told, untold>>,
         \A q \in patches, t \in WorkTask :
             <<t, q.t>> \in Overtaken(workRow, dependsOn) /\ WillReset(q, t) =>
                 \E r \in patches' : r.t = q.t /\ WillReset(r, t),
         \A q \in patches : WillTell(q) => \E r \in patches' : r.t = q.t /\ WillTell(r)
  PROVE  BlockedNotStarted' /\ AssigneeTold'
<1>1. Overtaken(workRow, dependsOn)' = Overtaken(workRow, dependsOn)
  BY DEF Overtaken
<1>2. ASSUME NEW e \in Overtaken(workRow, dependsOn)
      PROVE  \/ \E x \in startedBy' : <<x[1], x[2]>> = e
             \/ \E p \in patches' : p.t = e[2] /\ WillReset(p, e[1])
  <2>1. e[1] \in WorkTask /\ e = <<e[1], e[2]>>
    BY DEF Overtaken
  <2> QED BY <2>1 DEF BlockedNotStarted
<1>3. \A r : WillReset(r, r.t)' = WillReset(r, r.t) /\ WillTell(r)' = WillTell(r)
  BY DEF WillReset, WillTell
<1>4. BlockedNotStarted'
  BY <1>1, <1>2 DEF BlockedNotStarted, WillReset
<1>5. AssigneeTold'
  BY <1>3 DEF AssigneeTold
<1> QED BY <1>4, <1>5

\* The rules of the request's role.
LEMMA ApplyRulesStep ==
  ASSUME BoardInv, NEW p \in patches, ApplyRules(p)
  PROVE  BoardInv'
<1> USE DEF BoardInv, BoardTypeOK
<1>1. p \in PatchType /\ p.phase = "rules"
  BY DEF ApplyRules
<1>2. UNCHANGED <<workRow, dependsOn, patchesSoFar, startedBy, told, untold>>
  BY DEF ApplyRules
<1>3. \/ patches' = patches \ {p}
      \/ \E q \in PatchType : /\ patches' = (patches \ {p}) \cup {q}
                              /\ q.phase = "commit" /\ q.resets = p.resets
                              /\ Allowed(q, q.new, ~q.clear)
  <2> DEFINE blocked == BlockedBy(IF p.what = "deps" THEN p.deps ELSE dependsOn[p.t], workRow)
             rows == CASE p.by = "lead"  -> LeadRows(p, blocked)
                       [] p.by = "admin" -> AdminRows(p, blocked)
                       [] OTHER          -> AgentRows(p, blocked)
             Q(after) == [p EXCEPT !.phase = "commit", !.new = after, !.clear = ~blocked]
  <2>1. /\ p.new \in WorkRow /\ p.was \in WorkRow /\ p.by \in Actor
        /\ p.what \in {"status", "who", "deps"}
        /\ p.what # "status" => p.new.st = p.was.st
    BY <1>1 DEF PatchType, RulesKept
  <2>2. ASSUME NEW after \in rows
        PROVE  after \in WorkRow /\ Allowed(p, after, blocked)
    <3> HIDE DEF blocked
    <3>4. \A w \in Claimant \cup {NoClaimant} :
              [p.new EXCEPT !.who = w] \in WorkRow /\ [p.new EXCEPT !.who = w].st = p.new.st
      BY <2>1 DEF WorkRow
    <3>5. p.new.who \in Claimant \cup {NoClaimant} /\ NoClaimant \in Claimant \cup {NoClaimant}
      BY <2>1 DEF WorkRow
    <3>1. CASE p.by = "lead"
      <4>1. after \in LeadRows(p, blocked)
        BY <3>1
      <4>2. /\ after \in WorkRow /\ after.st = p.new.st
            /\ p.what \in {"who", "status"} => ~blocked
            /\ p.what = "status" => p.was.st = "review"
        BY <3>4, <3>5, <4>1 DEF LeadRows
      <4> QED BY <2>1, <3>1, <4>2 DEF Allowed
    <3>2. CASE p.by = "admin"
      <4>1. after \in AdminRows(p, blocked)
        BY <3>2
      <4>2. CASE blocked /\ ~(p.was.st = "done" /\ p.new.st = "done")
        <5>1. after = [st |-> "inbox", who |-> NoClaimant]
          BY <4>1, <4>2 DEF AdminRows
        <5> QED BY <3>2, <5>1 DEF Allowed, WorkRow, WorkStatus
      <4>3. CASE ~(blocked /\ ~(p.was.st = "done" /\ p.new.st = "done"))
        <5>1. after \in WorkRow /\ after.st = p.new.st
          BY <3>4, <3>5, <4>1, <4>3 DEF AdminRows
        <5> QED BY <3>2, <4>3, <5>1 DEF Allowed
      <4> QED BY <4>2, <4>3
    <3>3. CASE p.by \in Claimant
      <4>1. after \in AgentRows(p, blocked) /\ p.by # "lead"
        BY <3>3, ClaimantNamesAssumption
      <4>2. after \in WorkRow /\ after.st = p.new.st /\ (p.new.st # "inbox" => ~blocked)
        BY <3>3, <3>4, <4>1 DEF AgentRows
      <4> QED BY <4>1, <4>2 DEF Allowed
    <3> QED BY <2>1, <3>1, <3>2, <3>3 DEF Actor
  <2>3. blocked \in BOOLEAN
    BY DEF BlockedBy
  <2> HIDE DEF rows, blocked
  <2>4. ASSUME NEW after \in WorkRow
        PROVE  /\ Q(after) \in PatchType
               /\ Q(after).phase = "commit" /\ Q(after).was = p.was /\ Q(after).new = after
               /\ Q(after).by = p.by /\ Q(after).what = p.what /\ Q(after).clear = ~blocked
               /\ Q(after).resets = p.resets
    BY <1>1, <2>3 DEF PatchType
  <2>5. \/ \E after \in rows : patches' = (patches \ {p}) \cup {Q(after)}
        \/ patches' = patches \ {p}
    BY DEF ApplyRules, PatchGoesOn, PatchDone, rows, blocked
  <2> HIDE DEF Q
  <2>6. CASE \E after \in rows : patches' = (patches \ {p}) \cup {Q(after)}
    <3>1. PICK after \in rows : patches' = (patches \ {p}) \cup {Q(after)}
      BY <2>6
    <3>2. after \in WorkRow /\ Allowed(p, after, blocked)
      BY <2>2
    <3>3. /\ Q(after) \in PatchType
          /\ Q(after).phase = "commit" /\ Q(after).was = p.was /\ Q(after).new = after
          /\ Q(after).by = p.by /\ Q(after).what = p.what /\ Q(after).clear = ~blocked
          /\ Q(after).resets = p.resets
      BY <2>4, <3>2
    <3>4. Allowed(Q(after), Q(after).new, ~Q(after).clear)
      BY <2>3, <3>2, <3>3 DEF Allowed
    <3> QED BY <3>1, <3>3, <3>4
  <2> QED BY <2>5, <2>6
<1>4. BoardTypeOK'
  BY <1>2, <1>3
<1>5. RulesKept' /\ ResetsApart'
  BY <1>3 DEF RulesKept, ResetsApart
<1>6. \A q \in patches : q # p => q \in patches'
  BY <1>3
<1>7. ~WillTell(p) /\ \A t : ~WillReset(p, t)
  BY <1>1 DEF WillTell, WillReset
<1>8. BlockedNotStarted' /\ AssigneeTold'
  BY <1>2, <1>6, <1>7, TakenOver
<1> QED BY <1>4, <1>5, <1>8

\* The row read again after the commit.
LEMMA RefreshPatchStep ==
  ASSUME BoardInv, NEW p \in patches, RefreshPatch(p)
  PROVE  BoardInv'
<1> USE DEF BoardInv, BoardTypeOK
<1> DEFINE q == [p EXCEPT !.new = workRow[p.t],
                          !.phase = IF p.by = "lead" THEN "notify" ELSE "reconcile"]
<1>1. p \in PatchType /\ p.phase = "refresh" /\ workRow[p.t] \in WorkRow
  BY DEF RefreshPatch, PatchType
<1>2. /\ q \in PatchType /\ q.t = p.t /\ q.was = p.was /\ q.by = p.by
      /\ q.new = workRow[p.t] /\ q.resets = p.resets
      /\ q.phase = IF p.by = "lead" THEN "notify" ELSE "reconcile"
  BY <1>1 DEF PatchType
<1>3. /\ UNCHANGED <<workRow, dependsOn, patchesSoFar, startedBy, told, untold>>
      /\ patches' = (patches \ {p}) \cup {q}
  BY DEF RefreshPatch, PatchGoesOn
<1> HIDE DEF q
<1>4. BoardTypeOK' /\ RulesKept' /\ ResetsApart'
  BY <1>2, <1>3 DEF RulesKept, ResetsApart
<1>5. ASSUME NEW t \in WorkTask, <<t, p.t>> \in Overtaken(workRow, dependsOn), WillReset(p, t)
      PROVE  WillReset(q, t)
  BY <1>1, <1>2, <1>5 DEF WillReset, Overtaken
<1>6. WillTell(p) => WillTell(q)
  BY <1>1, <1>2 DEF WillTell
<1>7. BlockedNotStarted' /\ AssigneeTold'
  BY <1>2, <1>3, <1>5, <1>6, TakenOver
<1> QED BY <1>4, <1>7

\* The dependents to reset are selected.
LEMMA SelectResetsStep ==
  ASSUME BoardInv, NEW p \in patches, SelectResets(p)
  PROVE  BoardInv'
<1> USE DEF BoardInv, BoardTypeOK
<1> DEFINE q == [p EXCEPT !.resets = ResetsOf(p), !.phase = "reset"]
<1>1. p \in PatchType /\ p.phase = "reconcile"
  BY DEF SelectResets
<1>2. ResetsOf(p) \subseteq [t : WorkTask, row : WorkRow]
  BY DEF ResetsOf
<1>3. /\ q \in PatchType /\ q.t = p.t /\ q.was = p.was /\ q.by = p.by /\ q.new = p.new
      /\ q.resets = ResetsOf(p) /\ q.phase = "reset"
  BY <1>1, <1>2 DEF PatchType
<1>4. /\ UNCHANGED <<workRow, dependsOn, patchesSoFar, startedBy, told, untold>>
      /\ patches' = (patches \ {p}) \cup {q}
  BY DEF SelectResets, PatchGoesOn
<1> HIDE DEF q
<1>5. BoardTypeOK' /\ RulesKept' /\ ResetsApart'
  <2>1. \A r, u \in ResetsOf(p) : r.t = u.t => r = u
    BY DEF ResetsOf
  <2> QED BY <1>3, <1>4, <2>1 DEF RulesKept, ResetsApart
<1>6. ASSUME NEW t \in WorkTask, <<t, p.t>> \in Overtaken(workRow, dependsOn), WillReset(p, t)
      PROVE  WillReset(q, t)
  <2>1. /\ p.by # "lead" /\ p.was.st = "done" /\ p.new.st # "done"
        /\ p.t \in dependsOn[t] /\ workRow[t].st \in {"in_progress", "review"}
    BY <1>1, <1>6 DEF WillReset, Overtaken
  <2>2. [t |-> t, row |-> workRow[t]] \in ResetsOf(p)
    BY <2>1 DEF ResetsOf
  <2> QED BY <1>3, <2>1, <2>2 DEF WillReset
<1>7. WillTell(p) => WillTell(q)
  BY <1>1, <1>3 DEF WillTell
<1>8. BlockedNotStarted' /\ AssigneeTold'
  BY <1>3, <1>4, <1>6, <1>7, TakenOver
<1> QED BY <1>5, <1>8

\* The first commit: the task's row, its dependencies and what they overtake.
LEMMA CommitPatchStep ==
  ASSUME BoardInv, NEW p \in patches, CommitPatch(p)
  PROVE  BoardInv'
<1> USE DEF BoardInv, BoardTypeOK
<1> DEFINE q == [p EXCEPT !.phase = "refresh", !.what = "status", !.new = p.was,
                          !.deps = {}, !.clear = FALSE]
           after == Written(workRow[p.t], p.was, p.new)
           why == {x \in WorkTask \X WorkTask \X Cause : x[3] \in CommitCause(p, x[1])}
<1>1. /\ p \in PatchType /\ p.phase = "commit" /\ p.t \in WorkTask /\ workRow[p.t] \in WorkRow
      /\ p.was \in WorkRow /\ p.new \in WorkRow /\ p.deps \in SUBSET WorkTask
  BY DEF CommitPatch, PatchType
<1>2. /\ q \in PatchType /\ q.t = p.t /\ q.was = p.was /\ q.by = p.by
      /\ q.phase = "refresh" /\ q.resets = p.resets
  BY <1>1 DEF PatchType
<1>3. /\ after \in WorkRow
      /\ after.st = IF p.new.st # p.was.st THEN p.new.st ELSE workRow[p.t].st
      /\ after.who = IF p.new.who # p.was.who THEN p.new.who ELSE workRow[p.t].who
  BY <1>1 DEF Written, WorkRow
<1>4. /\ workRow' = [workRow EXCEPT ![p.t] = after]
      /\ dependsOn' = [dependsOn EXCEPT ![p.t] = IF p.what = "deps" THEN p.deps ELSE @]
      /\ NoteOvertaken(why) /\ NoteAssigned(p.by)
      /\ patches' = (patches \ {p}) \cup {q}
      /\ UNCHANGED patchesSoFar
  BY DEF CommitPatch, PatchGoesOn
<1>5. why \subseteq WorkTask \X WorkTask \X Cause
  OBVIOUS
<1>6. \A t, d \in WorkTask : \A c \in CommitCause(p, t) : <<t, d, c>> \in why
  BY DEF CommitCause, Cause
<1> HIDE DEF q, after, why
<1>7. BoardTypeOK'
  <2>1. startedBy' \subseteq WorkTask \X WorkTask \X Cause
    BY <1>4, <1>5 DEF NoteOvertaken
  <2>2. told' \subseteq WorkTask /\ untold' \subseteq WorkTask
    BY <1>4 DEF NoteAssigned
  <2>3. workRow' \in [WorkTask -> WorkRow] /\ dependsOn' \in [WorkTask -> SUBSET WorkTask]
    BY <1>1, <1>3, <1>4
  <2> QED BY <1>2, <1>4, <2>1, <2>2, <2>3
<1>8. RulesKept' /\ ResetsApart'
  BY <1>2, <1>4 DEF RulesKept, ResetsApart
<1>9. BlockedNotStarted'
  <2> SUFFICES ASSUME NEW e \in Overtaken(workRow', dependsOn')
               PROVE  \/ \E x \in startedBy' : <<x[1], x[2]>> = e
                      \/ \E r \in patches' : r.t = e[2] /\ WillReset(r, e[1])
    BY DEF BlockedNotStarted, WillReset
  <2> DEFINE t == e[1]
             d == e[2]
  <2>1. /\ t \in WorkTask /\ d \in WorkTask /\ e = <<t, d>>
        /\ workRow'[t].st \in {"in_progress", "review"}
        /\ d \in dependsOn'[t] /\ workRow'[d].st # "done"
    BY DEF Overtaken
  <2> HIDE DEF t, d
  <2>2. CASE e \in Overtaken(workRow, dependsOn)
    <3>1. \A x \in startedBy : <<x[1], x[2]>> = e => x \in startedBy'
      BY <1>4, <2>2 DEF NoteOvertaken
    <3>2. \A r \in patches : WillReset(r, t) => r \in patches'
      BY <1>1, <1>4 DEF WillReset
    <3> QED BY <2>1, <2>2, <3>1, <3>2 DEF BlockedNotStarted, t, d
  <2>3. ASSUME e \notin Overtaken(workRow, dependsOn), NEW c \in CommitCause(p, t)
        PROVE  \E x \in startedBy' : <<x[1], x[2]>> = e
    <3>1. <<t, d, c>> \in why
      BY <1>6, <2>1
    <3>2. <<t, d, c>> \in startedBy'
      BY <1>4, <2>1, <2>3, <3>1 DEF NoteOvertaken
    <3> QED BY <2>1, <3>2
  <2>4. CASE e \notin Overtaken(workRow, dependsOn) /\ t = p.t
    <3>1. workRow'[t].st = IF p.new.st # p.was.st THEN p.new.st ELSE workRow[p.t].st
      BY <1>1, <1>3, <1>4, <2>4
    <3>2. Allowed(p, p.new, ~p.clear)
      BY <1>1 DEF RulesKept
    <3>3. p.clear \/ workRow[t].st # p.was.st \/ (p.by = "lead" /\ p.what = "deps")
      BY <2>1, <2>4, <3>1, <3>2 DEF Allowed
    <3>4. \E c : c \in CommitCause(p, t)
      BY <2>4, <3>3 DEF CommitCause
    <3> QED BY <2>3, <2>4, <3>4
  <2>5. CASE e \notin Overtaken(workRow, dependsOn) /\ t # p.t
    <3>1. workRow'[t] = workRow[t] /\ dependsOn'[t] = dependsOn[t]
      BY <1>1, <1>4, <2>1, <2>5
    <3>2. workRow[d].st = "done"
      BY <2>1, <2>5, <3>1 DEF Overtaken
    <3>3. d = p.t /\ after.st # "done"
      BY <1>1, <1>4, <2>1, <3>2
    <3>4. CASE p.was.st # "done"
      <4>1. "unseen" \in CommitCause(p, t)
        BY <2>5, <3>4 DEF CommitCause
      <4> QED BY <2>3, <2>5, <4>1
    <3>5. CASE p.was.st = "done"
      <4>1. Allowed(p, p.new, ~p.clear)
        BY <1>1 DEF RulesKept
      <4>2. p.by # "lead"
        BY <1>3, <3>2, <3>3, <3>5, <4>1 DEF Allowed
      <4>3. WillReset(q, t)
        BY <1>2, <3>5, <4>2 DEF WillReset
      <4> QED BY <1>2, <1>4, <3>3, <4>3 DEF t, d
    <3> QED BY <3>4, <3>5
  <2> QED BY <2>2, <2>4, <2>5
<1>10. AssigneeTold'
  <2> SUFFICES ASSUME NEW t \in WorkTask, t \notin told', t \notin untold'
               PROVE  \E r \in patches' : r.t = t /\ WillTell(r)'
    BY DEF AssigneeTold
  <2>1. CASE workRow'[t].who = workRow[t].who
    <3>1. t \notin told /\ t \notin untold
      BY <1>4, <2>1 DEF NoteAssigned
    <3>2. PICK r \in patches : r.t = t /\ WillTell(r)
      BY <3>1 DEF AssigneeTold
    <3>3. r \in patches'
      BY <1>1, <1>4, <3>2 DEF WillTell
    <3> QED BY <2>1, <3>2, <3>3 DEF WillTell
  <2>2. CASE workRow'[t].who # workRow[t].who
    <3>1. workRow'[t].who \notin {p.by, NoClaimant}
      BY <1>4, <2>2 DEF NoteAssigned
    <3>2. t = p.t /\ workRow'[t].who = after.who
      BY <1>1, <1>4, <2>2
    <3>3. after.who # p.was.who
      BY <1>3, <2>2, <3>2
    <3>4. WillTell(q)'
      BY <1>2, <3>1, <3>2, <3>3 DEF WillTell
    <3> QED BY <1>2, <1>4, <3>2, <3>4
  <2> QED BY <2>1, <2>2
<1> QED BY <1>7, <1>8, <1>9, <1>10

\* The second commit: dependents go back to the inbox.
LEMMA SaveResetsStep ==
  ASSUME BoardInv, NEW p \in patches, SaveResets(p)
  PROVE  BoardInv'
<1> USE DEF BoardInv, BoardTypeOK
<1> DEFINE q == [p EXCEPT !.resets = {}, !.phase = "notify"]
           why == WorkTask \X WorkTask \X {"unseen"}
           loaded(t) == (CHOOSE r \in p.resets : r.t = t).row
           after(t) == Written(workRow[t], loaded(t), [st |-> "inbox", who |-> NoClaimant])
<1>1. p \in PatchType /\ p.phase = "reset" /\ p.resets \subseteq [t : WorkTask, row : WorkRow]
  BY DEF SaveResets, PatchType
<1>2. /\ q \in PatchType /\ q.t = p.t /\ q.was = p.was /\ q.by = p.by /\ q.new = p.new
      /\ q.phase = "notify" /\ q.resets = {}
  BY <1>1 DEF PatchType
<1>3. /\ workRow' = [t \in WorkTask |->
                      IF \E r \in p.resets : r.t = t THEN after(t) ELSE workRow[t]]
      /\ dependsOn' = dependsOn /\ NoteOvertaken(why) /\ NoteAssigned("admin")
      /\ patches' = (patches \ {p}) \cup {q} /\ UNCHANGED patchesSoFar
  BY DEF SaveResets, PatchGoesOn
<1>4. \A r \in p.resets : loaded(r.t) = r.row
  BY DEF ResetsApart
<1>5. ASSUME NEW t \in WorkTask, \E r \in p.resets : r.t = t
      PROVE  /\ after(t) \in WorkRow
             /\ after(t).who \in {workRow[t].who, NoClaimant}
             /\ loaded(t).st # "inbox" => after(t).st = "inbox"
  BY DEF Written, WorkRow, WorkStatus
<1> HIDE DEF q, why, after, loaded
<1>6. BoardTypeOK'
  <2>1. startedBy' \subseteq WorkTask \X WorkTask \X Cause
    BY <1>3 DEF NoteOvertaken, why, Cause
  <2>2. told' \subseteq WorkTask /\ untold' \subseteq WorkTask
    BY <1>3 DEF NoteAssigned
  <2>3. workRow' \in [WorkTask -> WorkRow]
    BY <1>3, <1>5
  <2> QED BY <1>2, <1>3, <2>1, <2>2, <2>3
<1>7. RulesKept' /\ ResetsApart'
  BY <1>2, <1>3 DEF RulesKept, ResetsApart
<1>8. BlockedNotStarted'
  <2> SUFFICES ASSUME NEW e \in Overtaken(workRow', dependsOn')
               PROVE  \/ \E x \in startedBy' : <<x[1], x[2]>> = e
                      \/ \E r \in patches' : r.t = e[2] /\ WillReset(r, e[1])
    BY DEF BlockedNotStarted, WillReset
  <2>1. /\ e[1] \in WorkTask /\ e[2] \in WorkTask /\ e = <<e[1], e[2]>>
        /\ workRow'[e[1]].st \in {"in_progress", "review"}
    BY DEF Overtaken
  <2>2. CASE e \notin Overtaken(workRow, dependsOn)
    <3>1. <<e[1], e[2], "unseen">> \in why
      BY <2>1 DEF why
    <3>2. <<e[1], e[2], "unseen">> \in startedBy'
      BY <1>3, <2>1, <2>2, <3>1 DEF NoteOvertaken
    <3> QED BY <2>1, <3>2
  <2>3. CASE e \in Overtaken(workRow, dependsOn)
    <3>1. \A x \in startedBy : <<x[1], x[2]>> = e => x \in startedBy'
      BY <1>3, <2>3 DEF NoteOvertaken
    <3>2. ~WillReset(p, e[1])
      <4> SUFFICES ASSUME WillReset(p, e[1]) PROVE FALSE
        OBVIOUS
      <4>1. PICK r \in p.resets : r.t = e[1] /\ r.row.st # "inbox"
        BY <1>1 DEF WillReset
      <4>2. workRow'[e[1]].st = "inbox"
        BY <1>3, <1>4, <1>5, <2>1, <4>1
      <4> QED BY <2>1, <4>2
    <3>3. \A r \in patches : r # p => r \in patches'
      BY <1>3
    <3> QED BY <2>3, <3>1, <3>2, <3>3 DEF BlockedNotStarted
  <2> QED BY <2>2, <2>3
<1>9. AssigneeTold'
  <2> SUFFICES ASSUME NEW t \in WorkTask, t \notin told', t \notin untold'
               PROVE  \E r \in patches' : r.t = t /\ WillTell(r)'
    BY DEF AssigneeTold
  <2>1. workRow'[t].who = workRow[t].who
    BY <1>3, <1>5 DEF NoteAssigned
  <2>2. t \notin told /\ t \notin untold
    BY <1>3, <2>1 DEF NoteAssigned
  <2>3. PICK r \in patches : r.t = t /\ WillTell(r)
    BY <2>2 DEF AssigneeTold
  <2>4. CASE r = p
    <3>1. WillTell(q)'
      BY <1>1, <1>2, <2>1, <2>3, <2>4 DEF WillTell
    <3> QED BY <1>2, <1>3, <2>3, <2>4, <3>1
  <2>5. CASE r # p
    <3>1. r \in patches' /\ WillTell(r)'
      BY <1>3, <2>1, <2>3, <2>5 DEF WillTell
    <3> QED BY <2>3, <3>1
  <2> QED BY <2>4, <2>5
<1> QED BY <1>6, <1>7, <1>8, <1>9

\* The message to the assignee.
LEMMA NotifyStep ==
  ASSUME BoardInv, NEW p \in patches, Notify(p)
  PROVE  BoardInv'
<1> USE DEF BoardInv, BoardTypeOK
<1>1. /\ p \in PatchType /\ p.phase = "notify" /\ p.t \in WorkTask
      /\ patches' = patches \ {p}
      /\ told' = IF TellsAssignee(p) /\ workRow[p.t].who = p.new.who THEN told \cup {p.t} ELSE told
      /\ UNCHANGED <<workRow, dependsOn, patchesSoFar, startedBy, untold>>
  BY DEF Notify, PatchDone, PatchType
<1>2. BoardTypeOK' /\ RulesKept' /\ ResetsApart'
  BY <1>1 DEF RulesKept, ResetsApart
<1>3. BlockedNotStarted'
  BY <1>1 DEF BlockedNotStarted, Overtaken, WillReset
<1>4. AssigneeTold'
  <2> SUFFICES ASSUME NEW t \in WorkTask, t \notin told', t \notin untold'
               PROVE  \E r \in patches' : r.t = t /\ WillTell(r)'
    BY DEF AssigneeTold
  <2>1. PICK r \in patches : r.t = t /\ WillTell(r)
    BY <1>1 DEF AssigneeTold
  <2>2. r # p
    BY <1>1, <2>1 DEF WillTell, TellsAssignee
  <2> QED BY <1>1, <2>1, <2>2 DEF WillTell
<1> QED BY <1>2, <1>3, <1>4

\* A handler that dies after its commit.
LEMMA HandlerDiesStep ==
  ASSUME BoardInv, NEW p \in patches, HandlerDies(p)
  PROVE  BoardInv'
<1> USE DEF BoardInv, BoardTypeOK
<1> DEFINE left == {x \in WorkTask \X {p.t} \X {"abandoned"} :
                       <<x[1], x[2]>> \in Overtaken(workRow, dependsOn) /\ WillReset(p, x[1])}
<1>1. /\ p.t \in WorkTask
      /\ patches' = patches \ {p}
      /\ startedBy' = startedBy \cup left
      /\ untold' = IF WillTell(p) THEN untold \cup {p.t} ELSE untold
      /\ UNCHANGED <<workRow, dependsOn, patchesSoFar, told>>
  BY DEF HandlerDies, PatchDone, PatchType
<1>2. left \subseteq WorkTask \X WorkTask \X Cause
  BY <1>1 DEF Cause
<1>3. ASSUME NEW t \in WorkTask, <<t, p.t>> \in Overtaken(workRow, dependsOn), WillReset(p, t)
      PROVE  <<t, p.t, "abandoned">> \in left
  BY <1>3
<1> HIDE DEF left
<1>4. BoardTypeOK' /\ RulesKept' /\ ResetsApart'
  BY <1>1, <1>2 DEF RulesKept, ResetsApart
<1>5. BlockedNotStarted'
  <2> SUFFICES ASSUME NEW e \in Overtaken(workRow, dependsOn)
               PROVE  \/ \E x \in startedBy' : <<x[1], x[2]>> = e
                      \/ \E r \in patches' : r.t = e[2] /\ WillReset(r, e[1])
    BY <1>1 DEF BlockedNotStarted, WillReset, Overtaken
  <2>1. e[1] \in WorkTask /\ e = <<e[1], e[2]>>
    BY DEF Overtaken
  <2>2. CASE e[2] = p.t /\ WillReset(p, e[1])
    <3>1. <<e[1], p.t, "abandoned">> \in startedBy'
      BY <1>1, <1>3, <2>1, <2>2
    <3> QED BY <2>1, <2>2, <3>1
  <2>3. CASE ~(e[2] = p.t /\ WillReset(p, e[1]))
    BY <1>1, <2>3 DEF BlockedNotStarted
  <2> QED BY <2>2, <2>3
<1>6. AssigneeTold'
  BY <1>1 DEF AssigneeTold, WillTell
<1> QED BY <1>4, <1>5, <1>6
-------------------------------------------------------------------------------
\* BoardInv holds whatever requests, roles and failures there are.
THEOREM BoardInvariant == BoardSpec => []BoardInv
<1>1. BoardInit => BoardInv
  BY BoardInitOK
<1>2. BoardInv /\ [BoardNext]_boardVars => BoardInv'
  <2> SUFFICES ASSUME BoardInv, [BoardNext]_boardVars PROVE BoardInv'
    OBVIOUS
  <2>1. CASE BoardNext
    BY <2>1, PatchArrivesStep, ApplyRulesStep, CommitPatchStep, RefreshPatchStep,
       SelectResetsStep, SaveResetsStep, NotifyStep, HandlerDiesStep DEF BoardNext
  <2>2. CASE UNCHANGED boardVars
    BY <2>2 DEF boardVars, BoardInv, BoardTypeOK, RulesKept, ResetsApart,
                BlockedNotStarted, Overtaken, WillReset, AssigneeTold, WillTell
  <2> QED BY <2>1, <2>2
<1> QED
  BY <1>1, <1>2, PTL DEF BoardSpec

\* However updates of agents, the lead and admins overlap, the tasks and the requests in
\* flight are of their types: no task is assigned to anyone but an agent (update_task).
THEOREM BoardTypeCorrect == BoardSpec => []BoardTypeOK
<1>1. BoardInv => BoardTypeOK
  BY DEF BoardInv
<1> QED
  BY <1>1, BoardInvariant, PTL

\* For any number of tasks, dependencies and requests: a task is under way with a
\* dependency that is not done only until the request that reopened the dependency has
\* reset it, or for a cause on record (_reconcile_dependents_for_dependency_toggle).
THEOREM BlockedIsNotStarted == BoardSpec => []BlockedNotStarted
<1>1. BoardInv => BlockedNotStarted
  BY DEF BoardInv
<1> QED
  BY <1>1, BoardInvariant, PTL

\* For any number of agents and requests: who is assigned a task took it, was told or is
\* about to be, unless a handler died (_notify_task_update_assignment_changes).
THEOREM AssigneeIsTold == BoardSpec => []AssigneeTold
<1>1. BoardInv => AssigneeTold
  BY DEF BoardInv
<1> QED
  BY <1>1, BoardInvariant, PTL
-----------------------------------------------------------------------------
(***************************************************************************)
(* The components side by side.                                            *)
(***************************************************************************)
LEMMA PartsInitial ==
  ASSUME PartsInit
  PROVE  /\ part \in Parts
         /\ CardsInit
         /\ PanelInit
         /\ UrlInit
         /\ ChatInit
         /\ AgentsInit
         /\ ApprovalsInit
         /\ FeedInit
         /\ OnboardingInit
         /\ GroupInit
         /\ ListInit
         /\ GraphInit
         /\ MembershipInit
         /\ BoardInit
BY DEF PartsInit

\* A step of a part is its component's, and all others stutter.
LEMMA PartsStep ==
  ASSUME [PartsNext]_partsVars
  PROVE  /\ part' = part
         /\ [CardsNext]_cardVars
         /\ [PanelNext]_panelVars
         /\ [UrlNext]_urlVars
         /\ [ChatNext]_chatVars
         /\ [AgentsNext]_agentVars
         /\ [ApprovalsNext]_approvalVars
         /\ [FeedNext]_feedVars
         /\ [OnboardingNext]_onboardingVars
         /\ [GroupNext]_groupVars
         /\ [ListNext]_listVars
         /\ [GraphNext]_graphVars
         /\ [MembershipNext]_membershipVars
         /\ [BoardNext]_boardVars
<1>1. CASE PartsNext
  BY <1>1 DEF PartsNext
<1>2. CASE UNCHANGED partsVars
  BY <1>2 DEF partsVars
<1> QED BY <1>1, <1>2

\* Side by side, every component behaves as its own specification says: so whatever is
\* proved of one holds of the page, the board and the organization together.
THEOREM PartsAreComponents ==
  PartsSpec => /\ [](part \in Parts)
               /\ CardsSpec
               /\ PanelSpec
               /\ UrlSpec
               /\ ChatSpec
               /\ AgentsSpec
               /\ ApprovalsSpec
               /\ FeedSpec
               /\ OnboardingSpec
               /\ GroupSpec
               /\ ListSpec
               /\ GraphSpec
               /\ MembershipSpec
               /\ BoardSpec
<1>1. PartsInit => part \in Parts
  BY PartsInitial
<1>2. [PartsNext]_partsVars => part' = part
  BY PartsStep
<1>3. PartsSpec => [](part \in Parts)
  <2>1. part \in Parts /\ [PartsNext]_partsVars => (part \in Parts)'
    BY <1>2
  <2> QED BY <1>1, <2>1, PTL DEF PartsSpec
<1>4. PartsSpec => CardsSpec
  <2>1. PartsInit => CardsInit
    BY PartsInitial
  <2>2. [PartsNext]_partsVars => [CardsNext]_cardVars
    BY PartsStep
  <2> QED BY <2>1, <2>2, PTL DEF PartsSpec, CardsSpec
<1>5. PartsSpec => PanelSpec
  <2>1. PartsInit => PanelInit
    BY PartsInitial
  <2>2. [PartsNext]_partsVars => [PanelNext]_panelVars
    BY PartsStep
  <2> QED BY <2>1, <2>2, PTL DEF PartsSpec, PanelSpec
<1>6. PartsSpec => UrlSpec
  <2>1. PartsInit => UrlInit
    BY PartsInitial
  <2>2. [PartsNext]_partsVars => [UrlNext]_urlVars
    BY PartsStep
  <2> QED BY <2>1, <2>2, PTL DEF PartsSpec, UrlSpec
<1>7. PartsSpec => ChatSpec
  <2>1. PartsInit => ChatInit
    BY PartsInitial
  <2>2. [PartsNext]_partsVars => [ChatNext]_chatVars
    BY PartsStep
  <2> QED BY <2>1, <2>2, PTL DEF PartsSpec, ChatSpec
<1>8. PartsSpec => AgentsSpec
  <2>1. PartsInit => AgentsInit
    BY PartsInitial
  <2>2. [PartsNext]_partsVars => [AgentsNext]_agentVars
    BY PartsStep
  <2> QED BY <2>1, <2>2, PTL DEF PartsSpec, AgentsSpec
<1>9. PartsSpec => ApprovalsSpec
  <2>1. PartsInit => ApprovalsInit
    BY PartsInitial
  <2>2. [PartsNext]_partsVars => [ApprovalsNext]_approvalVars
    BY PartsStep
  <2> QED BY <2>1, <2>2, PTL DEF PartsSpec, ApprovalsSpec
<1>10. PartsSpec => FeedSpec
  <2>1. PartsInit => FeedInit
    BY PartsInitial
  <2>2. [PartsNext]_partsVars => [FeedNext]_feedVars
    BY PartsStep
  <2> QED BY <2>1, <2>2, PTL DEF PartsSpec, FeedSpec
<1>11. PartsSpec => OnboardingSpec
  <2>1. PartsInit => OnboardingInit
    BY PartsInitial
  <2>2. [PartsNext]_partsVars => [OnboardingNext]_onboardingVars
    BY PartsStep
  <2> QED BY <2>1, <2>2, PTL DEF PartsSpec, OnboardingSpec
<1>12. PartsSpec => GroupSpec
  <2>1. PartsInit => GroupInit
    BY PartsInitial
  <2>2. [PartsNext]_partsVars => [GroupNext]_groupVars
    BY PartsStep
  <2> QED BY <2>1, <2>2, PTL DEF PartsSpec, GroupSpec
<1>13. PartsSpec => ListSpec
  <2>1. PartsInit => ListInit
    BY PartsInitial
  <2>2. [PartsNext]_partsVars => [ListNext]_listVars
    BY PartsStep
  <2> QED BY <2>1, <2>2, PTL DEF PartsSpec, ListSpec
<1>14. PartsSpec => GraphSpec
  <2>1. PartsInit => GraphInit
    BY PartsInitial
  <2>2. [PartsNext]_partsVars => [GraphNext]_graphVars
    BY PartsStep
  <2> QED BY <2>1, <2>2, PTL DEF PartsSpec, GraphSpec
<1>15. PartsSpec => MembershipSpec
  <2>1. PartsInit => MembershipInit
    BY PartsInitial
  <2>2. [PartsNext]_partsVars => [MembershipNext]_membershipVars
    BY PartsStep
  <2> QED BY <2>1, <2>2, PTL DEF PartsSpec, MembershipSpec
<1>16. PartsSpec => BoardSpec
  <2>1. PartsInit => BoardInit
    BY PartsInitial
  <2>2. [PartsNext]_partsVars => [BoardNext]_boardVars
    BY PartsStep
  <2> QED BY <2>1, <2>2, PTL DEF PartsSpec, BoardSpec
<1> QED BY <1>3, <1>4, <1>5, <1>6, <1>7, <1>8, <1>9, <1>10, <1>11, <1>12, <1>13, <1>14, <1>15, <1>16

\* Every part has its types, and stays so in every behaviour of the components together.
THEOREM PartsTypeCorrect == PartsSpec => []PartsTypeOK
<1>1. part \in Parts /\ CardsTypeOK /\ PanelTypeOK /\ UrlTypeOK /\ ChatTypeOK /\ AgentsTypeOK
      /\ ApprovalsTypeOK /\ FeedTypeOK /\ OnboardingTypeOK /\ GroupTypeOK /\ ListTypeOK
      /\ GraphTypeOK /\ MembershipTypeOK /\ BoardTypeOK
      => PartsTypeOK
  BY PartsAssumption DEF PartsTypeOK
<1> QED BY <1>1, PartsAreComponents, CardsTyped, PanelTyped, UrlTyped, ChatTyped, AgentsTyped,
           ApprovalsTyped, FeedTypeCorrect, DialogTypeCorrect, GroupTyped, ListTypeCorrect,
           EdgesJoinTasks, MembershipTypeCorrect, BoardTypeCorrect, PTL

\* Whatever is asked, decided, written, said or lost: agents, approvals, pending counts and
\* messages are shown as they are, or are about to be (the streams of page.tsx).
THEOREM StreamsKeepUpAlways == PartsSpec => []StreamsKeepUp
<1>1. /\ AgentsShownOrComing /\ ApprovalsShownOrComing /\ CountsRightOrComing /\ ListsApart
      /\ MemoriesShownOrComing
      => StreamsKeepUp
  BY DEF StreamsKeepUp
<1> QED BY <1>1, PartsAreComponents, AgentsComing, ApprovalsComing, CountsComing,
           PanelsListTheirOwn, MemoriesComing, PTL
=============================================================================
