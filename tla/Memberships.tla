---------------------------- MODULE Memberships ----------------------------
(***************************************************************************)
(* Businesses and the people in them: drafts of a business and their       *)
(* completion, invitations of people and of addresses without an account,  *)
(* acceptance, removal, and the deletion of an account, which hands the    *)
(* person's businesses to the best remaining member.                       *)
(*                                                                         *)
(* A person stands for an e-mail address and for the account it has, had   *)
(* or may have.  A request is a handler between two of its statements; a   *)
(* statement outside a transaction commits on its own.  What a             *)
(* transaction writes is seen when it commits; until then its row locks    *)
(* hold others up.  Any statement may fail.                                *)
(***************************************************************************)
EXTENDS Integers, FiniteSets

CONSTANTS
    People,
    Strangers,     \* those of them who have no account at first
    Businesses,    \* ids of businesses, in the order of the ids
    Drafts,        \* ids of drafts
    Requests,      \* requests in flight at a time
    MaxDrafts,     \* MAX_INCOMPLETE_DRAFTS
    Founders,      \* a bound: who registers businesses
    Offered,       \* a bound: the roles that invitations offer
    MaxBusy,       \* a bound: how much is under way at a time
    None

ASSUME BusinessesAssumption == Businesses \subseteq Int
ASSUME FoundersAssumption == Founders \subseteq People
ASSUME OfferedAssumption == Offered \subseteq {"owner", "admin", "member"}
ASSUME MaxBusyAssumption == MaxBusy \in Nat
ASSUME MaxDraftsAssumption == MaxDrafts \in Nat \ {0}
ASSUME NoneAssumption == None \notin People \cup Businesses \cup Drafts

VARIABLES
    account,     \* [People -> is there an account, is its address confirmed]
    draft,       \* business_setup_drafts
    business,    \* businesses
    member,      \* business_memberships
    emailed,     \* business_email_invites
    req,         \* [Requests -> a request in flight]
    claim,       \* [People -> the claim of e-mailed invitations under way]
    leaving,     \* [People -> the deletion of the account under way]
    late         \* history: who joined a business while it was being ended

vars == <<account, draft, business, member, emailed, req, claim, leaving, late>>

----------------------------------------------------------------------------
(* State.                                                                  *)

Roles == {"owner", "admin", "member"}

Draft == [state : {"unused", "open", "gone"}, by : People \cup {None}]

Discarded == [state |-> "gone", by |-> None]

\* creator is user_id: who goes with the business unless it is handed over.
Business == [state : {"unused", "open", "gone"}, creator : People \cup {None}]

\* "accepted" when accepted_at is set.
Place == [state : {"none", "pending", "accepted"}, role : Roles]

NoPlace == [state |-> "none", role |-> "member"]

\* by: who asks; at and other: the business and the person it is about; role:
\* the role offered ("mail", "invite") or the role of who asks ("remove").
\* "draft" and "delete" hold a lock, on the person's and the business's row.
Request == [pc : {"idle", "draft", "complete", "mail", "invite",
                  "remove", "delete", "uninvite"},
            by : People \cup {None}, draft : Drafts \cup {None},
            at : Businesses \cup {None}, other : People \cup {None}, role : Roles]

Asking(pc, p, d, b, q, role) ==
    [pc |-> pc, by |-> p, draft |-> d, at |-> b, other |-> q, role |-> role]

Idle == Asking("idle", None, None, None, None, "member")

Nobody == [b \in Businesses |-> None]
NoAddress == [p \in People |-> None]

\* rows: what is still to be turned into memberships.
Claim == [pc : {"no", "read", "insert"}, rows : [Businesses -> Roles \cup {None}]]

NoClaim == [pc |-> "no", rows |-> Nobody]

\* What is to become of a business of someone who leaves: it ends, or it is
\* kept, with a new creator and a new owner where it needs one.
Fate == [kind : {"open", "ends", "kept"},
         creator : People \cup {None}, owner : People \cup {None}]

Open == [kind |-> "open", creator |-> None, owner |-> None]
Ended == [kind |-> "ends", creator |-> None, owner |-> None]

\* The DELETE of a users row with its trigger: the businesses still to visit,
\* the one at hand and its heir, and the fates decided, which the COMMIT makes
\* true.
Leaving == [pc : {"no", "visit", "hand over"}, todo : SUBSET Businesses,
            at : Businesses \cup {None}, heir : People \cup {None},
            fate : [Businesses -> Fate]]

Visiting(todo, fate) ==
    [pc |-> "visit", todo |-> todo, at |-> None, heir |-> None, fate |-> fate]

Staying == [pc |-> "no", todo |-> {}, at |-> None, heir |-> None,
            fate |-> [b \in Businesses |-> Open]]

Init ==
    /\ account = [p \in People |-> IF p \in Strangers THEN "none" ELSE "confirmed"]
    /\ draft = [d \in Drafts |-> [state |-> "unused", by |-> None]]
    /\ business = [b \in Businesses |-> [state |-> "unused", creator |-> None]]
    /\ member = [b \in Businesses |-> [p \in People |-> NoPlace]]
    /\ emailed = [b \in Businesses |-> NoAddress]
    /\ req = [r \in Requests |-> Idle]
    /\ claim = [p \in People |-> NoClaim]
    /\ leaving = [p \in People |-> Staying]
    /\ late = [b \in Businesses |-> {}]

----------------------------------------------------------------------------
(* Rows and their locks.                                                   *)

HasAccount(p) == account[p] \in {"unconfirmed", "confirmed"}

Accepted(b, p) == member[b][p].state = "accepted"

Owner(b, p) == Accepted(b, p) /\ member[b][p].role = "owner"

\* canManageMembers()
Manages(b, p) == Accepted(b, p) /\ member[b][p].role \in {"owner", "admin"}

OpenDrafts(p) == {d \in Drafts : draft[d] = [state |-> "open", by |-> p]}

\* The users row of p is there, and not locked FOR UPDATE or being deleted.
\* A foreign key that is to point at it needs that (FOR KEY SHARE).
PersonFree(p) ==
    /\ HasAccount(p)
    /\ leaving[p].pc = "no"
    /\ \A r \in Requests : ~(req[r].pc = "draft" /\ req[r].by = p)

\* Nor does another transaction that has not committed point at it.
PersonUnused(p) ==
    /\ PersonFree(p)
    /\ \A q \in People : \A b \in Businesses : leaving[q].fate[b].creator # p

\* The businesses that the trigger has locked for p, all of them until it ends.
Held(p, b) == leaving[p].at = b \/ leaving[p].fate[b] # Open

\* The businesses row is not locked FOR UPDATE.
BusinessFree(b) ==
    /\ \A r \in Requests : ~(req[r].pc = "delete" /\ req[r].at = b)
    /\ \A p \in People : ~Held(p, b)

\* The bound on requests, claims and deletions at a time.
Room ==
    Cardinality({r \in Requests : req[r].pc # "idle"})
      + Cardinality({p \in People : claim[p].pc # "no"})
      + Cardinality({p \in People : leaving[p].pc # "no"}) < MaxBusy

Becomes(r, q) == req' = [req EXCEPT ![r] = q]

Ends(r) == Becomes(r, Idle)

SetPlace(b, p, place) == member' = [member EXCEPT ![b][p] = place]

\* A removal names a row by its id, which no later row has: when the row of p
\* in b goes, the removals that name it name nothing any more.
Forgetting(b, p, pcs) ==
    [r \in Requests |->
        IF req[r].pc \in pcs /\ req[r].at = b /\ req[r].other = p
          THEN [req[r] EXCEPT !.other = None] ELSE req[r]]

OfMember == {"remove", "delete"}
OfInvitation == {"uninvite"}

----------------------------------------------------------------------------
(* Accounts.                                                               *)

\* An address is used for one account.
SignUp(p) ==
    /\ account[p] = "none"
    /\ account' = [account EXCEPT ![p] = "unconfirmed"]
    /\ UNCHANGED <<draft, business, member, emailed, req, claim, leaving, late>>

\* confirmEmail(): the address is confirmed; invitations are claimed after.
Confirm(p) ==
    /\ account[p] = "unconfirmed" /\ PersonUnused(p) /\ Room
    /\ account' = [account EXCEPT ![p] = "confirmed"]
    /\ claim' = [claim EXCEPT ![p] = [pc |-> "read", rows |-> Nobody]]
    /\ UNCHANGED <<draft, business, member, emailed, req, leaving, late>>

ClaimRead(p) ==
    /\ claim[p].pc = "read"
    /\ claim' = [claim EXCEPT ![p] = [pc |-> "insert",
                                      rows |-> [b \in Businesses |-> emailed[b][p]]]]
    /\ UNCHANGED <<account, draft, business, member, emailed, req, leaving, late>>

ClaimDone(p, b) ==
    claim' = [claim EXCEPT ![p] =
                [pc |-> "insert", rows |-> [claim[p].rows EXCEPT ![b] = None]]]

\* Variant: a row for every business, asked there or not.
ClaimInsertAll(p, b) ==
    /\ claim[p].pc = "insert" /\ member[b][p].state = "none"
    /\ business[b].state = "open" /\ BusinessFree(b) /\ PersonFree(p)
    /\ SetPlace(b, p, [state |-> "pending", role |-> claim[p].rows[b]])
    /\ ClaimDone(p, b)
    /\ UNCHANGED <<account, draft, business, emailed, req, leaving, late>>

\* INSERT ... ON CONFLICT DO NOTHING.
ClaimInsert(p, b) ==
    /\ claim[p].pc = "insert" /\ claim[p].rows[b] # None
    /\ \/ /\ member[b][p].state = "none"
          /\ business[b].state = "open" /\ BusinessFree(b) /\ PersonFree(p)
          /\ SetPlace(b, p, [state |-> "pending", role |-> claim[p].rows[b]])
       \/ /\ member[b][p].state # "none"
          /\ UNCHANGED member
    /\ ClaimDone(p, b)
    /\ UNCHANGED <<account, draft, business, emailed, req, leaving, late>>

\* DELETE FROM business_email_invites WHERE email: read or not.
ClaimEnd(p) ==
    /\ claim[p].pc = "insert" /\ claim[p].rows = Nobody
    /\ emailed' = [b \in Businesses |-> [emailed[b] EXCEPT ![p] = None]]
    /\ claim' = [claim EXCEPT ![p] = NoClaim]
    /\ req' = [r \in Requests |->
                  IF req[r].pc \in OfInvitation /\ req[r].other = p
                    THEN [req[r] EXCEPT !.other = None] ELSE req[r]]
    /\ UNCHANGED <<account, draft, business, member, leaving, late>>

\* A statement fails (its business is gone, say): the rest is left undone.
ClaimFails(p) ==
    /\ claim[p].pc # "no"
    /\ claim' = [claim EXCEPT ![p] = NoClaim]
    /\ UNCHANGED <<account, draft, business, member, emailed, req, leaving, late>>

\* deleteExpiredEmailInvites().
Expire(b, p) ==
    /\ emailed[b][p] # None
    /\ emailed' = [emailed EXCEPT ![b][p] = None]
    /\ req' = Forgetting(b, p, OfInvitation)
    /\ UNCHANGED <<account, draft, business, member, claim, leaving, late>>

----------------------------------------------------------------------------
(* Drafts.                                                                 *)

\* Variant: the count without FOR UPDATE.
CreateDraftUnlocked(r, p) ==
    /\ req[r].pc = "idle" /\ account[p] = "confirmed" /\ leaving[p].pc = "no" /\ Room
    /\ Cardinality(OpenDrafts(p)) < MaxDrafts
    /\ Becomes(r, Asking("draft", p, None, None, None, "member"))
    /\ UNCHANGED <<account, draft, business, member, emailed, claim, leaving, late>>

\* createDraftHandler(): the users row is locked and the drafts are counted.
CreateDraft(r, p) ==
    /\ req[r].pc = "idle" /\ account[p] = "confirmed" /\ PersonUnused(p) /\ Room
    /\ Cardinality(OpenDrafts(p)) < MaxDrafts
    /\ Becomes(r, Asking("draft", p, None, None, None, "member"))
    /\ UNCHANGED <<account, draft, business, member, emailed, claim, leaving, late>>

\* INSERT and COMMIT.
InsertDraft(r, d) ==
    /\ req[r].pc = "draft" /\ draft[d].state = "unused"
    /\ draft' = [draft EXCEPT ![d] = [state |-> "open", by |-> req[r].by]]
    /\ Ends(r)
    /\ UNCHANGED <<account, business, member, emailed, claim, leaving, late>>

\* deleteDraftHandler().
DeleteDraft(d) ==
    /\ draft[d].state = "open"
    /\ draft' = [draft EXCEPT ![d] = Discarded]
    /\ UNCHANGED <<account, business, member, emailed, req, claim, leaving, late>>

\* completeDraftHandler(): the draft is read ...
Complete(r, d) ==
    /\ req[r].pc = "idle" /\ draft[d].state = "open" /\ Room
    /\ Becomes(r, Asking("complete", draft[d].by, d, None, None, "member"))
    /\ UNCHANGED <<account, draft, business, member, emailed, claim, leaving, late>>

\* ... and in a transaction the business and its owner are inserted and the
\* draft is deleted, if it is still there.
Found(r, b) ==
    LET q == req[r] IN
    /\ q.pc = "complete" /\ PersonFree(q.by)
    /\ business[b].state = "unused"
    /\ business' = [business EXCEPT ![b] = [state |-> "open", creator |-> q.by]]
    /\ SetPlace(b, q.by, [state |-> "accepted", role |-> "owner"])
    /\ draft' = [draft EXCEPT ![q.draft] = Discarded]
    /\ Ends(r)
    /\ UNCHANGED <<account, emailed, claim, leaving, late>>

----------------------------------------------------------------------------
(* Invitations.                                                            *)

\* inviteBusinessMemberHandler(): p may invite, and q has an account or not.
Invite(r, p, b, q, role) ==
    /\ req[r].pc = "idle" /\ account[p] = "confirmed" /\ Room
    /\ Manages(b, p) /\ (role = "owner" => Owner(b, p))
    /\ account[q] # "deleted"
    /\ Becomes(r, Asking(IF HasAccount(q) THEN "invite" ELSE "mail", p, None, b, q, role))
    /\ UNCHANGED <<account, draft, business, member, emailed, claim, leaving, late>>

\* No account: the address is written down, or written down with another role.
\* (A row that is updated points at its business already, and maybe at who asks.)
WriteDown(r) ==
    LET q == req[r] IN
    /\ q.pc = "mail"
    /\ business[q.at].state = "open" /\ HasAccount(q.by)
    /\ emailed[q.at][q.other] = None => BusinessFree(q.at) /\ PersonFree(q.by)
    /\ emailed' = [emailed EXCEPT ![q.at][q.other] = q.role]
    /\ Ends(r)
    /\ UNCHANGED <<account, draft, business, member, claim, leaving, late>>

\* Variant: ON CONFLICT DO UPDATE without WHERE accepted_at IS NULL.
OfferAnyway(r) ==
    LET q == req[r] IN
    /\ q.pc = "invite" /\ PersonFree(q.by)
    /\ business[q.at].state = "open" /\ BusinessFree(q.at) /\ PersonFree(q.other)
    /\ SetPlace(q.at, q.other, [state |-> "pending", role |-> q.role])
    /\ Ends(r)
    /\ UNCHANGED <<account, draft, business, emailed, claim, leaving, late>>

\* An account: a pending place, or another role for one that is pending still.
Offer(r) ==
    LET q == req[r] IN
    /\ q.pc = "invite" /\ HasAccount(q.by)
    /\ \/ /\ member[q.at][q.other].state = "none" /\ PersonFree(q.by)
          /\ business[q.at].state = "open" /\ BusinessFree(q.at) /\ PersonFree(q.other)
       \/ member[q.at][q.other].state = "pending"
    /\ SetPlace(q.at, q.other, [state |-> "pending", role |-> q.role])
    /\ Ends(r)
    /\ UNCHANGED <<account, draft, business, emailed, claim, leaving, late>>

\* acceptBusinessInviteHandler().  It takes no lock on the business.
Accept(b, p) ==
    /\ account[p] = "confirmed" /\ member[b][p].state = "pending"
    /\ SetPlace(b, p, [state |-> "accepted", role |-> member[b][p].role])
    /\ late' = [late EXCEPT ![b] =
                  IF \E q \in People : leaving[q].fate[b] = Ended THEN @ \cup {p} ELSE @]
    /\ UNCHANGED <<account, draft, business, emailed, req, claim, leaving>>

\* declineBusinessInviteHandler().
Decline(b, p) ==
    /\ account[p] = "confirmed" /\ member[b][p].state = "pending"
    /\ SetPlace(b, p, NoPlace)
    /\ req' = Forgetting(b, p, OfMember)
    /\ UNCHANGED <<account, draft, business, emailed, claim, leaving, late>>

----------------------------------------------------------------------------
(* removeBusinessMemberHandler().                                          *)

\* p manages the business, and names the place or the invitation of q.
Remove(r, p, b, q) ==
    /\ req[r].pc = "idle" /\ account[p] = "confirmed" /\ Manages(b, p) /\ Room
    /\ \E pc \in {"remove", "uninvite"} :
        /\ pc = "remove" => member[b][q].state # "none"
        /\ pc = "uninvite" => emailed[b][q] # None
        /\ Becomes(r, Asking(pc, None, None, b, q, member[b][p].role))
    /\ UNCHANGED <<account, draft, business, member, emailed, claim, leaving, late>>

Owners(b) == {p \in People : Owner(b, p)}

\* What the handler asks once it has the business's row: an owner is removed
\* by an owner only, and not the last one.
MayRemove(q) ==
    /\ q.other # None
    /\ member[q.at][q.other].state # "none"
    /\ member[q.at][q.other].role = "owner" =>
         q.role = "owner" /\ Cardinality(Owners(q.at)) > 1

\* Variant: the checks without FOR UPDATE.
CheckUnlocked(r) ==
    LET q == req[r] IN
    /\ q.pc = "remove"
    /\ IF MayRemove(q) THEN Becomes(r, [q EXCEPT !.pc = "delete"]) ELSE Ends(r)
    /\ UNCHANGED <<account, draft, business, member, emailed, claim, leaving, late>>

\* SELECT ... FOR UPDATE, and the checks; ROLLBACK when they fail.
LockBusiness(r) ==
    LET q == req[r] IN
    /\ q.pc = "remove" /\ BusinessFree(q.at)
    /\ IF MayRemove(q) THEN Becomes(r, [q EXCEPT !.pc = "delete"]) ELSE Ends(r)
    /\ UNCHANGED <<account, draft, business, member, emailed, claim, leaving, late>>

\* DELETE and COMMIT.
Delete(r) ==
    LET q == req[r] IN
    /\ q.pc = "delete"
    /\ IF q.other # None
         THEN /\ SetPlace(q.at, q.other, NoPlace)
              /\ req' = [Forgetting(q.at, q.other, OfMember) EXCEPT ![r] = Idle]
         ELSE UNCHANGED member /\ Ends(r)
    /\ UNCHANGED <<account, draft, business, emailed, claim, leaving, late>>

\* No member has that id, but an invitation of an address has.
DeleteInvitation(r) ==
    LET q == req[r] IN
    /\ q.pc = "uninvite" /\ BusinessFree(q.at)
    /\ IF q.other # None
         THEN /\ emailed' = [emailed EXCEPT ![q.at][q.other] = None]
              /\ req' = [Forgetting(q.at, q.other, OfInvitation) EXCEPT ![r] = Idle]
         ELSE UNCHANGED emailed /\ Ends(r)
    /\ UNCHANGED <<account, draft, business, member, claim, leaving, late>>

\* A statement fails, or the process dies: what is not committed is undone.
RequestFails(r) ==
    /\ req[r].pc # "idle"
    /\ Ends(r)
    /\ UNCHANGED <<account, draft, business, member, emailed, claim, leaving, late>>

----------------------------------------------------------------------------
(* DELETE FROM users, by deleteAccountHandler() or an administrator, with  *)
(* the trigger keep_shared_businesses_on_user_delete() and the cascades.   *)

\* The row of p is locked; the businesses p belongs to or made are selected.
Leave(p) ==
    /\ PersonUnused(p) /\ Room
    /\ leaving' = [leaving EXCEPT ![p] =
          Visiting({b \in Businesses : /\ business[b].state = "open"
                                       /\ \/ business[b].creator = p
                                          \/ member[b][p].state # "none"},
                   Staying.fate)]
    /\ UNCHANGED <<account, draft, business, member, emailed, req, claim, late>>

\* Variant: only an owner takes over.
OtherOwners(b, p) == {q \in People \ {p} : Owner(b, q)}

Others(b, p) == {q \in People \ {p} : Accepted(b, q)}

Rank == [role \in Roles |-> IF role = "owner" THEN 2 ELSE IF role = "admin" THEN 1 ELSE 0]

\* ORDER BY owner, admin, accepted_at LIMIT 1: any of those that rank highest.
Best(b, p) ==
    {q \in Others(b, p) : \A s \in Others(b, p) :
        Rank[member[b][q].role] >= Rank[member[b][s].role]}

NextToVisit(p, b) ==
    b \in leaving[p].todo /\ \A c \in leaving[p].todo : b <= c

\* The next business is locked, if it is still there, and its heir is chosen;
\* without one it ends.
Visit(p, b) ==
    LET l == leaving[p] IN
    /\ l.pc = "visit" /\ NextToVisit(p, b) /\ BusinessFree(b)
    /\ \/ /\ business[b].state # "open"
          /\ leaving' = [leaving EXCEPT ![p].todo = l.todo \ {b}]
       \/ /\ business[b].state = "open" /\ Others(b, p) = {}
          /\ leaving' = [leaving EXCEPT ![p] =
                Visiting(l.todo \ {b}, [l.fate EXCEPT ![b] = Ended])]
       \/ /\ business[b].state = "open"
          /\ \E q \in Best(b, p) :
               leaving' = [leaving EXCEPT ![p] =
                  [pc |-> "hand over", todo |-> l.todo \ {b}, at |-> b, heir |-> q,
                   fate |-> l.fate]]
    /\ UNCHANGED <<account, draft, business, member, emailed, req, claim, late>>

\* The heir becomes the creator in place of p, which needs the heir's row, and
\* an owner if no one else is.
HandOver(p) ==
    LET l == leaving[p] IN
    /\ l.pc = "hand over"
    /\ business[l.at].creator = p => PersonFree(l.heir)
    /\ leaving' = [leaving EXCEPT ![p] =
          Visiting(l.todo, [l.fate EXCEPT ![l.at] =
             [kind |-> "kept",
              creator |-> IF business[l.at].creator = p THEN l.heir ELSE None,
              owner |-> IF Owners(l.at) \ {p} = {} THEN l.heir ELSE None]])]
    /\ UNCHANGED <<account, draft, business, member, emailed, req, claim, late>>

\* The cascades and the COMMIT: the account goes with its drafts, its places
\* and the businesses that end, and what the trigger did becomes visible.
Leaves(p) ==
    LET l == leaving[p] IN
    /\ l.pc = "visit" /\ l.todo = {}
    /\ account' = [account EXCEPT ![p] = "deleted"]
    /\ draft' = [d \in Drafts |->
          IF d \in OpenDrafts(p) THEN Discarded ELSE draft[d]]
    /\ business' = [b \in Businesses |->
          IF l.fate[b] = Ended THEN [state |-> "gone", creator |-> None]
          ELSE IF l.fate[b].creator # None
            THEN [business[b] EXCEPT !.creator = l.fate[b].creator]
          ELSE business[b]]
    /\ member' = [b \in Businesses |-> [q \in People |->
          IF q = p \/ l.fate[b] = Ended THEN NoPlace
          ELSE IF q = l.fate[b].owner THEN [member[b][q] EXCEPT !.role = "owner"]
          ELSE member[b][q]]]
    /\ emailed' = [b \in Businesses |-> IF l.fate[b] = Ended THEN NoAddress ELSE emailed[b]]
    /\ leaving' = [leaving EXCEPT ![p] = Staying]
    /\ UNCHANGED <<req, claim, late>>

\* The database gives up on it (a deadlock, a statement of 20 s), or it fails.
LeaveFails(p) ==
    /\ leaving[p].pc # "no"
    /\ leaving' = [leaving EXCEPT ![p] = Staying]
    /\ late' = [b \in Businesses |-> IF leaving[p].fate[b] = Ended THEN {} ELSE late[b]]
    /\ UNCHANGED <<account, draft, business, member, emailed, req, claim>>

----------------------------------------------------------------------------

RequestNext ==
    \/ \E r \in Requests :
        \/ \E p \in Founders : CreateDraft(r, p)
        \/ \E d \in Drafts : InsertDraft(r, d) \/ Complete(r, d)
        \/ \E b \in Businesses : Found(r, b)
        \/ \E p, q \in People, b \in Businesses :
             Remove(r, p, b, q) \/ \E role \in Offered : Invite(r, p, b, q, role)
        \/ WriteDown(r) \/ Offer(r)
        \/ LockBusiness(r) \/ Delete(r) \/ DeleteInvitation(r)
        \/ RequestFails(r)
    \/ \E d \in Drafts : DeleteDraft(d)

PersonNext ==
    \E p \in People :
        \/ SignUp(p) \/ Confirm(p) \/ ClaimRead(p) \/ ClaimEnd(p) \/ ClaimFails(p)
        \/ \E b \in Businesses :
             ClaimInsert(p, b) \/ Expire(b, p) \/ Accept(b, p) \/ Decline(b, p)
        \/ Leave(p) \/ HandOver(p) \/ Leaves(p) \/ LeaveFails(p)
        \/ \E b \in Businesses : Visit(p, b)

Next == RequestNext \/ PersonNext

Spec == Init /\ [][Next]_vars

----------------------------------------------------------------------------
(* Properties.                                                             *)

TypeOK ==
    /\ account \in [People -> {"none", "unconfirmed", "confirmed", "deleted"}]
    /\ draft \in [Drafts -> Draft]
    /\ business \in [Businesses -> Business]
    /\ member \in [Businesses -> [People -> Place]]
    /\ emailed \in [Businesses -> [People -> Roles \cup {None}]]
    /\ req \in [Requests -> Request]
    /\ claim \in [People -> Claim]
    /\ leaving \in [People -> Leaving]
    /\ late \in [Businesses -> SUBSET People]

\* A business always has an owner who has accepted, whoever removes whom and
\* whoever leaves at the same time ("A business must have at least one owner").
OwnerRemains ==
    \A b \in Businesses : business[b].state = "open" => Owners(b) # {}

\* A person never has more than MAX_INCOMPLETE_DRAFTS drafts, however many
\* creations run at once.
DraftsAreLimited ==
    \A p \in People : Cardinality(OpenDrafts(p)) <= MaxDrafts

\* A member who has accepted is never made to accept again nor given another
\* role, except that the heir of a person who leaves becomes an owner: an
\* invitation that was on its way when they accepted changes nothing.
MembersAreNotReset ==
    [][\A b \in Businesses, p \in People :
        Accepted(b, p) =>
          \/ member'[b][p] \in {member[b][p], NoPlace}
          \/ /\ member'[b][p] = [state |-> "accepted", role |-> "owner"]
             /\ \E q \in People : account[q] # "deleted" /\ account'[q] = "deleted"]_vars

\* A business that people still belong to survives whoever leaves; the only
\* ones to lose it are those who joined while it was already being ended.
OnlyLatecomersLoseIt ==
    [][\A b \in Businesses, p \in People :
        /\ business[b].state = "open" /\ business'[b].state = "gone"
        /\ Accepted(b, p) /\ account'[p] # "deleted"
        => p \in late[b]]_vars

\* "A business that other people still belong to must survive its creator
\* leaving" (migration 0011).
BusinessesSurvive ==
    [][\A b \in Businesses, p \in People :
        /\ business[b].state = "open" /\ Accepted(b, p) /\ account'[p] # "deleted"
        => business'[b].state = "open"]_vars
=============================================================================
