------------------------- MODULE MembershipsProofs -------------------------
(***************************************************************************)
(* Proofs about Memberships, for any people, businesses, drafts, requests  *)
(* and bounds.                                                             *)
(***************************************************************************)
EXTENDS Memberships, TLAPS, FiniteSetTheorems

----------------------------------------------------------------------------
(* The inductive invariant.                                                *)

\* What a request at work knows.
RequestFit(q) ==
    /\ q.pc \in {"mail", "invite", "remove", "delete", "uninvite"} => q.at \in Businesses
    /\ q.pc \in {"mail", "invite"} => q.other \in People
    /\ q.pc \in {"draft", "complete"} => q.by \in People
    /\ q.pc = "complete" => q.draft \in Drafts

RequestsFit == \A r \in Requests : RequestFit(req[r])

\* What a person who leaves knows.
LeaverFit(l) ==
    /\ l.pc = "hand over" => l.at \in Businesses /\ l.heir \in People
    /\ l.pc # "hand over" => l.at = None
    /\ \A b \in Businesses : l.fate[b] \in {Open, Ended} \/ l.fate[b].kind = "kept"

LeaversFit ==
    \A p \in People : LeaverFit(leaving[p]) /\ (leaving[p].pc # "no" => HasAccount(p))

\* A draft is somebody's.
DraftsFit == \A d \in Drafts : draft[d].state = "open" => draft[d].by \in People

TypeInv == TypeOK /\ RequestsFit /\ LeaversFit /\ DraftsFit

\* A business that is not there yet has no members, and nobody is at it.
Unused ==
    \A b \in Businesses : business[b].state = "unused" =>
        /\ \A p \in People : member[b][p].state = "none" /\ ~Held(p, b)
        /\ \A r \in Requests : req[r].pc \in {"remove", "delete"} => req[r].at # b

\* The row of a business is locked by one removal or one deletion at a time.
Removing(r, b) == req[r].pc = "delete" /\ req[r].at = b

LocksHold ==
    \A b \in Businesses :
        /\ \A r, s \in Requests : Removing(r, b) /\ Removing(s, b) => r = s
        /\ \A r \in Requests, p \in People : ~(Removing(r, b) /\ Held(p, b))
        /\ \A p, q \in People : Held(p, b) /\ Held(q, b) => p = q

\* Another owner remains when the one about to be deleted is gone.
RemovalsFit ==
    \A r \in Requests, b \in Businesses :
        Removing(r, b) /\ req[r].other # None /\ business[b].state = "open" =>
            \E q \in People : q # req[r].other /\ Owner(b, q)

\* Who leaves has locked, or is still to lock, every business of theirs.
VisitFit(p, l, b) ==
    l.pc # "no" /\ business[b].state = "open" /\ member[b][p].state # "none" =>
        b \in l.todo \/ l.at = b \/ l.fate[b] # Open

\* The heir is another member; a business that is kept has another owner, or an
\* heir who is to be one.
HeirFit(p, l, b) ==
    business[b].state = "open" =>
        /\ l.at = b => l.heir \in People \ {p} /\ Accepted(b, l.heir)
        /\ l.fate[b].kind = "kept" =>
             \/ \E q \in People \ {p} : Owner(b, q)
             \/ l.fate[b].owner \in People \ {p} /\ Accepted(b, l.fate[b].owner)

HeirsFit ==
    \A p \in People, b \in Businesses :
        VisitFit(p, leaving[p], b) /\ HeirFit(p, leaving[p], b)

OwnersInv == Unused /\ LocksHold /\ RemovalsFit /\ HeirsFit /\ OwnerRemains

IInv == TypeInv /\ OwnersInv

----------------------------------------------------------------------------
(* Type correctness.                                                       *)

RowsOK ==
    /\ account \in [People -> {"none", "unconfirmed", "confirmed", "deleted"}]
    /\ draft \in [Drafts -> Draft] /\ DraftsFit
    /\ business \in [Businesses -> Business]
    /\ emailed \in [Businesses -> [People -> Roles \cup {None}]]
    /\ late \in [Businesses -> SUBSET People]

PlacesOK == member \in [Businesses -> [People -> Place]]

RequestsOK == req \in [Requests -> Request] /\ RequestsFit

ClaimsOK == claim \in [People -> Claim]

LeaversOK == leaving \in [People -> Leaving] /\ LeaversFit

LEMMA TypeParts == TypeInv <=> RowsOK /\ PlacesOK /\ RequestsOK /\ ClaimsOK /\ LeaversOK
  BY DEF TypeInv, TypeOK, RowsOK, PlacesOK, RequestsOK, ClaimsOK, LeaversOK

LEMMA TypePartsNext == TypeInv' <=> RowsOK' /\ PlacesOK' /\ RequestsOK' /\ ClaimsOK' /\ LeaversOK'
  BY TypeParts, PTL

LEMMA IdleFit == Idle \in Request /\ RequestFit(Idle) /\ Idle.pc = "idle"
  BY DEF Idle, Asking, Request, RequestFit, Roles

LEMMA AskingFit ==
  ASSUME NEW pc \in {"draft", "complete", "mail", "invite", "remove", "uninvite"},
         NEW p \in People \cup {None}, NEW d \in Drafts \cup {None},
         NEW b \in Businesses \cup {None}, NEW q \in People \cup {None},
         NEW role \in Roles
  PROVE  Asking(pc, p, d, b, q, role) \in Request
  BY DEF Asking, Request

\* Another step of one request.
LEMMA BecomesType ==
  ASSUME RequestsOK, NEW r \in Requests, NEW q \in Request, RequestFit(q), Becomes(r, q)
  PROVE  RequestsOK'
  BY DEF RequestsOK, RequestsFit, Becomes

LEMMA EndsType ==
  ASSUME RequestsOK, NEW r \in Requests, Ends(r)
  PROVE  RequestsOK'
  BY IdleFit, BecomesType DEF Ends

\* A request that forgets which row it was about is none of those that offer.
LEMMA ForgettingType ==
  ASSUME RequestsOK, NEW b, NEW p, NEW pcs \in {OfMember, OfInvitation}
  PROVE  /\ Forgetting(b, p, pcs) \in [Requests -> Request]
         /\ \A r \in Requests : RequestFit(Forgetting(b, p, pcs)[r])
<1>1. SUFFICES ASSUME NEW r \in Requests
               PROVE  /\ Forgetting(b, p, pcs)[r] \in Request
                      /\ RequestFit(Forgetting(b, p, pcs)[r])
  BY DEF Forgetting
<1>2. CASE req[r].pc \in pcs /\ req[r].at = b /\ req[r].other = p
  <2>1. Forgetting(b, p, pcs)[r] = [req[r] EXCEPT !.other = None]
    BY <1>2 DEF Forgetting
  <2>2. req[r] \in Request /\ RequestFit(req[r]) /\ req[r].pc \notin {"mail", "invite"}
    BY <1>2 DEF RequestsOK, RequestsFit, OfMember, OfInvitation
  <2>3. QED
    BY <2>1, <2>2 DEF Request, RequestFit
<1>3. CASE ~(req[r].pc \in pcs /\ req[r].at = b /\ req[r].other = p)
  <2>1. Forgetting(b, p, pcs)[r] = req[r]
    BY <1>3 DEF Forgetting
  <2>2. QED
    BY <2>1 DEF RequestsOK, RequestsFit
<1>4. QED
  BY <1>2, <1>3

LEMMA PlaceType ==
  ASSUME PlacesOK, NEW b \in Businesses, NEW p \in People, NEW place \in Place,
         SetPlace(b, p, place)
  PROVE  PlacesOK'
  BY DEF PlacesOK, SetPlace

LEMMA NoPlaceType == NoPlace \in Place
  BY DEF NoPlace, Place, Roles

LEMMA InitType == Init => TypeInv
<1>1. SUFFICES ASSUME Init PROVE RowsOK /\ PlacesOK /\ RequestsOK /\ ClaimsOK /\ LeaversOK
  BY TypeParts
<1>2. RowsOK
  BY <1>1 DEF Init, RowsOK, DraftsFit, Draft, Business, NoAddress
<1>3. PlacesOK
  BY <1>1, NoPlaceType DEF Init, PlacesOK
<1>4. RequestsOK
  BY <1>1, IdleFit DEF Init, RequestsOK, RequestsFit
<1>5. ClaimsOK
  BY <1>1 DEF Init, ClaimsOK, Claim, NoClaim, Nobody
<1>6. LeaversOK
  BY <1>1 DEF Init, LeaversOK, LeaversFit, LeaverFit, Leaving, Staying, Fate, Open
<1>7. QED
  BY <1>2, <1>3, <1>4, <1>5, <1>6

\* The steps of a request that leave members and invitations alone.
LEMMA AskType ==
  ASSUME TypeInv, NEW r \in Requests,
         \/ \E p \in People : CreateDraft(r, p)
         \/ \E d \in Drafts : InsertDraft(r, d) \/ Complete(r, d)
         \/ \E p, q \in People, b \in Businesses :
              Remove(r, p, b, q) \/ \E role \in Roles : Invite(r, p, b, q, role)
         \/ LockBusiness(r)
         \/ RequestFails(r)
  PROVE  TypeInv'
<1> USE TypeParts
<1>0. UNCHANGED <<account, business, member, emailed, claim, leaving, late>>
  BY DEF CreateDraft, InsertDraft, Complete, Remove, Invite, LockBusiness, RequestFails
<1>1. PlacesOK' /\ ClaimsOK'
  BY <1>0 DEF PlacesOK, ClaimsOK
<1>2. LeaversOK'
  BY <1>0 DEF LeaversOK, LeaversFit, HasAccount
<1>3. req[r] \in Request /\ RequestFit(req[r])
  BY DEF RequestsOK, RequestsFit
<1>4. SUFFICES RowsOK' /\ RequestsOK'
  BY <1>1, <1>2, TypePartsNext
<1>5. ASSUME UNCHANGED draft PROVE RowsOK'
  BY <1>0, <1>5 DEF RowsOK, DraftsFit
<1>6. ASSUME NEW p \in People, CreateDraft(r, p) PROVE RowsOK' /\ RequestsOK'
  <2>1. RequestFit(Asking("draft", p, None, None, None, "member"))
    BY DEF RequestFit, Asking
  <2>2. Becomes(r, Asking("draft", p, None, None, None, "member")) /\ UNCHANGED draft
    BY <1>6 DEF CreateDraft
  <2>3. QED
    BY <2>1, <2>2, <1>5, AskingFit, BecomesType DEF Roles
<1>7. ASSUME NEW d \in Drafts, InsertDraft(r, d) PROVE RowsOK' /\ RequestsOK'
  <2>1. req[r].by \in People /\ Ends(r)
    BY <1>3, <1>7 DEF InsertDraft, RequestFit
  <2>2. draft' = [draft EXCEPT ![d] = [state |-> "open", by |-> req[r].by]]
    BY <1>7 DEF InsertDraft
  <2>3. RowsOK'
    BY <1>0, <2>1, <2>2 DEF RowsOK, DraftsFit, Draft
  <2>4. QED
    BY <2>1, <2>3, EndsType
<1>8. ASSUME NEW d \in Drafts, Complete(r, d) PROVE RowsOK' /\ RequestsOK'
  <2> DEFINE q == Asking("complete", draft[d].by, d, None, None, "member")
  <2>1. draft[d].by \in People /\ Becomes(r, q) /\ UNCHANGED draft
    BY <1>8 DEF Complete, RowsOK, DraftsFit
  <2>2. q \in Request
    BY <2>1, AskingFit DEF Roles
  <2>3. RequestFit(q)
    BY <2>1 DEF RequestFit, Asking
  <2> HIDE DEF q
  <2>4. QED
    BY <2>1, <2>2, <2>3, <1>5, BecomesType
<1>9. ASSUME NEW p \in People, NEW q \in People, NEW b \in Businesses, Remove(r, p, b, q)
      PROVE  RowsOK' /\ RequestsOK'
  <2>1. PICK pc \in {"remove", "uninvite"} :
          Becomes(r, Asking(pc, None, None, b, q, member[b][p].role))
    BY <1>9 DEF Remove
  <2>2. member[b][p].role \in Roles
    BY DEF PlacesOK, Place
  <2>3. RequestFit(Asking(pc, None, None, b, q, member[b][p].role))
    BY DEF RequestFit, Asking
  <2>4. UNCHANGED draft
    BY <1>9 DEF Remove
  <2>5. QED
    BY <2>1, <2>2, <2>3, <2>4, <1>5, AskingFit, BecomesType
<1>10. ASSUME NEW p \in People, NEW q \in People, NEW b \in Businesses, NEW role \in Roles,
              Invite(r, p, b, q, role)
       PROVE  RowsOK' /\ RequestsOK'
  <2>1. PICK pc \in {"mail", "invite"} : Becomes(r, Asking(pc, p, None, b, q, role))
    BY <1>10 DEF Invite
  <2>2. RequestFit(Asking(pc, p, None, b, q, role))
    BY DEF RequestFit, Asking
  <2>3. UNCHANGED draft
    BY <1>10 DEF Invite
  <2>4. QED
    BY <2>1, <2>2, <2>3, <1>5, AskingFit, BecomesType
<1>11. ASSUME LockBusiness(r) PROVE RowsOK' /\ RequestsOK'
  <2>1. [req[r] EXCEPT !.pc = "delete"] \in Request
    BY <1>3 DEF Request
  <2>2. RequestFit([req[r] EXCEPT !.pc = "delete"])
    BY <1>3, <1>11 DEF LockBusiness, RequestFit, Request
  <2>3. UNCHANGED draft
    BY <1>11 DEF LockBusiness
  <2>4. Becomes(r, [req[r] EXCEPT !.pc = "delete"]) \/ Ends(r)
    BY <1>11 DEF LockBusiness
  <2>5. QED
    BY <2>1, <2>2, <2>3, <2>4, <1>5, BecomesType, EndsType
<1>12. ASSUME RequestFails(r) PROVE RowsOK' /\ RequestsOK'
  BY <1>5, <1>12, EndsType DEF RequestFails
<1>13. QED
  BY <1>6, <1>7, <1>8, <1>9, <1>10, <1>11, <1>12

\* A business and its first owner.
LEMMA FoundType ==
  ASSUME TypeInv, NEW r \in Requests, NEW b \in Businesses, Found(r, b)
  PROVE  TypeInv'
<1> USE TypeParts
<1>1. req[r].by \in People /\ req[r].draft \in Drafts
  BY DEF Found, RequestsOK, RequestsFit, RequestFit
<1>2. PlacesOK'
  BY <1>1, PlaceType DEF Found, Place, Roles
<1>3. RowsOK'
  BY <1>1 DEF Found, RowsOK, DraftsFit, Draft, Business, Discarded
<1>4. RequestsOK'
  BY EndsType DEF Found
<1>5. ClaimsOK'
  BY DEF Found, ClaimsOK
<1>6. LeaversOK'
  BY DEF Found, LeaversOK, LeaversFit, HasAccount
<1>7. QED
  BY <1>2, <1>3, <1>4, <1>5, <1>6, TypePartsNext

LEMMA WriteDownType ==
  ASSUME TypeInv, NEW r \in Requests, WriteDown(r)
  PROVE  TypeInv'
<1> USE TypeParts
<1>1. req[r].at \in Businesses /\ req[r].other \in People /\ req[r].role \in Roles
  BY DEF WriteDown, RequestsOK, RequestsFit, RequestFit, Request
<1>2. RowsOK'
  BY <1>1 DEF WriteDown, RowsOK, DraftsFit
<1>3. RequestsOK'
  BY EndsType DEF WriteDown
<1>4. PlacesOK' /\ ClaimsOK'
  BY DEF WriteDown, PlacesOK, ClaimsOK
<1>5. LeaversOK'
  BY DEF WriteDown, LeaversOK, LeaversFit, HasAccount
<1>6. QED
  BY <1>2, <1>3, <1>4, <1>5, TypePartsNext

LEMMA OfferType ==
  ASSUME TypeInv, NEW r \in Requests, Offer(r)
  PROVE  TypeInv'
<1> USE TypeParts
<1>1. req[r].at \in Businesses /\ req[r].other \in People /\ req[r].role \in Roles
  BY DEF Offer, RequestsOK, RequestsFit, RequestFit, Request
<1>2. PlacesOK'
  BY <1>1, PlaceType DEF Offer, Place
<1>3. RequestsOK'
  BY EndsType DEF Offer
<1>4. RowsOK' /\ ClaimsOK'
  BY DEF Offer, RowsOK, DraftsFit, ClaimsOK
<1>5. LeaversOK'
  BY DEF Offer, LeaversOK, LeaversFit, HasAccount
<1>6. QED
  BY <1>2, <1>3, <1>4, <1>5, TypePartsNext

\* A request that deletes a row ends, and others forget the row.
LEMMA ForgottenType ==
  ASSUME RequestsOK, NEW r \in Requests, NEW b, NEW p, NEW pcs \in {OfMember, OfInvitation},
         req' = [Forgetting(b, p, pcs) EXCEPT ![r] = Idle]
  PROVE  RequestsOK'
  BY ForgettingType, IdleFit DEF RequestsOK, RequestsFit

LEMMA DeleteType ==
  ASSUME TypeInv, NEW r \in Requests, Delete(r) \/ DeleteInvitation(r)
  PROVE  TypeInv'
<1> USE TypeParts
<1>1. /\ req[r].at \in Businesses
      /\ req[r].other # None => req[r].other \in People
  BY DEF Delete, DeleteInvitation, RequestsOK, RequestsFit, RequestFit, Request
<1>2. PlacesOK'
  <2>1. CASE UNCHANGED member
    BY <2>1 DEF PlacesOK
  <2>2. CASE ~UNCHANGED member
    <3>1. SetPlace(req[r].at, req[r].other, NoPlace) /\ req[r].other # None
      BY <2>2 DEF Delete, DeleteInvitation
    <3>2. QED
      BY <1>1, <3>1, PlaceType, NoPlaceType
  <2>3. QED
    BY <2>1, <2>2
<1>3. RowsOK'
  BY <1>1 DEF Delete, DeleteInvitation, RowsOK, DraftsFit
<1>4. RequestsOK'
  <2>1. \/ Ends(r)
        \/ \E pcs \in {OfMember, OfInvitation} :
              req' = [Forgetting(req[r].at, req[r].other, pcs) EXCEPT ![r] = Idle]
    BY DEF Delete, DeleteInvitation
  <2>2. QED
    BY <2>1, EndsType, ForgottenType
<1>5. ClaimsOK'
  BY DEF Delete, DeleteInvitation, ClaimsOK
<1>6. LeaversOK'
  BY DEF Delete, DeleteInvitation, LeaversOK, LeaversFit, HasAccount
<1>7. QED
  BY <1>2, <1>3, <1>4, <1>5, <1>6, TypePartsNext

LEMMA SameRequestsType ==
  ASSUME RequestsOK, UNCHANGED req
  PROVE  RequestsOK'
  BY DEF RequestsOK, RequestsFit

LEMMA DeleteDraftType ==
  ASSUME TypeInv, NEW d \in Drafts, DeleteDraft(d)
  PROVE  TypeInv'
<1> USE TypeParts
<1>1. RowsOK'
  BY DEF DeleteDraft, RowsOK, DraftsFit, Draft, Discarded
<1>2. PlacesOK' /\ ClaimsOK'
  BY DEF DeleteDraft, PlacesOK, ClaimsOK
<1>3. LeaversOK' /\ RequestsOK'
  BY SameRequestsType DEF DeleteDraft, LeaversOK, LeaversFit, HasAccount
<1>4. QED
  BY <1>1, <1>2, <1>3, TypePartsNext

\* Accounts and claims.
LEMMA ClaimType ==
  ASSUME TypeInv, NEW p \in People,
         \/ SignUp(p) \/ Confirm(p) \/ ClaimRead(p) \/ ClaimEnd(p) \/ ClaimFails(p)
         \/ \E b \in Businesses : ClaimInsert(p, b)
  PROVE  TypeInv'
<1> USE TypeParts
<1> USE DEF SignUp, Confirm, ClaimRead, ClaimInsert, ClaimEnd, ClaimFails
<1>1. RowsOK'
  <2>1. UNCHANGED <<draft, business, late>>
    OBVIOUS
  <2>2. account' \in [People -> {"none", "unconfirmed", "confirmed", "deleted"}]
    BY DEF RowsOK
  <2>3. emailed' \in [Businesses -> [People -> Roles \cup {None}]]
    <3>1. emailed' = emailed
            \/ emailed' = [b \in Businesses |-> [emailed[b] EXCEPT ![p] = None]]
      OBVIOUS
    <3>2. QED
      BY <3>1 DEF RowsOK
  <2>4. QED
    BY <2>1, <2>2, <2>3 DEF RowsOK, DraftsFit
<1>2. PlacesOK'
  <2>1. CASE UNCHANGED member
    BY <2>1 DEF PlacesOK
  <2>2. ASSUME NEW b \in Businesses, ClaimInsert(p, b), ~UNCHANGED member
        PROVE  PlacesOK'
    <3>1. claim[p].rows[b] \in Roles
      BY <2>2 DEF ClaimsOK, Claim
    <3>2. SetPlace(b, p, [state |-> "pending", role |-> claim[p].rows[b]])
      BY <2>2
    <3>3. QED
      BY <3>1, <3>2, PlaceType DEF Place
  <2>3. QED
    BY <2>1, <2>2
<1>3. RequestsOK'
  <2>1. CASE UNCHANGED req
    BY <2>1, SameRequestsType
  <2>2. ASSUME ClaimEnd(p) PROVE RequestsOK'
    <3>1. ASSUME NEW r \in Requests
          PROVE  req'[r] \in Request /\ RequestFit(req'[r])
      <4>1. req[r] \in Request /\ RequestFit(req[r])
        BY DEF RequestsOK, RequestsFit
      <4>2. \/ req'[r] = req[r]
            \/ req[r].pc = "uninvite" /\ req'[r] = [req[r] EXCEPT !.other = None]
        BY <2>2 DEF OfInvitation
      <4>3. QED
        BY <4>1, <4>2 DEF Request, RequestFit
    <3>2. QED
      BY <2>2, <3>1 DEF RequestsOK, RequestsFit
  <2>3. QED
    BY <2>1, <2>2
<1>4. ClaimsOK'
  <2>1. \/ UNCHANGED claim
        \/ \E c \in Claim : claim' = [claim EXCEPT ![p] = c]
    <3>1. SignUp(p) => UNCHANGED claim
      OBVIOUS
    <3>2. [pc |-> "read", rows |-> Nobody] \in Claim /\ NoClaim \in Claim
      BY DEF Claim, Nobody, NoClaim
    <3>3. [pc |-> "insert", rows |-> [b \in Businesses |-> emailed[b][p]]] \in Claim
      BY DEF Claim, RowsOK
    <3>4. ASSUME NEW b \in Businesses
          PROVE  [pc |-> "insert", rows |-> [claim[p].rows EXCEPT ![b] = None]] \in Claim
      BY DEF Claim, ClaimsOK
    <3>5. QED
      BY <3>1, <3>2, <3>3, <3>4 DEF ClaimDone
  <2>2. QED
    BY <2>1 DEF ClaimsOK
<1>5. LeaversOK'
  BY DEF LeaversOK, LeaversFit, HasAccount, RowsOK
<1>6. QED
  BY <1>1, <1>2, <1>3, <1>4, <1>5, TypePartsNext

\* Answers to invitations, and those that expire.
LEMMA AnswerType ==
  ASSUME TypeInv, NEW p \in People, NEW b \in Businesses,
         Accept(b, p) \/ Decline(b, p) \/ Expire(b, p)
  PROVE  TypeInv'
<1> USE TypeParts
<1> USE DEF Accept, Decline, Expire
<1>1. RowsOK'
  <2>1. UNCHANGED <<account, draft, business>>
    OBVIOUS
  <2>2. emailed' \in [Businesses -> [People -> Roles \cup {None}]]
    BY DEF RowsOK
  <2>3. late' = late \/ late' = [late EXCEPT ![b] = late[b] \cup {p}]
    BY DEF RowsOK
  <2>4. late' \in [Businesses -> SUBSET People]
    BY <2>3 DEF RowsOK
  <2>5. QED
    BY <2>1, <2>2, <2>4 DEF RowsOK, DraftsFit
<1>2. PlacesOK'
  BY PlaceType, NoPlaceType DEF PlacesOK, Place
<1>3. RequestsOK'
  BY SameRequestsType, ForgettingType DEF RequestsOK, RequestsFit
<1>4. ClaimsOK' /\ LeaversOK'
  BY DEF ClaimsOK, LeaversOK, LeaversFit, HasAccount
<1>5. QED
  BY <1>1, <1>2, <1>3, <1>4, TypePartsNext

\* Another step of someone who leaves.
LEMMA LeaverType ==
  ASSUME LeaversOK, UNCHANGED account, NEW p \in People, NEW l \in Leaving,
         LeaverFit(l), l.pc # "no" => HasAccount(p),
         leaving' = [leaving EXCEPT ![p] = l]
  PROVE  LeaversOK'
  BY DEF LeaversOK, LeaversFit, HasAccount

LEMMA StayingFit == Staying \in Leaving /\ LeaverFit(Staying) /\ Staying.pc = "no"
  BY DEF Staying, Leaving, LeaverFit, Open, Fate

LEMMA VisitingFit ==
  ASSUME NEW todo \in SUBSET Businesses, NEW fate \in [Businesses -> Fate],
         \A b \in Businesses : fate[b] \in {Open, Ended} \/ fate[b].kind = "kept"
  PROVE  Visiting(todo, fate) \in Leaving /\ LeaverFit(Visiting(todo, fate))
  BY DEF Visiting, Leaving, LeaverFit

LEMMA BestFit ==
  ASSUME NEW b \in Businesses, NEW p \in People, NEW q \in Best(b, p)
  PROVE  q \in People \ {p} /\ Accepted(b, q)
  BY DEF Best, Others

LEMMA VisitType ==
  ASSUME TypeInv, NEW p \in People, NEW b \in Businesses, Visit(p, b)
  PROVE  LeaversOK'
<1> USE TypeParts
<1> DEFINE l == leaving[p]
<1>1. l \in Leaving /\ LeaverFit(l) /\ l.pc = "visit" /\ HasAccount(p) /\ UNCHANGED account
  BY DEF Visit, LeaversOK, LeaversFit
<1>2. l.todo \ {b} \in SUBSET Businesses /\ l.fate \in [Businesses -> Fate]
  BY <1>1 DEF Leaving
<1>3. CASE leaving' = [leaving EXCEPT ![p].todo = l.todo \ {b}]
  <2>1. [l EXCEPT !.todo = l.todo \ {b}] \in Leaving
    BY <1>1, <1>2 DEF Leaving
  <2>2. LeaverFit([l EXCEPT !.todo = l.todo \ {b}])
    BY <1>1 DEF Leaving, LeaverFit
  <2>3. leaving' = [leaving EXCEPT ![p] = [l EXCEPT !.todo = l.todo \ {b}]]
    BY <1>3
  <2>4. QED
    BY <1>1, <2>1, <2>2, <2>3, LeaverType
<1>4. CASE leaving' = [leaving EXCEPT ![p] = Visiting(l.todo \ {b}, [l.fate EXCEPT ![b] = Ended])]
  <2> DEFINE fate == [l.fate EXCEPT ![b] = Ended]
  <2>1. fate \in [Businesses -> Fate]
    BY <1>2 DEF Ended, Fate
  <2>2. \A c \in Businesses : fate[c] \in {Open, Ended} \/ fate[c].kind = "kept"
    BY <1>1, <1>2 DEF LeaverFit
  <2> HIDE DEF fate
  <2>3. Visiting(l.todo \ {b}, fate) \in Leaving /\ LeaverFit(Visiting(l.todo \ {b}, fate))
    BY <1>2, <2>1, <2>2, VisitingFit
  <2>4. QED
    BY <1>1, <1>4, <2>3, LeaverType DEF fate
<1>5. ASSUME NEW q \in Best(b, p),
             leaving' = [leaving EXCEPT ![p] =
               [pc |-> "hand over", todo |-> l.todo \ {b}, at |-> b, heir |-> q, fate |-> l.fate]]
      PROVE  LeaversOK'
  <2> DEFINE n == [pc |-> "hand over", todo |-> l.todo \ {b}, at |-> b, heir |-> q, fate |-> l.fate]
  <2>1. n \in Leaving /\ LeaverFit(n)
    BY <1>1, <1>2, BestFit DEF Leaving, LeaverFit
  <2> HIDE DEF n
  <2>2. QED
    BY <1>1, <1>5, <2>1, LeaverType DEF n
<1>6. QED
  BY <1>3, <1>4, <1>5 DEF Visit

LEMMA HandOverType ==
  ASSUME TypeInv, NEW p \in People, HandOver(p)
  PROVE  LeaversOK'
<1> USE TypeParts
<1> DEFINE l == leaving[p]
           kept == [kind |-> "kept",
                    creator |-> IF business[l.at].creator = p THEN l.heir ELSE None,
                    owner |-> IF Owners(l.at) \ {p} = {} THEN l.heir ELSE None]
           fate == [l.fate EXCEPT ![l.at] = kept]
<1>1. l \in Leaving /\ LeaverFit(l) /\ l.pc = "hand over" /\ HasAccount(p) /\ UNCHANGED account
  BY DEF HandOver, LeaversOK, LeaversFit
<1>2. l.at \in Businesses /\ l.heir \in People /\ l.todo \in SUBSET Businesses
  BY <1>1 DEF LeaverFit, Leaving
<1>3. kept \in Fate /\ kept.kind = "kept"
  BY <1>2 DEF Fate
<1> HIDE DEF kept
<1>4. /\ fate \in [Businesses -> Fate]
      /\ \A c \in Businesses : fate[c] \in {Open, Ended} \/ fate[c].kind = "kept"
  BY <1>1, <1>2, <1>3 DEF Leaving, LeaverFit
<1>5. leaving' = [leaving EXCEPT ![p] = Visiting(l.todo, fate)]
  BY DEF HandOver, kept
<1> HIDE DEF fate
<1>6. Visiting(l.todo, fate) \in Leaving /\ LeaverFit(Visiting(l.todo, fate))
  BY <1>2, <1>4, VisitingFit
<1>7. QED
  BY <1>1, <1>5, <1>6, LeaverType

\* The steps of a deletion before its COMMIT.
LEMMA LeavingType ==
  ASSUME TypeInv, NEW p \in People,
         Leave(p) \/ HandOver(p) \/ LeaveFails(p) \/ \E b \in Businesses : Visit(p, b)
  PROVE  TypeInv'
<1> USE TypeParts
<1>1. UNCHANGED <<account, draft, business, member, emailed, req, claim>>
  BY DEF Leave, HandOver, LeaveFails, Visit
<1>2. late' \in [Businesses -> SUBSET People]
  <2>1. late' = late
          \/ late' = [b \in Businesses |-> IF leaving[p].fate[b] = Ended THEN {} ELSE late[b]]
    BY DEF Leave, HandOver, LeaveFails, Visit
  <2>2. QED
    BY <2>1 DEF RowsOK
<1>3. RowsOK'
  BY <1>1, <1>2 DEF RowsOK, DraftsFit
<1>4. PlacesOK' /\ ClaimsOK' /\ RequestsOK'
  BY <1>1, SameRequestsType DEF PlacesOK, ClaimsOK
<1>5. LeaversOK'
  <2>1. ASSUME Leave(p) PROVE LeaversOK'
    <3> DEFINE todo == {b \in Businesses : /\ business[b].state = "open"
                                           /\ \/ business[b].creator = p
                                              \/ member[b][p].state # "none"}
    <3>1. /\ Staying.fate \in [Businesses -> Fate]
          /\ \A b \in Businesses : Staying.fate[b] = Open
      BY DEF Staying, Open, Fate
    <3>2. leaving' = [leaving EXCEPT ![p] = Visiting(todo, Staying.fate)] /\ HasAccount(p)
      BY <2>1 DEF Leave, PersonUnused, PersonFree
    <3>3. todo \in SUBSET Businesses
      OBVIOUS
    <3> HIDE DEF todo
    <3>4. Visiting(todo, Staying.fate) \in Leaving /\ LeaverFit(Visiting(todo, Staying.fate))
      BY <3>1, <3>3, VisitingFit
    <3>5. QED
      BY <1>1, <3>2, <3>4, LeaverType
  <2>2. ASSUME LeaveFails(p) PROVE LeaversOK'
    BY <1>1, <2>2, LeaverType, StayingFit DEF LeaveFails
  <2>3. QED
    BY <2>1, <2>2, VisitType, HandOverType
<1>6. QED
  BY <1>3, <1>4, <1>5, TypePartsNext

LEMMA LeavesType ==
  ASSUME TypeInv, NEW p \in People, Leaves(p)
  PROVE  TypeInv'
<1> USE TypeParts
<1> DEFINE l == leaving[p]
<1>1. l \in Leaving
  BY DEF LeaversOK
<1>2. RowsOK'
  <2>1. account' \in [People -> {"none", "unconfirmed", "confirmed", "deleted"}]
    BY DEF Leaves, RowsOK
  <2>2. draft' \in [Drafts -> Draft] /\ DraftsFit'
    BY DEF Leaves, RowsOK, DraftsFit, Draft, Discarded
  <2>3. business' \in [Businesses -> Business]
    <3>1. ASSUME NEW b \in Businesses PROVE business'[b] \in Business
      <4>1. l.fate[b].creator \in People \cup {None} /\ business[b] \in Business
        BY <1>1 DEF Leaving, Fate, RowsOK
      <4>2. business'[b] \in {[state |-> "gone", creator |-> None], business[b],
                              [business[b] EXCEPT !.creator = l.fate[b].creator]}
        BY DEF Leaves
      <4>3. QED
        BY <4>1, <4>2 DEF Business
    <3>2. QED
      BY <3>1 DEF Leaves
  <2>4. emailed' \in [Businesses -> [People -> Roles \cup {None}]]
    BY DEF Leaves, RowsOK, NoAddress
  <2>5. QED
    BY <2>1, <2>2, <2>3, <2>4 DEF RowsOK, Leaves
<1>3. PlacesOK'
  <2>1. ASSUME NEW b \in Businesses, NEW q \in People PROVE member'[b][q] \in Place
    <3>1. member[b][q] \in Place
      BY DEF PlacesOK
    <3>2. member'[b][q] \in {NoPlace, member[b][q], [member[b][q] EXCEPT !.role = "owner"]}
      BY DEF Leaves
    <3>3. QED
      BY <3>1, <3>2, NoPlaceType DEF Place, Roles
  <2>2. QED
    BY <2>1 DEF Leaves, PlacesOK
<1>4. ClaimsOK' /\ RequestsOK'
  BY SameRequestsType DEF Leaves, ClaimsOK
<1>5. LeaversOK'
  BY StayingFit DEF Leaves, LeaversOK, LeaversFit, HasAccount
<1>6. QED
  BY <1>2, <1>3, <1>4, <1>5, TypePartsNext

LEMMA SameType ==
  ASSUME TypeInv, UNCHANGED vars
  PROVE  TypeInv'
<1>1. TypeInv' = TypeInv
  BY DEF vars, TypeInv, TypeOK, RequestsFit, LeaversFit, DraftsFit, HasAccount
<1>2. QED
  BY <1>1

LEMMA TypeStep ==
  ASSUME TypeInv, [Next]_vars
  PROVE  TypeInv'
<1>1. ASSUME RequestNext PROVE TypeInv'
  <2>1. ASSUME NEW r \in Requests, NEW p \in Founders, CreateDraft(r, p) PROVE TypeInv'
    BY <2>1, AskType, FoundersAssumption
  <2>2. ASSUME NEW r \in Requests, NEW p \in People, NEW q \in People, NEW b \in Businesses,
               NEW role \in Offered, Invite(r, p, b, q, role)
        PROVE  TypeInv'
    BY <2>2, AskType, OfferedAssumption DEF Roles
  <2>3. QED
    BY <1>1, <2>1, <2>2, AskType, FoundType, WriteDownType, OfferType, DeleteType, DeleteDraftType
       DEF RequestNext
<1>2. ASSUME PersonNext PROVE TypeInv'
  BY <1>2, ClaimType, AnswerType, LeavingType, LeavesType DEF PersonNext
<1>3. QED
  BY <1>1, <1>2, SameType DEF Next

\* Rows, requests, claims and deletions stay well typed, whatever runs at once:
\* the role of an invitation that is claimed, say, is one that was written down.
THEOREM TypeCorrect == Spec => []TypeOK
<1>1. TypeInv => TypeOK
  BY DEF TypeInv
<1>2. QED
  BY InitType, TypeStep, <1>1, PTL DEF Spec

----------------------------------------------------------------------------
(* The last owner.  Most steps are calm: no business and no deletion of an *)
(* account changes, who has accepted stays, new places go to people who    *)
(* stay, in businesses that are there, and no lock is taken.               *)

CalmPlaces ==
    \A b \in Businesses, p \in People :
        /\ Accepted(b, p) => member'[b][p] = member[b][p]
        /\ member[b][p].state = "none" /\ member'[b][p].state # "none" =>
             business[b].state = "open" /\ leaving[p].pc = "no"

SameLock(r) ==
    /\ req'[r].pc = req[r].pc
    /\ req'[r].at = req[r].at
    /\ req'[r].other \in {req[r].other, None}

CalmRequests ==
    \A r \in Requests :
        req'[r].pc \in {"remove", "delete"} =>
            \/ SameLock(r)
            \/ req'[r].pc = "remove" /\ business[req'[r].at].state # "unused"

Calm == UNCHANGED <<business, leaving>> /\ CalmPlaces /\ CalmRequests

LEMMA CalmKeeps ==
  ASSUME OwnersInv, Calm
  PROVE  OwnersInv'
<1>1. /\ \A b \in Businesses, p \in People : Accepted(b, p) => Accepted(b, p)'
      /\ \A b \in Businesses, p \in People : Owner(b, p) => Owner(b, p)'
  BY DEF Calm, CalmPlaces, Accepted, Owner
<1>2. \A p \in People, b \in Businesses : Held(p, b)' = Held(p, b)
  BY DEF Calm, Held
<1>3. ASSUME NEW r \in Requests, NEW b \in Businesses, Removing(r, b)'
      PROVE  Removing(r, b) /\ SameLock(r)
  BY <1>3 DEF Calm, CalmRequests, SameLock, Removing
<1>4. Unused'
  <2>1. SUFFICES ASSUME NEW b \in Businesses, business[b].state = "unused"
                 PROVE  /\ \A p \in People : member'[b][p].state = "none" /\ ~Held(p, b)
                        /\ \A r \in Requests : req'[r].pc \in {"remove", "delete"} => req'[r].at # b
    BY <1>2 DEF Unused, Calm
  <2>2. ASSUME NEW p \in People PROVE member'[b][p].state = "none" /\ ~Held(p, b)
    BY <2>1 DEF OwnersInv, Unused, Calm, CalmPlaces
  <2>3. ASSUME NEW r \in Requests, req'[r].pc \in {"remove", "delete"} PROVE req'[r].at # b
    BY <2>1, <2>3 DEF OwnersInv, Unused, Calm, CalmRequests, SameLock
  <2>4. QED
    BY <2>2, <2>3
<1>5. LocksHold'
  BY <1>2, <1>3 DEF OwnersInv, LocksHold
<1>6. RemovalsFit'
  <2>1. SUFFICES ASSUME NEW r \in Requests, NEW b \in Businesses, Removing(r, b)',
                        req'[r].other # None, business[b].state = "open"
                 PROVE  \E q \in People : q # req'[r].other /\ Owner(b, q)'
    BY DEF RemovalsFit, Calm
  <2>2. Removing(r, b) /\ req'[r].other = req[r].other
    BY <2>1, <1>3 DEF SameLock
  <2>3. QED
    BY <2>1, <2>2, <1>1 DEF OwnersInv, RemovalsFit
<1>7. HeirsFit'
  <2>1. SUFFICES ASSUME NEW p \in People, NEW b \in Businesses
                 PROVE  VisitFit(p, leaving[p], b)' /\ HeirFit(p, leaving[p], b)'
    BY DEF HeirsFit
  <2>2. VisitFit(p, leaving[p], b) /\ HeirFit(p, leaving[p], b)
    BY DEF OwnersInv, HeirsFit
  <2>3. VisitFit(p, leaving[p], b)'
    BY <2>2 DEF VisitFit, Calm, CalmPlaces
  <2>4. HeirFit(p, leaving[p], b)'
    BY <2>2, <1>1 DEF HeirFit, Calm
  <2>5. QED
    BY <2>3, <2>4
<1>8. OwnerRemains'
  BY <1>1 DEF OwnersInv, OwnerRemains, Owners, Calm
<1>9. QED
  BY <1>4, <1>5, <1>6, <1>7, <1>8 DEF OwnersInv

LEMMA SamePlacesCalm == UNCHANGED member => CalmPlaces
  BY DEF CalmPlaces

LEMMA SetPlaceCalm ==
  ASSUME TypeInv, NEW b \in Businesses, NEW p \in People, NEW place, SetPlace(b, p, place),
         ~Accepted(b, p),
         member[b][p].state = "none" => business[b].state = "open" /\ leaving[p].pc = "no"
  PROVE  CalmPlaces
<1>1. /\ member'[b][p] = place
      /\ \A c \in Businesses, q \in People : c # b \/ q # p => member'[c][q] = member[c][q]
  BY DEF SetPlace, TypeInv, TypeOK
<1>2. QED
  BY <1>1 DEF CalmPlaces, Accepted

LEMMA SameRequestsCalm == UNCHANGED req => CalmRequests
  BY DEF CalmRequests, SameLock

LEMMA BecomesCalm ==
  ASSUME TypeInv, NEW r \in Requests, NEW q, Becomes(r, q),
         q.pc = "remove" => business[q.at].state # "unused",
         q.pc # "delete"
  PROVE  CalmRequests
<1>1. req'[r] = q /\ \A s \in Requests : s # r => req'[s] = req[s]
  BY DEF Becomes, TypeInv, TypeOK
<1>2. QED
  BY <1>1 DEF CalmRequests, SameLock

LEMMA EndsCalm ==
  ASSUME TypeInv, NEW r \in Requests, Ends(r)
  PROVE  CalmRequests
  BY IdleFit, BecomesCalm DEF Ends

LEMMA ForgettingSame ==
  ASSUME TypeInv, NEW b, NEW p, NEW pcs, NEW r \in Requests
  PROVE  /\ Forgetting(b, p, pcs)[r].pc = req[r].pc
         /\ Forgetting(b, p, pcs)[r].at = req[r].at
         /\ Forgetting(b, p, pcs)[r].other \in {req[r].other, None}
         /\ req[r].pc \in pcs /\ req[r].at = b /\ req[r].other = p =>
              Forgetting(b, p, pcs)[r].other = None
<1>1. req[r] \in Request
  BY DEF TypeInv, TypeOK
<1>2. CASE req[r].pc \in pcs /\ req[r].at = b /\ req[r].other = p
  <2>1. Forgetting(b, p, pcs)[r] = [req[r] EXCEPT !.other = None]
    BY <1>2 DEF Forgetting
  <2>2. QED
    BY <1>1, <2>1 DEF Request
<1>3. CASE ~(req[r].pc \in pcs /\ req[r].at = b /\ req[r].other = p)
  <2>1. Forgetting(b, p, pcs)[r] = req[r]
    BY <1>3 DEF Forgetting
  <2>2. QED
    BY <1>3, <2>1
<1>4. QED
  BY <1>2, <1>3

LEMMA ForgettingCalm ==
  ASSUME TypeInv, NEW b, NEW p, NEW pcs, req' = Forgetting(b, p, pcs)
  PROVE  CalmRequests
  BY ForgettingSame DEF CalmRequests, SameLock

LEMMA ForgottenCalm ==
  ASSUME TypeInv, NEW b, NEW p, NEW pcs, NEW r \in Requests,
         req' = [Forgetting(b, p, pcs) EXCEPT ![r] = Idle]
  PROVE  CalmRequests
<1>1. req'[r] = Idle /\ \A s \in Requests : s # r => req'[s] = Forgetting(b, p, pcs)[s]
  BY DEF Forgetting
<1>2. QED
  BY <1>1, IdleFit, ForgettingSame DEF CalmRequests, SameLock

\* Drafts, and requests that only read or write elsewhere.
LEMMA AskCalm ==
  ASSUME TypeInv, OwnersInv, NEW r \in Requests,
         \/ \E p \in People : CreateDraft(r, p)
         \/ \E d \in Drafts : InsertDraft(r, d) \/ Complete(r, d)
         \/ \E p, q \in People, b \in Businesses :
              Remove(r, p, b, q) \/ \E role \in Roles : Invite(r, p, b, q, role)
         \/ LockBusiness(r) /\ ~MayRemove(req[r])
         \/ WriteDown(r) \/ DeleteInvitation(r) \/ RequestFails(r)
  PROVE  Calm
<1>1. UNCHANGED <<business, member, leaving>>
  BY DEF CreateDraft, InsertDraft, Complete, Remove, Invite, LockBusiness, WriteDown,
         DeleteInvitation, RequestFails
<1>2. SUFFICES CalmRequests
  BY <1>1, SamePlacesCalm DEF Calm
<1>3. ASSUME NEW p \in People, NEW q \in People, NEW b \in Businesses, Remove(r, p, b, q)
      PROVE  CalmRequests
  <2>1. business[b].state # "unused"
    BY <1>3 DEF Remove, Manages, Accepted, OwnersInv, Unused
  <2>2. PICK pc : Becomes(r, Asking(pc, None, None, b, q, member[b][p].role)) /\ pc # "delete"
    BY <1>3 DEF Remove
  <2>3. QED
    BY <2>1, <2>2, BecomesCalm DEF Asking
<1>4. ASSUME NEW p \in People, NEW q \in People, NEW b \in Businesses, NEW role \in Roles,
             Invite(r, p, b, q, role)
      PROVE  CalmRequests
  BY <1>4, BecomesCalm DEF Invite, Asking
<1>5. ASSUME NEW p \in People, CreateDraft(r, p) PROVE CalmRequests
  BY <1>5, BecomesCalm DEF CreateDraft, Asking
<1>6. ASSUME NEW d \in Drafts, Complete(r, d) PROVE CalmRequests
  BY <1>6, BecomesCalm DEF Complete, Asking
<1>7. ASSUME DeleteInvitation(r) PROVE CalmRequests
  BY <1>7, EndsCalm, ForgottenCalm DEF DeleteInvitation
<1>8. QED
  BY <1>3, <1>4, <1>5, <1>6, <1>7, EndsCalm DEF InsertDraft, LockBusiness, WriteDown, RequestFails

LEMMA OfferCalm ==
  ASSUME TypeInv, NEW r \in Requests, Offer(r)
  PROVE  Calm
<1>1. req[r].at \in Businesses /\ req[r].other \in People
  BY DEF Offer, TypeInv, RequestsFit, RequestFit
<1>2. CalmPlaces
  BY <1>1, SetPlaceCalm DEF Offer, Accepted, PersonFree
<1>3. QED
  BY <1>2, EndsCalm DEF Calm, Offer

\* Accounts, claims, and answers to invitations.
LEMMA PersonCalm ==
  ASSUME TypeInv, NEW p \in People,
         \/ SignUp(p) \/ Confirm(p) \/ ClaimRead(p) \/ ClaimEnd(p) \/ ClaimFails(p)
         \/ \E b \in Businesses :
              ClaimInsert(p, b) \/ Expire(b, p) \/ Accept(b, p) \/ Decline(b, p)
  PROVE  Calm
<1> USE DEF SignUp, Confirm, ClaimRead, ClaimInsert, ClaimEnd, ClaimFails, Expire, Accept, Decline
<1>1. UNCHANGED <<business, leaving>>
  OBVIOUS
<1>2. CalmPlaces
  BY SamePlacesCalm, SetPlaceCalm DEF Accepted, PersonFree
<1>3. CalmRequests
  <2>1. CASE UNCHANGED req
    BY <2>1, SameRequestsCalm
  <2>2. ASSUME ClaimEnd(p) PROVE CalmRequests
    <3>1. ASSUME NEW r \in Requests PROVE SameLock(r)
      <4>1. req[r] \in Request
        BY DEF TypeInv, TypeOK
      <4>2. req'[r] \in {req[r], [req[r] EXCEPT !.other = None]}
        BY <2>2
      <4>3. QED
        BY <4>1, <4>2 DEF SameLock, Request
    <3>2. QED
      BY <3>1 DEF CalmRequests
  <2>3. QED
    BY <2>1, <2>2, ForgettingCalm
<1>4. QED
  BY <1>1, <1>2, <1>3 DEF Calm

\* A new business has its founder, who is not leaving.
LEMMA FoundKeeps ==
  ASSUME TypeInv, OwnersInv, NEW r \in Requests, NEW b \in Businesses, Found(r, b)
  PROVE  OwnersInv'
<1>0. PICK p \in People : p = req[r].by
  BY DEF Found, TypeInv, RequestsFit, RequestFit
<1>1. leaving[p].pc = "no" /\ business[b].state = "unused"
  BY <1>0 DEF Found, PersonFree
<1>2. UNCHANGED leaving /\ CalmRequests /\ \A s \in Requests : req'[s] = req[s] \/ req'[s] = Idle
  BY EndsCalm DEF Found, Ends, Becomes, TypeInv, TypeOK
<1>3. /\ business'[b].state = "open" /\ Owner(b, p)'
      /\ \A q \in People : q # p => member'[b][q] = member[b][q]
      /\ \A c \in Businesses : c # b =>
           business'[c] = business[c] /\ \A q \in People : member'[c][q] = member[c][q]
  <2>1. /\ business' = [business EXCEPT ![b] = [state |-> "open", creator |-> p]]
        /\ member' = [member EXCEPT ![b][p] = [state |-> "accepted", role |-> "owner"]]
        /\ business \in [Businesses -> Business] /\ member \in [Businesses -> [People -> Place]]
    BY <1>0 DEF Found, SetPlace, TypeInv, TypeOK
  <2>2. /\ business'[b].state = "open"
        /\ \A c \in Businesses : c # b => business'[c] = business[c]
    BY <2>1
  <2>3. /\ member'[b][p] = [state |-> "accepted", role |-> "owner"]
        /\ \A q \in People : q # p => member'[b][q] = member[b][q]
        /\ \A c \in Businesses, q \in People : c # b => member'[c][q] = member[c][q]
    BY <1>1, <2>1
  <2>4. Owner(b, p)'
    BY <2>3 DEF Owner, Accepted
  <2>5. QED
    BY <2>2, <2>3, <2>4
<1>4. /\ \A q \in People : member[b][q].state = "none" /\ ~Held(q, b)
      /\ \A s \in Requests : ~Removing(s, b)
  BY <1>1 DEF OwnersInv, Unused, Removing
<1>5. /\ \A c \in Businesses, q \in People : Held(q, c)' = Held(q, c)
      /\ \A c \in Businesses, q \in People : Owner(c, q) => Owner(c, q)'
      /\ \A c \in Businesses, q \in People : Accepted(c, q) => Accepted(c, q)'
  BY <1>2, <1>3, <1>4 DEF Held, Owner, Accepted
<1>6. \A s \in Requests, c \in Businesses : Removing(s, c)' => Removing(s, c) /\ req'[s] = req[s]
  BY <1>2, IdleFit DEF Removing
<1>7. Unused'
  BY <1>2, <1>3, <1>5, IdleFit DEF OwnersInv, Unused
<1>8. LocksHold'
  BY <1>5, <1>6 DEF OwnersInv, LocksHold
<1>9. RemovalsFit'
  BY <1>3, <1>4, <1>5, <1>6 DEF OwnersInv, RemovalsFit
<1>10. HeirsFit'
  <2>1. SUFFICES ASSUME NEW q \in People, NEW c \in Businesses
                 PROVE  VisitFit(q, leaving[q], c)' /\ HeirFit(q, leaving[q], c)'
    BY DEF HeirsFit
  <2>2. VisitFit(q, leaving[q], c) /\ HeirFit(q, leaving[q], c)
    BY DEF OwnersInv, HeirsFit
  <2>3. CASE c = b
    <3>1. leaving[q].at # b /\ leaving[q].fate[b].kind # "kept"
      BY <1>4 DEF Held, Open
    <3>2. QED
      BY <1>1, <1>2, <1>3, <1>4, <2>3, <3>1 DEF VisitFit, HeirFit
  <2>4. CASE c # b
    <3>1. VisitFit(q, leaving[q], c)'
      BY <1>2, <1>3, <2>2, <2>4 DEF VisitFit
    <3>2. HeirFit(q, leaving[q], c)'
      BY <1>2, <1>3, <1>5, <2>2, <2>4 DEF HeirFit
    <3>3. QED
      BY <3>1, <3>2
  <2>5. QED
    BY <2>3, <2>4
<1>11. OwnerRemains'
  <2>1. ASSUME NEW c \in Businesses, business'[c].state = "open"
        PROVE  \E q \in People : Owner(c, q)'
    <3>1. CASE c = b
      BY <1>1, <1>3, <3>1
    <3>2. CASE c # b
      BY <1>3, <1>5, <2>1, <3>2 DEF OwnersInv, OwnerRemains, Owners
    <3>3. QED
      BY <3>1, <3>2
  <2>2. QED
    BY <2>1 DEF OwnerRemains, Owners
<1>12. QED
  BY <1>7, <1>8, <1>9, <1>10, <1>11 DEF OwnersInv

LEMMA MoreThanOne ==
  ASSUME NEW S, Cardinality(S) > 1, NEW x
  PROVE  \E y \in S : y # x
<1>1. SUFFICES ASSUME S = {} \/ S = {x} PROVE FALSE
  OBVIOUS
<1>2. Cardinality({}) = 0 /\ Cardinality({x}) = 1
  BY FS_EmptySet, FS_Singleton
<1>3. QED
  BY <1>1, <1>2

\* The lock is taken, and another owner is there.
LEMMA LockKeeps ==
  ASSUME TypeInv, OwnersInv, NEW r \in Requests, LockBusiness(r), MayRemove(req[r])
  PROVE  OwnersInv'
<1> DEFINE b == req[r].at
           o == req[r].other
<1>1. /\ req[r] \in Request /\ req[r].pc = "remove" /\ b \in Businesses /\ BusinessFree(b)
      /\ UNCHANGED <<business, member, leaving>>
      /\ Becomes(r, [req[r] EXCEPT !.pc = "delete"])
  BY DEF LockBusiness, TypeInv, TypeOK, RequestsFit, RequestFit
<1>2. /\ req'[r].pc = "delete" /\ req'[r].at = b /\ req'[r].other = o
      /\ \A s \in Requests : s # r => req'[s] = req[s]
  BY <1>1 DEF Becomes, Request, TypeInv, TypeOK
<1>3. business[b].state = "open" => \E q \in People : q # o /\ Owner(b, q)
  <2>1. CASE member[b][o].role = "owner"
    BY <2>1, MoreThanOne DEF MayRemove, Owners
  <2>2. CASE member[b][o].role # "owner"
    BY <1>1, <2>2 DEF OwnersInv, OwnerRemains, Owners, Owner
  <2>3. QED
    BY <2>1, <2>2
<1> HIDE DEF b, o
<1>4. /\ \A c \in Businesses, q \in People : Held(q, c)' = Held(q, c)
      /\ \A c \in Businesses, q \in People : Owner(c, q)' = Owner(c, q)
      /\ \A c \in Businesses, q \in People : Accepted(c, q)' = Accepted(c, q)
  BY <1>1 DEF Held, Owner, Accepted
<1>5. /\ \A s \in Requests, c \in Businesses : Removing(s, c)' <=>
           Removing(s, c) \/ (s = r /\ c = b)
      /\ \A s \in Requests : ~Removing(s, b)
      /\ \A q \in People : ~Held(q, b)
  BY <1>1, <1>2 DEF Removing, BusinessFree, b
<1>6. Unused'
  BY <1>1, <1>2, <1>4 DEF OwnersInv, Unused, b
<1>7. LocksHold'
  BY <1>4, <1>5 DEF OwnersInv, LocksHold
<1>8. RemovalsFit'
  <2>1. SUFFICES ASSUME NEW s \in Requests, NEW c \in Businesses, Removing(s, c)',
                        req'[s].other # None, business[c].state = "open"
                 PROVE  \E q \in People : q # req'[s].other /\ Owner(c, q)
    BY <1>1, <1>4 DEF RemovalsFit
  <2>2. CASE s = r
    BY <1>2, <1>3, <2>1, <2>2 DEF Removing
  <2>3. CASE s # r
    BY <1>2, <1>5, <2>1, <2>3 DEF OwnersInv, RemovalsFit
  <2>4. QED
    BY <2>2, <2>3
<1>9. HeirsFit'
  <2>1. SUFFICES ASSUME NEW q \in People, NEW c \in Businesses
                 PROVE  VisitFit(q, leaving[q], c)' /\ HeirFit(q, leaving[q], c)'
    BY DEF HeirsFit
  <2>2. VisitFit(q, leaving[q], c) /\ HeirFit(q, leaving[q], c)
    BY DEF OwnersInv, HeirsFit
  <2>3. VisitFit(q, leaving[q], c)'
    BY <1>1, <2>2 DEF VisitFit
  <2>4. HeirFit(q, leaving[q], c)'
    BY <1>1, <1>4, <2>2 DEF HeirFit, Accepted
  <2>5. QED
    BY <2>3, <2>4
<1>10. OwnerRemains'
  BY <1>1, <1>4 DEF OwnersInv, OwnerRemains, Owners
<1>11. QED
  BY <1>6, <1>7, <1>8, <1>9, <1>10 DEF OwnersInv

\* The member is deleted: nobody else has the lock, and an owner remains.
LEMMA DeleteKeeps ==
  ASSUME TypeInv, OwnersInv, NEW r \in Requests, Delete(r)
  PROVE  OwnersInv'
<1>1. CASE req[r].other = None
  BY <1>1, CalmKeeps, SamePlacesCalm, EndsCalm DEF Delete, Calm
<1>2. CASE req[r].other # None
  <2>1. PICK b \in Businesses, o \in People : b = req[r].at /\ o = req[r].other
    BY <1>2 DEF Delete, TypeInv, TypeOK, RequestsFit, RequestFit, Request
  <2>2. /\ member' = [member EXCEPT ![b][o] = NoPlace]
        /\ req' = [Forgetting(b, o, OfMember) EXCEPT ![r] = Idle]
        /\ UNCHANGED <<business, leaving>>
        /\ Removing(r, b)
    BY <1>2, <2>1 DEF Delete, SetPlace, Removing
  <2>3. /\ member'[b][o].state = "none"
        /\ \A c \in Businesses, q \in People :
             (c # b \/ q # o) => member'[c][q] = member[c][q]
    BY <2>2 DEF TypeInv, TypeOK, NoPlace
  <2>4. /\ \A c \in Businesses, q \in People : Held(q, c)' = Held(q, c)
        /\ \A c \in Businesses, q \in People : c # b \/ q # o =>
             (Owner(c, q) => Owner(c, q)') /\ (Accepted(c, q) => Accepted(c, q)')
    BY <2>2, <2>3 DEF Held, Owner, Accepted
  <2>5. /\ \A q \in People : ~Held(q, b)
        /\ \A s \in Requests : Removing(s, b) => s = r
    BY <2>2 DEF OwnersInv, LocksHold
  <2>6. \A s \in Requests : req'[s].pc \in {"remove", "delete"} => s # r /\ SameLock(s)
    <3>1. req'[r] = Idle /\ \A s \in Requests : s # r => req'[s] = Forgetting(b, o, OfMember)[s]
      BY <2>2 DEF Forgetting
    <3>2. QED
      BY <3>1, IdleFit, ForgettingSame DEF SameLock
  <2>7. \A s \in Requests, c \in Businesses :
          Removing(s, c)' => Removing(s, c) /\ SameLock(s) /\ c # b
    BY <2>5, <2>6 DEF Removing, SameLock
  <2>8. Unused'
    BY <2>2, <2>3, <2>4, <2>6 DEF OwnersInv, Unused, SameLock
  <2>9. LocksHold'
    BY <2>4, <2>7 DEF OwnersInv, LocksHold
  <2>10. RemovalsFit'
    <3>1. SUFFICES ASSUME NEW s \in Requests, NEW c \in Businesses, Removing(s, c)',
                          req'[s].other # None, business[c].state = "open"
                   PROVE  \E q \in People : q # req'[s].other /\ Owner(c, q)'
      BY <2>2 DEF RemovalsFit
    <3>2. Removing(s, c) /\ req'[s].other = req[s].other /\ c # b
      BY <2>7, <3>1 DEF SameLock
    <3>3. QED
      BY <2>4, <3>1, <3>2 DEF OwnersInv, RemovalsFit
  <2>11. HeirsFit'
    <3>1. SUFFICES ASSUME NEW q \in People, NEW c \in Businesses
                   PROVE  VisitFit(q, leaving[q], c)' /\ HeirFit(q, leaving[q], c)'
      BY DEF HeirsFit
    <3>2. VisitFit(q, leaving[q], c) /\ HeirFit(q, leaving[q], c)
      BY DEF OwnersInv, HeirsFit
    <3>3. VisitFit(q, leaving[q], c)'
      BY <2>2, <2>3, <3>2 DEF VisitFit
    <3>4. HeirFit(q, leaving[q], c)'
      <4>1. CASE c = b
        <5>1. leaving[q].at # b /\ leaving[q].fate[b].kind # "kept"
          BY <2>5 DEF Held, Open
        <5>2. QED
          BY <2>2, <4>1, <5>1 DEF HeirFit
      <4>2. CASE c # b
        BY <2>2, <2>4, <3>2, <4>2 DEF HeirFit
      <4>3. QED
        BY <4>1, <4>2
    <3>5. QED
      BY <3>3, <3>4
  <2>12. OwnerRemains'
    <3>1. ASSUME NEW c \in Businesses, business[c].state = "open"
          PROVE  \E q \in People : Owner(c, q)'
      <4>1. CASE c = b
        <5>1. PICK q \in People : q # o /\ Owner(b, q)
          BY <1>2, <2>1, <2>2, <3>1, <4>1 DEF OwnersInv, RemovalsFit
        <5>2. QED
          BY <2>4, <4>1, <5>1
      <4>2. CASE c # b
        BY <2>4, <3>1, <4>2 DEF OwnersInv, OwnerRemains, Owners
      <4>3. QED
        BY <4>1, <4>2
    <3>2. QED
      BY <2>2, <3>1 DEF OwnerRemains, Owners
  <2>13. QED
    BY <2>8, <2>9, <2>10, <2>11, <2>12 DEF OwnersInv
<1>3. QED
  BY <1>1, <1>2

\* A step of someone who leaves, before the COMMIT.
LEMMA LeaverKeeps ==
  ASSUME TypeInv, OwnersInv, UNCHANGED <<business, member, req>>,
         NEW p \in People, NEW l, leaving' = [leaving EXCEPT ![p] = l],
         \A b \in Businesses :
            /\ l.at = b \/ l.fate[b] # Open =>
                 Held(p, b) \/ (BusinessFree(b) /\ business[b].state # "unused")
            /\ VisitFit(p, l, b) /\ HeirFit(p, l, b)
  PROVE  OwnersInv'
<1>1. leaving'[p] = l /\ \A q \in People : q # p => leaving'[q] = leaving[q]
  BY DEF TypeInv, TypeOK
<1>2. \A q \in People, b \in Businesses : Held(q, b)' =>
        Held(q, b) \/ (q = p /\ BusinessFree(b) /\ business[b].state # "unused")
  BY <1>1 DEF Held
<1>3. \A b \in Businesses, q \in People :
        Owner(b, q)' = Owner(b, q) /\ Accepted(b, q)' = Accepted(b, q)
  BY DEF Owner, Accepted
<1>4. \A r \in Requests, b \in Businesses : Removing(r, b)' = Removing(r, b)
  BY DEF Removing
<1>5. \A b \in Businesses : BusinessFree(b) =>
        /\ \A r \in Requests : ~Removing(r, b)
        /\ \A q \in People : ~Held(q, b)
  BY DEF BusinessFree, Removing
<1>6. Unused'
  BY <1>2 DEF OwnersInv, Unused
<1>7. LocksHold'
  BY <1>2, <1>4, <1>5 DEF OwnersInv, LocksHold
<1>8. RemovalsFit'
  BY <1>3, <1>4 DEF OwnersInv, RemovalsFit
<1>9. HeirsFit'
  <2>1. SUFFICES ASSUME NEW q \in People, NEW b \in Businesses
                 PROVE  VisitFit(q, leaving[q], b)' /\ HeirFit(q, leaving[q], b)'
    BY DEF HeirsFit
  <2>2. PICK m : m = leaving'[q] /\ VisitFit(q, m, b) /\ HeirFit(q, m, b)
    BY <1>1 DEF OwnersInv, HeirsFit
  <2>3. VisitFit(q, leaving[q], b)'
    BY <2>2 DEF VisitFit
  <2>4. HeirFit(q, leaving[q], b)'
    BY <1>3, <2>2 DEF HeirFit
  <2>5. QED
    BY <2>3, <2>4
<1>10. OwnerRemains'
  BY <1>3 DEF OwnersInv, OwnerRemains, Owners
<1>11. QED
  BY <1>6, <1>7, <1>8, <1>9, <1>10 DEF OwnersInv

LEMMA LeaveKeeps ==
  ASSUME TypeInv, OwnersInv, NEW p \in People, Leave(p)
  PROVE  OwnersInv'
<1> DEFINE todo == {b \in Businesses : /\ business[b].state = "open"
                                       /\ \/ business[b].creator = p
                                          \/ member[b][p].state # "none"}
           l == Visiting(todo, Staying.fate)
<1>1. leaving' = [leaving EXCEPT ![p] = l] /\ UNCHANGED <<business, member, req>>
  BY DEF Leave
<1>2. ASSUME NEW b \in Businesses
      PROVE  l.at # b /\ l.fate[b] = Open /\ VisitFit(p, l, b) /\ HeirFit(p, l, b)
  <2>1. l.at = None /\ l.fate[b] = Open /\ l.todo = todo
    BY DEF Visiting, Staying
  <2>2. b # None /\ Open.kind # "kept"
    BY NoneAssumption DEF Open
  <2>3. VisitFit(p, l, b)
    <3>1. SUFFICES ASSUME business[b].state = "open", member[b][p].state # "none"
                   PROVE  b \in todo
      BY <2>1 DEF VisitFit
    <3>2. QED
      BY <3>1
  <2>4. HeirFit(p, l, b)
    BY <2>1, <2>2 DEF HeirFit
  <2>5. QED
    BY <2>1, <2>2, <2>3, <2>4
<1> HIDE DEF l
<1>3. QED
  BY <1>1, <1>2, LeaverKeeps

\* A business is locked, if it is there, and ends or has an heir.
LEMMA VisitKeeps ==
  ASSUME TypeInv, OwnersInv, NEW p \in People, NEW b \in Businesses, Visit(p, b)
  PROVE  OwnersInv'
<1>1. PICK l : l = leaving[p]
  OBVIOUS
<1>2. /\ l \in Leaving /\ l.pc = "visit" /\ BusinessFree(b)
      /\ UNCHANGED <<business, member, req>>
      /\ \A c \in Businesses : l.at # c /\ VisitFit(p, l, c) /\ HeirFit(p, l, c)
      /\ \A c \in Businesses : Held(p, c) <=> l.fate[c] # Open
  <2>1. l \in Leaving /\ LeaverFit(l)
    BY <1>1 DEF TypeInv, TypeOK, LeaversFit
  <2>2. l.pc = "visit" /\ BusinessFree(b) /\ UNCHANGED <<business, member, req>>
    BY <1>1 DEF Visit
  <2>3. \A c \in Businesses : VisitFit(p, l, c) /\ HeirFit(p, l, c)
    BY <1>1 DEF OwnersInv, HeirsFit
  <2>4. \A c \in Businesses : l.at # c
    BY <2>1, <2>2, NoneAssumption DEF LeaverFit
  <2>5. QED
    BY <1>1, <2>1, <2>2, <2>3, <2>4 DEF Held
<1>3. ASSUME business[b].state # "open", leaving' = [leaving EXCEPT ![p].todo = l.todo \ {b}]
      PROVE  OwnersInv'
  <2> DEFINE n == [l EXCEPT !.todo = l.todo \ {b}]
  <2>1. leaving' = [leaving EXCEPT ![p] = n]
    BY <1>1, <1>3
  <2>2. n.pc = l.pc /\ n.at = l.at /\ n.heir = l.heir /\ n.fate = l.fate /\ n.todo = l.todo \ {b}
    BY <1>2 DEF Leaving
  <2> HIDE DEF n
  <2>3. ASSUME NEW c \in Businesses
        PROVE  n.at # c /\ n.fate[c] = l.fate[c] /\ VisitFit(p, n, c) /\ HeirFit(p, n, c)
    BY <1>2, <1>3, <2>2 DEF VisitFit, HeirFit
  <2>4. QED
    BY <1>2, <2>1, <2>3, LeaverKeeps
<1>4. ASSUME business[b].state = "open", NEW n, leaving' = [leaving EXCEPT ![p] = n],
             n.todo = l.todo \ {b},
             \A c \in Businesses : c # b => n.at # c /\ n.fate[c] = l.fate[c],
             n.at = b \/ n.fate[b] # Open, HeirFit(p, n, b)
      PROVE  OwnersInv'
  <2>1. ASSUME NEW c \in Businesses
        PROVE  VisitFit(p, n, c) /\ HeirFit(p, n, c)
    <3>1. CASE c = b
      BY <1>4, <3>1 DEF VisitFit
    <3>2. CASE c # b
      BY <1>2, <1>4, <3>2 DEF VisitFit, HeirFit
    <3>3. QED
      BY <3>1, <3>2
  <2>2. ASSUME NEW c \in Businesses, n.at = c \/ n.fate[c] # Open
        PROVE  Held(p, c) \/ (BusinessFree(c) /\ business[c].state # "unused")
    BY <1>2, <1>4, <2>2
  <2>3. QED
    BY <1>2, <1>4, <2>1, <2>2, LeaverKeeps
<1>5. ASSUME business[b].state = "open",
             leaving' = [leaving EXCEPT ![p] =
               Visiting(l.todo \ {b}, [l.fate EXCEPT ![b] = Ended])]
      PROVE  OwnersInv'
  <2>1. PICK n : n = Visiting(l.todo \ {b}, [l.fate EXCEPT ![b] = Ended])
    OBVIOUS
  <2>2. /\ n.todo = l.todo \ {b} /\ n.at = None /\ n.fate[b] = Ended
        /\ \A c \in Businesses : c # b => n.fate[c] = l.fate[c]
    BY <1>2, <2>1 DEF Visiting, Leaving
  <2>3. n.at # b /\ n.fate[b] # Open /\ n.fate[b].kind # "kept"
    BY <2>2, NoneAssumption DEF Ended, Open
  <2>4. HeirFit(p, n, b)
    BY <2>3 DEF HeirFit
  <2>5. leaving' = [leaving EXCEPT ![p] = n]
    BY <1>5, <2>1
  <2>6. QED
    BY <1>4, <1>5, <2>2, <2>3, <2>4, <2>5, NoneAssumption
<1>6. ASSUME business[b].state = "open", NEW q \in Best(b, p),
             leaving' = [leaving EXCEPT ![p] =
               [pc |-> "hand over", todo |-> l.todo \ {b}, at |-> b, heir |-> q, fate |-> l.fate]]
      PROVE  OwnersInv'
  <2>1. PICK n : n = [pc |-> "hand over", todo |-> l.todo \ {b}, at |-> b, heir |-> q,
                      fate |-> l.fate]
    OBVIOUS
  <2>2. n.todo = l.todo \ {b} /\ n.at = b /\ n.heir = q /\ n.fate = l.fate
    BY <2>1
  <2>3. HeirFit(p, n, b)
    BY <1>2, <2>2, BestFit DEF HeirFit
  <2>4. leaving' = [leaving EXCEPT ![p] = n]
    BY <1>6, <2>1
  <2>5. QED
    BY <1>4, <1>6, <2>2, <2>3, <2>4
<1>7. QED
  BY <1>1, <1>3, <1>5, <1>6 DEF Visit

LEMMA HandOverKeeps ==
  ASSUME TypeInv, OwnersInv, NEW p \in People, HandOver(p)
  PROVE  OwnersInv'
<1>0. PICK l : l = leaving[p]
  OBVIOUS
<1>1. PICK b \in Businesses : l = leaving[p] /\ b = l.at
  BY <1>0 DEF HandOver, TypeInv, LeaversFit, LeaverFit
<1>2. /\ l \in Leaving /\ l.pc = "hand over" /\ l.heir \in People
      /\ UNCHANGED <<business, member, req>>
      /\ \A c \in Businesses : VisitFit(p, l, c) /\ HeirFit(p, l, c)
      /\ \A c \in Businesses : Held(p, c) <=> (c = b \/ l.fate[c] # Open)
  BY <1>1 DEF HandOver, TypeInv, TypeOK, LeaversFit, LeaverFit, OwnersInv, HeirsFit, Held
<1>3. PICK kept : /\ kept.kind = "kept"
                  /\ kept.owner = IF Owners(b) \ {p} = {} THEN l.heir ELSE None
                  /\ leaving' = [leaving EXCEPT ![p] =
                       Visiting(l.todo, [l.fate EXCEPT ![b] = kept])]
  <2> DEFINE k == [kind |-> "kept",
                   creator |-> IF business[b].creator = p THEN l.heir ELSE None,
                   owner |-> IF Owners(b) \ {p} = {} THEN l.heir ELSE None]
  <2>1. leaving' = [leaving EXCEPT ![p] = Visiting(l.todo, [l.fate EXCEPT ![b] = k])]
    BY <1>1 DEF HandOver
  <2>2. k.kind = "kept" /\ k.owner = IF Owners(b) \ {p} = {} THEN l.heir ELSE None
    OBVIOUS
  <2> HIDE DEF k
  <2>3. QED
    BY <2>1, <2>2
<1>4. PICK n : n = Visiting(l.todo, [l.fate EXCEPT ![b] = kept])
  OBVIOUS
<1>5. /\ n.todo = l.todo /\ n.at = None /\ n.fate[b] = kept
      /\ \A c \in Businesses : c # b => n.fate[c] = l.fate[c]
  BY <1>2, <1>4 DEF Visiting, Leaving
<1>6. kept # Open
  BY <1>3 DEF Open
<1>7. ASSUME NEW c \in Businesses
      PROVE  VisitFit(p, n, c) /\ HeirFit(p, n, c)
  <2>1. CASE c = b
    <3>1. VisitFit(p, n, c)
      BY <1>5, <1>6, <2>1 DEF VisitFit
    <3>2. ASSUME business[b].state = "open"
          PROVE  \/ \E q \in People \ {p} : Owner(b, q)
                 \/ kept.owner \in People \ {p} /\ Accepted(b, kept.owner)
      <4>1. l.heir \in People \ {p} /\ Accepted(b, l.heir)
        BY <1>1, <1>2, <3>2 DEF HeirFit
      <4>2. QED
        BY <1>3, <4>1 DEF Owners
    <3>3. HeirFit(p, n, c)
      BY <1>5, <2>1, <3>2, NoneAssumption DEF HeirFit
    <3>4. QED
      BY <3>1, <3>3
  <2>2. CASE c # b
    BY <1>1, <1>2, <1>5, <2>2, NoneAssumption DEF VisitFit, HeirFit
  <2>3. QED
    BY <2>1, <2>2
<1>8. ASSUME NEW c \in Businesses, n.at = c \/ n.fate[c] # Open
      PROVE  Held(p, c)
  BY <1>2, <1>5, <1>8, NoneAssumption
<1>9. leaving' = [leaving EXCEPT ![p] = n]
  BY <1>3, <1>4
<1>10. QED
  BY <1>2, <1>7, <1>8, <1>9, LeaverKeeps

LEMMA LeaveFailsKeeps ==
  ASSUME TypeInv, OwnersInv, NEW p \in People, LeaveFails(p)
  PROVE  OwnersInv'
<1>1. ASSUME NEW b \in Businesses
      PROVE  /\ Staying.at # b /\ Staying.fate[b] = Open
             /\ VisitFit(p, Staying, b) /\ HeirFit(p, Staying, b)
  BY NoneAssumption DEF Staying, VisitFit, HeirFit, Open
<1>2. leaving' = [leaving EXCEPT ![p] = Staying] /\ UNCHANGED <<business, member, req>>
  BY DEF LeaveFails
<1>3. QED
  BY <1>1, <1>2, LeaverKeeps

\* The COMMIT: p had locked every business of theirs, so nothing but those
\* changes, and each of those ends or has another owner.
LEMMA LeavesKeeps ==
  ASSUME TypeInv, OwnersInv, NEW p \in People, Leaves(p)
  PROVE  OwnersInv'
<1>1. PICK l : l = leaving[p]
  OBVIOUS
<1>2. /\ l \in Leaving /\ LeaverFit(l) /\ l.pc = "visit" /\ l.todo = {} /\ UNCHANGED req
      /\ \A c \in Businesses : VisitFit(p, l, c) /\ HeirFit(p, l, c)
  BY <1>1 DEF Leaves, TypeInv, TypeOK, LeaversFit, OwnersInv, HeirsFit
<1>3. \A c \in Businesses : Held(p, c) <=> l.fate[c] # Open
  BY <1>1, <1>2, NoneAssumption DEF Held, LeaverFit
<1>4. leaving'[p] = Staying /\ \A q \in People : q # p => leaving'[q] = leaving[q]
  BY DEF Leaves, TypeInv, TypeOK
<1>5. \A q \in People, c \in Businesses : Held(q, c)' => q # p /\ Held(q, c)
  BY <1>4, NoneAssumption DEF Held, Staying
<1>6. \A r \in Requests, c \in Businesses : Removing(r, c)' = Removing(r, c)
  BY <1>2 DEF Removing
<1>7. ASSUME NEW c \in Businesses
      PROVE  /\ business'[c].state = IF l.fate[c] = Ended THEN "gone" ELSE business[c].state
             /\ \A q \in People : member'[c][q] =
                  IF q = p \/ l.fate[c] = Ended THEN NoPlace
                  ELSE IF q = l.fate[c].owner THEN [member[c][q] EXCEPT !.role = "owner"]
                  ELSE member[c][q]
  <2>1. business[c] \in Business
    BY DEF TypeInv, TypeOK
  <2>2. business'[c] = IF l.fate[c] = Ended THEN [state |-> "gone", creator |-> None]
                       ELSE IF l.fate[c].creator # None
                         THEN [business[c] EXCEPT !.creator = l.fate[c].creator]
                       ELSE business[c]
    BY <1>1 DEF Leaves
  <2>3. business'[c].state = IF l.fate[c] = Ended THEN "gone" ELSE business[c].state
    BY <2>1, <2>2 DEF Business
  <2>4. QED
    BY <1>1, <2>3 DEF Leaves
<1>8. ASSUME NEW c \in Businesses, NEW q \in People
      PROVE  /\ member[c][q].state = "none" => member'[c][q].state = "none"
             /\ q # p /\ l.fate[c] # Ended =>
                  /\ Accepted(c, q) => Accepted(c, q)'
                  /\ Owner(c, q) => Owner(c, q)'
                  /\ q = l.fate[c].owner /\ Accepted(c, q) => Owner(c, q)'
  <2>1. member[c][q] \in Place
    BY DEF TypeInv, TypeOK
  <2>2. CASE q = p \/ l.fate[c] = Ended
    <3>1. member'[c][q] = NoPlace
      BY <1>7, <2>2
    <3>2. member'[c][q].state = "none"
      BY <3>1 DEF NoPlace
    <3>3. QED
      BY <2>2, <3>2
  <2>3. CASE q # p /\ l.fate[c] # Ended /\ q = l.fate[c].owner
    <3>1. member'[c][q] = [member[c][q] EXCEPT !.role = "owner"]
      BY <1>7, <2>3
    <3>2. QED
      BY <2>1, <3>1 DEF Place, Owner, Accepted
  <2>4. CASE q # p /\ l.fate[c] # Ended /\ q # l.fate[c].owner
    <3>1. member'[c][q] = member[c][q]
      BY <1>7, <2>4
    <3>2. Accepted(c, q)' = Accepted(c, q) /\ Owner(c, q)' = Owner(c, q)
      BY <3>1 DEF Owner, Accepted
    <3>3. QED
      BY <2>4, <3>1, <3>2
  <2>5. QED
    BY <2>2, <2>3, <2>4
<1>9. ASSUME NEW c \in Businesses, business[c].state = "open", ~Held(p, c)
      PROVE  ~Accepted(c, p) /\ ~Owner(c, p)
  BY <1>2, <1>3, <1>9, NoneAssumption DEF VisitFit, LeaverFit, Owner, Accepted
<1>10. Open # Ended
  BY DEF Open, Ended
<1>11. Unused'
  BY <1>2, <1>5, <1>7, <1>8 DEF OwnersInv, Unused
<1>12. LocksHold'
  BY <1>5, <1>6 DEF OwnersInv, LocksHold
<1>13. RemovalsFit'
  <2>1. SUFFICES ASSUME NEW r \in Requests, NEW c \in Businesses, Removing(r, c),
                        req[r].other # None, business'[c].state = "open"
                 PROVE  \E q \in People : q # req[r].other /\ Owner(c, q)'
    BY <1>2, <1>6 DEF RemovalsFit
  <2>2. business[c].state = "open" /\ ~Held(p, c)
    BY <1>7, <2>1 DEF OwnersInv, LocksHold
  <2>3. PICK q \in People : q # req[r].other /\ Owner(c, q)
    BY <2>1, <2>2 DEF OwnersInv, RemovalsFit
  <2>4. q # p /\ l.fate[c] # Ended
    BY <1>3, <1>9, <1>10, <2>2, <2>3
  <2>5. QED
    BY <1>8, <2>3, <2>4
<1>14. HeirsFit'
  <2>1. SUFFICES ASSUME NEW q \in People, NEW c \in Businesses
                 PROVE  VisitFit(q, leaving[q], c)' /\ HeirFit(q, leaving[q], c)'
    BY DEF HeirsFit
  <2>2. CASE q = p
    BY <1>4, <2>2, NoneAssumption DEF VisitFit, HeirFit, Staying, Open
  <2>3. CASE q # p
    <3>1. PICK m : m = leaving[q]
      OBVIOUS
    <3>2. leaving'[q] = m /\ VisitFit(q, m, c) /\ HeirFit(q, m, c)
      BY <1>4, <2>3, <3>1 DEF OwnersInv, HeirsFit
    <3>3. VisitFit(q, leaving[q], c)'
      BY <1>7, <1>8, <3>2 DEF VisitFit
    <3>4. HeirFit(q, leaving[q], c)'
      <4>1. SUFFICES ASSUME business'[c].state = "open", m.at = c \/ m.fate[c].kind = "kept"
                     PROVE  HeirFit(q, leaving[q], c)'
        BY <3>2 DEF HeirFit
      <4>2. business[c].state = "open" /\ Held(q, c)
        BY <1>7, <3>1, <4>1 DEF Held, Open
      <4>3. ~Held(p, c)
        BY <2>3, <4>2 DEF OwnersInv, LocksHold
      <4>4. l.fate[c] # Ended /\ ~Accepted(c, p) /\ ~Owner(c, p)
        BY <1>3, <1>9, <1>10, <4>2, <4>3
      <4>5. \A x \in People : (Accepted(c, x) => Accepted(c, x)') /\ (Owner(c, x) => Owner(c, x)')
        BY <1>8, <4>4
      <4>6. QED
        BY <3>2, <4>2, <4>5 DEF HeirFit
    <3>5. QED
      BY <3>3, <3>4
  <2>4. QED
    BY <2>2, <2>3
<1>15. OwnerRemains'
  <2>1. SUFFICES ASSUME NEW c \in Businesses, business'[c].state = "open"
                 PROVE  \E q \in People : Owner(c, q)'
    BY DEF OwnerRemains, Owners
  <2>2. business[c].state = "open" /\ l.fate[c] # Ended
    BY <1>7, <2>1
  <2>3. CASE ~Held(p, c)
    <3>1. PICK q \in People : Owner(c, q)
      BY <2>2 DEF OwnersInv, OwnerRemains, Owners
    <3>2. QED
      BY <1>8, <1>9, <2>2, <2>3, <3>1
  <2>4. CASE Held(p, c)
    <3>1. l.fate[c].kind = "kept"
      BY <1>2, <1>3, <2>2, <2>4 DEF LeaverFit
    <3>2. \/ \E q \in People \ {p} : Owner(c, q)
          \/ l.fate[c].owner \in People \ {p} /\ Accepted(c, l.fate[c].owner)
      BY <1>2, <2>2, <3>1 DEF HeirFit
    <3>3. QED
      BY <1>8, <2>2, <3>2
  <2>5. QED
    BY <2>3, <2>4
<1>16. QED
  BY <1>11, <1>12, <1>13, <1>14, <1>15 DEF OwnersInv

LEMMA InitOwners == Init => OwnersInv
<1>1. SUFFICES ASSUME Init PROVE OwnersInv
  OBVIOUS
<1>2. /\ \A b \in Businesses : business[b].state = "unused"
      /\ \A b \in Businesses, p \in People : member[b][p].state = "none"
      /\ \A r \in Requests : req[r].pc = "idle"
      /\ \A p \in People : leaving[p] = Staying
  BY <1>1, IdleFit DEF Init, NoPlace
<1>3. \A b \in Businesses, p \in People : ~Held(p, b)
  BY <1>2, NoneAssumption DEF Held, Staying
<1>4. Unused /\ LocksHold /\ RemovalsFit /\ OwnerRemains
  BY <1>2, <1>3 DEF Unused, LocksHold, RemovalsFit, OwnerRemains, Removing
<1>5. HeirsFit
  BY <1>2 DEF HeirsFit, VisitFit, HeirFit
<1>6. QED
  BY <1>4, <1>5 DEF OwnersInv

LEMMA OwnersStep ==
  ASSUME TypeInv, OwnersInv, [Next]_vars
  PROVE  OwnersInv'
<1>1. ASSUME NEW r \in Requests, LockBusiness(r) PROVE OwnersInv'
  BY <1>1, AskCalm, CalmKeeps, LockKeeps
<1>2. ASSUME RequestNext PROVE OwnersInv'
  <2>1. ASSUME NEW r \in Requests, NEW p \in Founders, CreateDraft(r, p) PROVE OwnersInv'
    BY <2>1, AskCalm, CalmKeeps, FoundersAssumption
  <2>2. ASSUME NEW r \in Requests, NEW p \in People, NEW q \in People, NEW b \in Businesses,
               NEW role \in Offered, Invite(r, p, b, q, role)
        PROVE  OwnersInv'
    BY <2>2, AskCalm, CalmKeeps, OfferedAssumption DEF Roles
  <2>3. ASSUME NEW d \in Drafts, DeleteDraft(d) PROVE OwnersInv'
    BY <2>3, CalmKeeps, SamePlacesCalm, SameRequestsCalm DEF DeleteDraft, Calm
  <2>4. ASSUME NEW r \in Requests,
               \/ \E d \in Drafts : InsertDraft(r, d) \/ Complete(r, d)
               \/ \E p, q \in People, b \in Businesses : Remove(r, p, b, q)
               \/ WriteDown(r) \/ DeleteInvitation(r) \/ RequestFails(r)
        PROVE  OwnersInv'
    BY <2>4, AskCalm, CalmKeeps
  <2>5. QED
    BY <1>1, <1>2, <2>1, <2>2, <2>3, <2>4, OfferCalm, CalmKeeps, FoundKeeps, DeleteKeeps
       DEF RequestNext
<1>3. ASSUME PersonNext PROVE OwnersInv'
  BY <1>3, PersonCalm, CalmKeeps, LeaveKeeps, VisitKeeps, HandOverKeeps, LeaveFailsKeeps,
     LeavesKeeps DEF PersonNext
<1>4. ASSUME UNCHANGED vars PROVE OwnersInv'
  BY <1>4, CalmKeeps, SamePlacesCalm, SameRequestsCalm DEF vars, Calm
<1>5. QED
  BY <1>2, <1>3, <1>4 DEF Next

\* Every business has an owner who has accepted: two removals at once see one
\* another through the lock of the business, and a deletion of an account has
\* locked every business of the person before it commits.
THEOREM OwnerRemainsAlways == Spec => []OwnerRemains
<1>1. OwnersInv => OwnerRemains
  BY DEF OwnersInv
<1>2. QED
  BY InitType, TypeStep, InitOwners, OwnersStep, <1>1, PTL DEF Spec

----------------------------------------------------------------------------
(* What a step does to a place that was accepted.                          *)

MembersKept ==
    \A b \in Businesses, p \in People :
        Accepted(b, p) =>
          \/ member'[b][p] \in {member[b][p], NoPlace}
          \/ /\ member'[b][p] = [state |-> "accepted", role |-> "owner"]
             /\ \E q \in People : account[q] # "deleted" /\ account'[q] = "deleted"

\* What a COMMIT does to a place.
LEMMA LeavesPlaces ==
  ASSUME TypeInv, NEW p \in People, Leaves(p), NEW b \in Businesses, NEW q \in People
  PROVE  \/ member'[b][q] \in {member[b][q], NoPlace}
         \/ member'[b][q] = [member[b][q] EXCEPT !.role = "owner"]
  BY DEF Leaves

LEMMA DeletePlaces ==
  ASSUME TypeInv, NEW r \in Requests, Delete(r), NEW b \in Businesses, NEW q \in People
  PROVE  member'[b][q] \in {member[b][q], NoPlace}
<1>1. req[r].at \in Businesses
  BY DEF Delete, TypeInv, RequestsFit, RequestFit
<1>2. req[r].other # None => req[r].other \in People
  BY DEF TypeInv, TypeOK, Request
<1>3. CASE req[r].other = None
  BY <1>3 DEF Delete
<1>4. CASE req[r].other # None
  <2>1. PICK c \in Businesses, o \in People : c = req[r].at /\ o = req[r].other
    BY <1>1, <1>2, <1>4
  <2>2. member' = [member EXCEPT ![c][o] = NoPlace]
    BY <1>4, <2>1 DEF Delete, SetPlace
  <2>3. QED
    BY <2>2 DEF TypeInv, TypeOK
<1>5. QED
  BY <1>3, <1>4

LEMMA FoundPlaces ==
  ASSUME TypeInv, OwnersInv, NEW r \in Requests, NEW b \in Businesses, Found(r, b)
  PROVE  /\ \A q \in People : ~Accepted(b, q)
         /\ \A c \in Businesses, q \in People : c # b => member'[c][q] = member[c][q]
<1>1. req[r].by \in People
  BY DEF Found, TypeInv, RequestsFit, RequestFit
<1>2. QED
  BY <1>1 DEF Found, SetPlace, TypeInv, TypeOK, OwnersInv, Unused, Accepted

LEMMA MembersStep ==
  ASSUME TypeInv, OwnersInv, [Next]_vars
  PROVE  MembersKept
<1>1. CalmPlaces => MembersKept
  BY DEF CalmPlaces, MembersKept
<1>2. ASSUME RequestNext PROVE MembersKept
  <2>1. UNCHANGED member => MembersKept
    BY <1>1, SamePlacesCalm
  <2>2. ASSUME NEW r \in Requests, NEW b \in Businesses, Found(r, b) PROVE MembersKept
    BY <2>2, FoundPlaces DEF MembersKept
  <2>3. ASSUME NEW r \in Requests, Delete(r) PROVE MembersKept
    BY <2>3, DeletePlaces DEF MembersKept
  <2>4. ASSUME NEW r \in Requests, Offer(r) PROVE MembersKept
    BY <2>4, <1>1, OfferCalm DEF Calm
  <2>5. ASSUME NEW r \in Requests,
               \/ \E p \in Founders : CreateDraft(r, p)
               \/ \E d \in Drafts : InsertDraft(r, d) \/ Complete(r, d)
               \/ \E p, q \in People, b \in Businesses :
                    Remove(r, p, b, q) \/ \E role \in Offered : Invite(r, p, b, q, role)
               \/ WriteDown(r) \/ LockBusiness(r) \/ DeleteInvitation(r) \/ RequestFails(r)
        PROVE  UNCHANGED member
    BY <2>5 DEF CreateDraft, InsertDraft, Complete, Remove, Invite, WriteDown, LockBusiness,
                DeleteInvitation, RequestFails
  <2>6. ASSUME NEW d \in Drafts, DeleteDraft(d) PROVE UNCHANGED member
    BY <2>6 DEF DeleteDraft
  <2>7. QED
    BY <1>2, <2>1, <2>2, <2>3, <2>4, <2>5, <2>6 DEF RequestNext
<1>3. ASSUME NEW p \in People, Leaves(p) PROVE MembersKept
  <2>1. account[p] # "deleted" /\ account'[p] = "deleted"
    BY <1>3 DEF Leaves, TypeInv, TypeOK, LeaversFit, HasAccount
  <2>2. ASSUME NEW b \in Businesses, NEW q \in People, Accepted(b, q),
               member'[b][q] = [member[b][q] EXCEPT !.role = "owner"]
        PROVE  member'[b][q] = [state |-> "accepted", role |-> "owner"]
    BY <2>2 DEF Accepted, Place, TypeInv, TypeOK
  <2>3. QED
    BY <1>3, <2>1, <2>2, LeavesPlaces DEF MembersKept
<1>4. ASSUME PersonNext PROVE MembersKept
  <2>1. UNCHANGED member => MembersKept
    BY <1>1, SamePlacesCalm
  <2>2. QED
    BY <1>1, <1>3, <1>4, <2>1, PersonCalm
       DEF PersonNext, Calm, Leave, Visit, HandOver, LeaveFails
<1>5. ASSUME UNCHANGED vars PROVE MembersKept
  BY <1>1, <1>5, SamePlacesCalm DEF vars
<1>6. QED
  BY <1>2, <1>4, <1>5 DEF Next

\* No step makes a member who has accepted accept again or gives them another
\* role, except that a deletion of an account may make them an owner: an
\* invitation under way looks at the row when it writes.
THEOREM MembersAreNotResetAlways == Spec => MembersAreNotReset
<1>1. TypeInv /\ OwnersInv /\ [Next]_vars => [MembersKept]_vars
  BY MembersStep
<1>2. QED
  BY InitType, TypeStep, InitOwners, OwnersStep, <1>1, PTL
     DEF Spec, MembersAreNotReset, MembersKept

----------------------------------------------------------------------------
(* Who loses a business.                                                   *)

\* Whoever belongs to a business that is being ended has joined it late.
LateFit ==
    \A p \in People, b \in Businesses : leaving[p].fate[b] = Ended =>
        \A q \in People \ {p} : Accepted(b, q) => q \in late[b]

NobodyJoins ==
    \A b \in Businesses, q \in People : Accepted(b, q)' => Accepted(b, q)

LEMMA SameLate ==
  ASSUME LateFit, NobodyJoins, UNCHANGED <<leaving, late>>
  PROVE  LateFit'
  BY DEF LateFit, NobodyJoins

LEMMA SetPlaceJoins ==
  ASSUME TypeInv, NEW b \in Businesses, NEW p \in People, NEW place, SetPlace(b, p, place),
         place.state # "accepted"
  PROVE  NobodyJoins
  BY DEF SetPlace, NobodyJoins, Accepted, TypeInv, TypeOK

LEMMA SamePlacesJoin == UNCHANGED member => NobodyJoins
  BY DEF NobodyJoins, Accepted

LEMMA RequestLate ==
  ASSUME TypeInv, OwnersInv, LateFit, RequestNext
  PROVE  LateFit'
<1>2. ASSUME NEW r \in Requests, NEW b \in Businesses, Found(r, b) PROVE LateFit'
  <2>1. SUFFICES ASSUME NEW p \in People, NEW c \in Businesses, leaving[p].fate[c] = Ended,
                        NEW q \in People \ {p}, Accepted(c, q)'
                 PROVE  q \in late[c]
    BY <1>2 DEF LateFit, Found
  <2>2. business[b].state = "unused" /\ Held(p, c)
    BY <1>2, <2>1 DEF Found, Held, Open, Ended
  <2>3. c # b
    BY <2>2 DEF OwnersInv, Unused
  <2>4. Accepted(c, q)
    BY <1>2, <2>1, <2>3, FoundPlaces DEF Accepted
  <2>5. QED
    BY <2>1, <2>4 DEF LateFit
<1>3. ASSUME NEW r \in Requests, Delete(r) PROVE LateFit'
  <2>1. NobodyJoins
    BY <1>3, DeletePlaces DEF NobodyJoins, Accepted, NoPlace
  <2>2. QED
    BY <1>3, <2>1, SameLate DEF Delete
<1>4. ASSUME NEW r \in Requests, Offer(r) PROVE LateFit'
  <2>1. req[r].at \in Businesses /\ req[r].other \in People
    BY <1>4 DEF Offer, TypeInv, RequestsFit, RequestFit
  <2>2. SetPlace(req[r].at, req[r].other, [state |-> "pending", role |-> req[r].role])
    BY <1>4 DEF Offer
  <2>3. NobodyJoins
    BY <2>1, <2>2, SetPlaceJoins
  <2>4. QED
    BY <1>4, <2>3, SameLate DEF Offer
<1>5. ASSUME UNCHANGED <<member, leaving, late>> PROVE LateFit'
  BY <1>5, SamePlacesJoin, SameLate
<1>6. ASSUME NEW r \in Requests,
             \/ \E p \in Founders : CreateDraft(r, p)
             \/ \E d \in Drafts : InsertDraft(r, d) \/ Complete(r, d)
             \/ \E p, q \in People, b \in Businesses :
                  Remove(r, p, b, q) \/ \E role \in Offered : Invite(r, p, b, q, role)
             \/ WriteDown(r) \/ LockBusiness(r) \/ DeleteInvitation(r) \/ RequestFails(r)
      PROVE  UNCHANGED <<member, leaving, late>>
  BY <1>6 DEF CreateDraft, InsertDraft, Complete, Remove, Invite, WriteDown, LockBusiness,
              DeleteInvitation, RequestFails
<1>7. ASSUME NEW d \in Drafts, DeleteDraft(d) PROVE UNCHANGED <<member, leaving, late>>
  BY <1>7 DEF DeleteDraft
<1>8. QED
  BY <1>2, <1>3, <1>4, <1>5, <1>6, <1>7 DEF RequestNext

\* Who joins a business that is being ended is late.
LEMMA AcceptLate ==
  ASSUME TypeInv, LateFit, NEW p \in People, NEW b \in Businesses, Accept(b, p)
  PROVE  LateFit'
<1>1. SUFFICES ASSUME NEW q \in People, NEW c \in Businesses, leaving[q].fate[c] = Ended,
                      NEW x \in People \ {q}, Accepted(c, x)'
               PROVE  x \in late'[c]
  BY DEF LateFit, Accept
<1>2. late[c] \subseteq late'[c]
  BY DEF Accept, TypeInv, TypeOK
<1>3. CASE c = b /\ x = p
  <2>1. \E y \in People : leaving[y].fate[b] = Ended
    BY <1>1, <1>3
  <2>2. late' = [late EXCEPT ![b] = late[b] \cup {p}]
    BY <2>1 DEF Accept
  <2>3. QED
    BY <1>3, <2>2 DEF TypeInv, TypeOK
<1>4. CASE ~(c = b /\ x = p)
  <2>1. member'[c][x] = member[c][x]
    BY <1>4 DEF Accept, SetPlace, TypeInv, TypeOK
  <2>2. x \in late[c]
    BY <1>1, <2>1 DEF LateFit, Accepted
  <2>3. QED
    BY <1>2, <2>2
<1>5. QED
  BY <1>3, <1>4

\* Another decision of someone who leaves: what is now to end has no one else.
LEMMA LeaverLate ==
  ASSUME TypeInv, LateFit, UNCHANGED <<member, late>>, NEW p \in People, NEW l,
         leaving' = [leaving EXCEPT ![p] = l],
         \A b \in Businesses : l.fate[b] = Ended =>
            leaving[p].fate[b] = Ended \/ Others(b, p) = {}
  PROVE  LateFit'
<1>1. leaving'[p] = l /\ \A q \in People : q # p => leaving'[q] = leaving[q]
  BY DEF TypeInv, TypeOK
<1>2. \A b \in Businesses, q \in People : Accepted(b, q)' = Accepted(b, q)
  BY DEF Accepted
<1>3. \A b \in Businesses : Others(b, p) = {} => \A q \in People \ {p} : ~Accepted(b, q)
  BY DEF Others
<1>4. QED
  BY <1>1, <1>2, <1>3 DEF LateFit

LEMMA LeavingLate ==
  ASSUME TypeInv, OwnersInv, LateFit, NEW p \in People,
         Leave(p) \/ HandOver(p) \/ LeaveFails(p) \/ \E b \in Businesses : Visit(p, b)
  PROVE  LateFit'
<1>1. PICK l : l = leaving[p]
  OBVIOUS
<1>2. l \in Leaving /\ LeaverFit(l) /\ UNCHANGED member
  BY <1>1 DEF TypeInv, TypeOK, LeaversFit, Leave, HandOver, LeaveFails, Visit
<1>3. ASSUME Leave(p) PROVE LateFit'
  <2>1. PICK n, todo : leaving' = [leaving EXCEPT ![p] = n] /\ n = Visiting(todo, Staying.fate)
    BY <1>3 DEF Leave
  <2>2. \A b \in Businesses : n.fate[b] = Ended =>
          leaving[p].fate[b] = Ended \/ Others(b, p) = {}
    BY <2>1 DEF Visiting, Staying, Open, Ended
  <2>3. UNCHANGED <<member, late>>
    BY <1>3 DEF Leave
  <2>4. QED
    BY <2>1, <2>2, <2>3, LeaverLate
<1>4. ASSUME HandOver(p) PROVE LateFit'
  <2>1. PICK kept : /\ kept.kind = "kept"
                    /\ leaving' = [leaving EXCEPT ![p] =
                         Visiting(l.todo, [l.fate EXCEPT ![l.at] = kept])]
    <3> DEFINE k == [kind |-> "kept",
                     creator |-> IF business[l.at].creator = p THEN l.heir ELSE None,
                     owner |-> IF Owners(l.at) \ {p} = {} THEN l.heir ELSE None]
    <3>1. leaving' = [leaving EXCEPT ![p] = Visiting(l.todo, [l.fate EXCEPT ![l.at] = k])]
      BY <1>1, <1>4 DEF HandOver
    <3>2. k.kind = "kept"
      OBVIOUS
    <3> HIDE DEF k
    <3>3. QED
      BY <3>1, <3>2
  <2>2. PICK n : n = Visiting(l.todo, [l.fate EXCEPT ![l.at] = kept])
    OBVIOUS
  <2>3. \A b \in Businesses : n.fate[b] \in {l.fate[b], kept}
    BY <1>2, <2>2 DEF Visiting, Leaving
  <2>4. kept # Ended
    BY <2>1 DEF Ended
  <2>5. UNCHANGED <<member, late>> /\ leaving' = [leaving EXCEPT ![p] = n]
    BY <1>4, <2>1, <2>2 DEF HandOver
  <2>6. \A b \in Businesses : n.fate[b] = Ended =>
          leaving[p].fate[b] = Ended \/ Others(b, p) = {}
    BY <1>1, <2>3, <2>4
  <2>7. QED
    BY <2>5, <2>6, LeaverLate
<1>5. ASSUME NEW b \in Businesses, Visit(p, b) PROVE LateFit'
  <2> DEFINE Decides(n) ==
        /\ leaving' = [leaving EXCEPT ![p] = n]
        /\ \A c \in Businesses : n.fate[c] = l.fate[c] \/ (c = b /\ Others(b, p) = {})
  <2>1. PICK n : Decides(n)
    <3>1. CASE leaving' = [leaving EXCEPT ![p].todo = l.todo \ {b}]
      <4>1. PICK n : n = [l EXCEPT !.todo = l.todo \ {b}]
        OBVIOUS
      <4>2. leaving' = [leaving EXCEPT ![p] = n]
        BY <1>1, <3>1, <4>1
      <4>3. n.fate = l.fate
        BY <1>2, <4>1 DEF Leaving
      <4>4. Decides(n)
        BY <4>2, <4>3
      <4>5. QED
        BY <4>4
    <3>2. ASSUME Others(b, p) = {},
                 leaving' = [leaving EXCEPT ![p] =
                   Visiting(l.todo \ {b}, [l.fate EXCEPT ![b] = Ended])]
          PROVE  \E n : Decides(n)
      <4>1. PICK n : n = Visiting(l.todo \ {b}, [l.fate EXCEPT ![b] = Ended])
        OBVIOUS
      <4>2. \A c \in Businesses : c # b => n.fate[c] = l.fate[c]
        BY <1>2, <4>1 DEF Visiting, Leaving
      <4>3. Decides(n)
        BY <3>2, <4>1, <4>2
      <4>4. QED
        BY <4>3
    <3>3. ASSUME NEW q,
                 leaving' = [leaving EXCEPT ![p] =
                   [pc |-> "hand over", todo |-> l.todo \ {b}, at |-> b, heir |-> q,
                    fate |-> l.fate]]
          PROVE  \E n : Decides(n)
      <4>1. PICK n : n = [pc |-> "hand over", todo |-> l.todo \ {b}, at |-> b, heir |-> q,
                          fate |-> l.fate]
        OBVIOUS
      <4>2. Decides(n)
        BY <3>3, <4>1
      <4>3. QED
        BY <4>2
    <3>4. \/ leaving' = [leaving EXCEPT ![p].todo = l.todo \ {b}]
          \/ /\ Others(b, p) = {}
             /\ leaving' = [leaving EXCEPT ![p] =
                  Visiting(l.todo \ {b}, [l.fate EXCEPT ![b] = Ended])]
          \/ \E q \in Best(b, p) : leaving' = [leaving EXCEPT ![p] =
                   [pc |-> "hand over", todo |-> l.todo \ {b}, at |-> b, heir |-> q,
                    fate |-> l.fate]]
      BY <1>1, <1>5 DEF Visit
    <3> HIDE DEF Decides
    <3>5. QED
      BY <3>1, <3>2, <3>3, <3>4
  <2>2. UNCHANGED <<member, late>>
    BY <1>5 DEF Visit
  <2>3. \A c \in Businesses : n.fate[c] = Ended =>
          leaving[p].fate[c] = Ended \/ Others(c, p) = {}
    BY <1>1, <2>1
  <2>4. QED
    BY <2>1, <2>2, <2>3, LeaverLate
<1>6. ASSUME LeaveFails(p) PROVE LateFit'
  <2>1. SUFFICES ASSUME NEW q \in People, NEW b \in Businesses, leaving'[q].fate[b] = Ended,
                        NEW x \in People \ {q}, Accepted(b, x)
                 PROVE  x \in late'[b]
    BY <1>2 DEF LateFit, Accepted
  <2>2. q # p /\ leaving[q].fate[b] = Ended
    BY <1>6, <2>1 DEF LeaveFails, Staying, Open, Ended, TypeInv, TypeOK
  <2>3. leaving[p].fate[b] # Ended
    BY <2>2 DEF OwnersInv, LocksHold, Held, Open, Ended
  <2>4. late'[b] = late[b]
    BY <1>6, <2>3 DEF LeaveFails
  <2>5. QED
    BY <2>1, <2>2, <2>4 DEF LateFit
<1>7. QED
  BY <1>3, <1>4, <1>5, <1>6

\* Everyone else joins no business but by Accept.
LEMMA PersonLate ==
  ASSUME TypeInv, LateFit, NEW p \in People,
         \/ SignUp(p) \/ Confirm(p) \/ ClaimRead(p) \/ ClaimEnd(p) \/ ClaimFails(p)
         \/ \E b \in Businesses : ClaimInsert(p, b) \/ Expire(b, p) \/ Decline(b, p)
  PROVE  LateFit'
<1>1. UNCHANGED <<leaving, late>>
  BY DEF SignUp, Confirm, ClaimRead, ClaimEnd, ClaimFails, ClaimInsert, Expire, Decline
<1>2. ASSUME NEW b \in Businesses, ClaimInsert(p, b) PROVE NobodyJoins
  <2>1. \/ SetPlace(b, p, [state |-> "pending", role |-> claim[p].rows[b]])
        \/ UNCHANGED member
    BY <1>2 DEF ClaimInsert
  <2>2. QED
    BY <2>1, SetPlaceJoins, SamePlacesJoin
<1>3. ASSUME NEW b \in Businesses, Decline(b, p) PROVE NobodyJoins
  <2>1. SetPlace(b, p, NoPlace)
    BY <1>3 DEF Decline
  <2>2. NoPlace.state # "accepted"
    BY DEF NoPlace
  <2>3. QED
    BY <2>1, <2>2, SetPlaceJoins
<1>4. ASSUME UNCHANGED member PROVE NobodyJoins
  BY <1>4, SamePlacesJoin
<1>5. ASSUME \/ SignUp(p) \/ Confirm(p) \/ ClaimRead(p) \/ ClaimEnd(p) \/ ClaimFails(p)
             \/ \E b \in Businesses : Expire(b, p)
      PROVE  UNCHANGED member
  BY <1>5 DEF SignUp, Confirm, ClaimRead, ClaimEnd, ClaimFails, Expire
<1>6. NobodyJoins
  BY <1>2, <1>3, <1>4, <1>5
<1>7. QED
  BY <1>1, <1>6, SameLate

LEMMA LeavesLate ==
  ASSUME TypeInv, LateFit, NEW p \in People, Leaves(p)
  PROVE  LateFit'
<1>1. NobodyJoins
  <2>1. SUFFICES ASSUME NEW b \in Businesses, NEW q \in People, Accepted(b, q)'
                 PROVE  Accepted(b, q)
    BY DEF NobodyJoins
  <2>2. member[b][q] \in Place /\ member'[b][q].state = "accepted"
    BY <2>1 DEF TypeInv, TypeOK, Accepted
  <2>3. \/ member'[b][q] \in {member[b][q], NoPlace}
        \/ member'[b][q] = [member[b][q] EXCEPT !.role = "owner"]
    BY LeavesPlaces
  <2>4. CASE member'[b][q] \in {member[b][q], NoPlace}
    BY <2>2, <2>4 DEF Accepted, NoPlace
  <2>5. CASE member'[b][q] = [member[b][q] EXCEPT !.role = "owner"]
    BY <2>2, <2>5 DEF Accepted, Place
  <2>6. QED
    BY <2>3, <2>4, <2>5
<1>2. UNCHANGED late /\ leaving' = [leaving EXCEPT ![p] = Staying]
  BY DEF Leaves
<1>3. \A b \in Businesses : Staying.fate[b] # Ended
  BY DEF Staying, Open, Ended
<1>4. QED
  BY <1>1, <1>2, <1>3 DEF LateFit, NobodyJoins, TypeInv, TypeOK

LEMMA InitLate == Init => LateFit
  BY DEF Init, LateFit, Staying, Open, Ended

LEMMA LateStep ==
  ASSUME TypeInv, OwnersInv, LateFit, [Next]_vars
  PROVE  LateFit'
<1>1. CASE RequestNext
  BY <1>1, RequestLate
<1>2. CASE PersonNext
  BY <1>2, PersonLate, AcceptLate, LeavingLate, LeavesLate DEF PersonNext
<1>3. CASE UNCHANGED vars
  BY <1>3, SamePlacesJoin, SameLate DEF vars
<1>4. QED
  BY <1>1, <1>2, <1>3 DEF Next

LosersAreLate ==
    \A b \in Businesses, p \in People :
        /\ business[b].state = "open" /\ business'[b].state = "gone"
        /\ Accepted(b, p) /\ account'[p] # "deleted"
        => p \in late[b]

\* Only the end of a deletion ends a business.
LEMMA LosersStep ==
  ASSUME TypeInv, OwnersInv, LateFit, [Next]_vars
  PROVE  LosersAreLate
<1>1. UNCHANGED business => LosersAreLate
  BY DEF LosersAreLate
<1>2. ASSUME NEW r \in Requests, NEW b \in Businesses, Found(r, b) PROVE LosersAreLate
  BY <1>2 DEF Found, LosersAreLate, TypeInv, TypeOK
<1>3. ASSUME NEW p \in People, Leaves(p) PROVE LosersAreLate
  <2>1. SUFFICES ASSUME NEW b \in Businesses, NEW q \in People,
                        business[b].state = "open", business'[b].state = "gone",
                        Accepted(b, q), account'[q] # "deleted"
                 PROVE  q \in late[b]
    BY DEF LosersAreLate
  <2>2. q # p
    BY <1>3, <2>1 DEF Leaves, TypeInv, TypeOK
  <2>3. leaving[p].fate[b] = Ended
    BY <1>3, <2>1 DEF Leaves, TypeInv, TypeOK, Business
  <2>4. QED
    BY <2>1, <2>2, <2>3 DEF LateFit
<1>4. CASE RequestNext
  <2>1. ASSUME NEW r \in Requests,
               \/ \E p \in Founders : CreateDraft(r, p)
               \/ \E d \in Drafts : InsertDraft(r, d) \/ Complete(r, d)
               \/ \E p, q \in People, b \in Businesses :
                    Remove(r, p, b, q) \/ \E role \in Offered : Invite(r, p, b, q, role)
        PROVE  UNCHANGED business
    BY <2>1 DEF CreateDraft, InsertDraft, Complete, Remove, Invite
  <2>2. ASSUME NEW r \in Requests,
               \/ WriteDown(r) \/ Offer(r) \/ LockBusiness(r) \/ Delete(r)
               \/ DeleteInvitation(r) \/ RequestFails(r)
        PROVE  UNCHANGED business
    BY <2>2 DEF WriteDown, Offer, LockBusiness, Delete, DeleteInvitation, RequestFails
  <2>3. ASSUME NEW d \in Drafts, DeleteDraft(d) PROVE UNCHANGED business
    BY <2>3 DEF DeleteDraft
  <2>4. QED
    BY <1>1, <1>2, <1>4, <2>1, <2>2, <2>3 DEF RequestNext
<1>5. CASE PersonNext
  <2>1. ASSUME NEW p \in People, Leave(p) \/ HandOver(p) \/ LeaveFails(p)
                                 \/ \E b \in Businesses : Visit(p, b)
        PROVE  UNCHANGED business
    BY <2>1 DEF Leave, HandOver, LeaveFails, Visit
  <2>2. QED
    BY <1>1, <1>3, <1>5, <2>1, PersonCalm DEF PersonNext, Calm
<1>6. CASE UNCHANGED vars
  BY <1>1, <1>6 DEF vars
<1>7. QED
  BY <1>4, <1>5, <1>6 DEF Next

\* Whoever still has an account and belongs to a business when it goes has
\* joined it after the deletion of another account had found nobody there to
\* hand it to.
THEOREM OnlyLatecomersLoseItAlways == Spec => OnlyLatecomersLoseIt
<1>1. TypeInv /\ OwnersInv /\ LateFit /\ [Next]_vars => LateFit'
  BY LateStep
<1>2. TypeInv /\ OwnersInv /\ LateFit /\ [Next]_vars => [LosersAreLate]_vars
  BY LosersStep
<1>3. QED
  BY InitType, TypeStep, InitOwners, OwnersStep, InitLate, <1>1, <1>2, PTL
     DEF Spec, OnlyLatecomersLoseIt, LosersAreLate

----------------------------------------------------------------------------
(* The limit on drafts.  Who creates one has the person's row, alone, and  *)
(* has counted fewer than the limit; nobody else adds to them.             *)

Drafting(r, p) == req[r].pc = "draft" /\ req[r].by = p

DraftsInv ==
    /\ \A p \in People : IsFiniteSet(OpenDrafts(p))
    /\ DraftsAreLimited
    /\ \A p \in People, r \in Requests : Drafting(r, p) =>
         /\ Cardinality(OpenDrafts(p)) < MaxDrafts
         /\ \A s \in Requests : Drafting(s, p) => s = r

\* A step that neither begins the creation of a draft nor ends it.
QuietStep ==
    \A p \in People :
        /\ OpenDrafts(p)' \subseteq OpenDrafts(p)
        /\ \A r \in Requests : Drafting(r, p)' => Drafting(r, p)

LEMMA FewerDrafts ==
  ASSUME \A d \in Drafts : draft'[d] \in {draft[d], Discarded},
         NEW p \in People
  PROVE  OpenDrafts(p)' \subseteq OpenDrafts(p)
  BY DEF OpenDrafts, Discarded

LEMMA OtherRequests ==
  ASSUME TypeInv, NEW p \in People, NEW r \in Requests,
         \/ req' = req
         \/ \E s \in Requests : \E q : req' = [req EXCEPT ![s] = q] /\ q.pc # "draft"
         \/ \E b \in Businesses : \E o, pcs : req' = Forgetting(b, o, pcs)
         \/ \E s \in Requests, b \in Businesses : \E o, pcs :
              req' = [Forgetting(b, o, pcs) EXCEPT ![s] = Idle]
         \/ \E o, pcs : req' = [s \in Requests |->
              IF req[s].pc \in pcs /\ req[s].other = o
                THEN [req[s] EXCEPT !.other = None] ELSE req[s]]
  PROVE  Drafting(r, p)' => Drafting(r, p)
<1>1. req \in [Requests -> Request]
  BY DEF TypeInv, TypeOK
<1>2. [req[r] EXCEPT !.other = None].pc = req[r].pc /\ [req[r] EXCEPT !.other = None].by = req[r].by
  BY <1>1 DEF Request
<1>3. \/ req'[r] = req[r]
      \/ req'[r].pc # "draft"
      \/ req'[r] = [req[r] EXCEPT !.other = None]
  <2>1. CASE \E s \in Requests : \E q : req' = [req EXCEPT ![s] = q] /\ q.pc # "draft"
    BY <1>1, <2>1
  <2>2. CASE \E b \in Businesses : \E o, pcs : req' = Forgetting(b, o, pcs)
    BY <2>2 DEF Forgetting
  <2>3. CASE \E s \in Requests, b \in Businesses : \E o, pcs :
               req' = [Forgetting(b, o, pcs) EXCEPT ![s] = Idle]
    BY <2>3, IdleFit DEF Forgetting
  <2>4. QED
    BY <2>1, <2>2, <2>3
<1>4. QED
  BY <1>2, <1>3 DEF Drafting

LEMMA QuietRequests ==
  ASSUME TypeInv, NEW r \in Requests,
         \/ \E d \in Drafts : Complete(r, d)
         \/ \E b \in Businesses : Found(r, b)
         \/ \E p, q \in People, b \in Businesses :
              Remove(r, p, b, q) \/ \E role \in Offered : Invite(r, p, b, q, role)
         \/ WriteDown(r) \/ Offer(r)
         \/ LockBusiness(r) \/ Delete(r) \/ DeleteInvitation(r)
         \/ RequestFails(r)
  PROVE  QuietStep
<1>1. draft' = draft \/ draft' = [draft EXCEPT ![req[r].draft] = Discarded]
  BY DEF Complete, Found, Remove, Invite, WriteDown, Offer, LockBusiness, Delete,
         DeleteInvitation, RequestFails
<1>2. \A d \in Drafts : draft'[d] \in {draft[d], Discarded}
  BY <1>1 DEF TypeInv, TypeOK
<1>3. \/ \E q : req' = [req EXCEPT ![r] = q] /\ q.pc # "draft"
      \/ \E b \in Businesses : \E o, pcs : req' = [Forgetting(b, o, pcs) EXCEPT ![r] = Idle]
  <2>1. CASE \/ \E d \in Drafts : Complete(r, d)
             \/ \E p, q \in People, b \in Businesses :
                  Remove(r, p, b, q) \/ \E role \in Offered : Invite(r, p, b, q, role)
    BY <2>1 DEF Complete, Remove, Invite, Becomes, Asking
  <2>2. CASE \/ \E b \in Businesses : Found(r, b)
             \/ WriteDown(r) \/ Offer(r) \/ RequestFails(r)
    BY <2>2, IdleFit DEF Found, WriteDown, Offer, RequestFails, Ends, Becomes
  <2>3. CASE LockBusiness(r)
    <3>1. [req[r] EXCEPT !.pc = "delete"].pc = "delete"
      BY DEF TypeInv, TypeOK, Request
    <3>2. QED
      BY <2>3, <3>1, IdleFit DEF LockBusiness, Ends, Becomes
  <2>4. CASE Delete(r)
    <3>1. req[r].at \in Businesses
      BY <2>4 DEF Delete, TypeInv, RequestsFit, RequestFit
    <3>2. QED
      BY <2>4, <3>1, IdleFit DEF Delete, Ends, Becomes
  <2>5. CASE DeleteInvitation(r)
    <3>1. req[r].at \in Businesses
      BY <2>5 DEF DeleteInvitation, TypeInv, RequestsFit, RequestFit
    <3>2. QED
      BY <2>5, <3>1, IdleFit DEF DeleteInvitation, Ends, Becomes
  <2>6. QED
    BY <2>1, <2>2, <2>3, <2>4, <2>5
<1>4. QED
  BY <1>2, <1>3, FewerDrafts, OtherRequests DEF QuietStep

LEMMA QuietPeople ==
  ASSUME TypeInv, PersonNext
  PROVE  QuietStep
<1>1. PICK p \in People :
        \/ SignUp(p) \/ Confirm(p) \/ ClaimRead(p) \/ ClaimEnd(p) \/ ClaimFails(p)
        \/ \E b \in Businesses :
             ClaimInsert(p, b) \/ Expire(b, p) \/ Accept(b, p) \/ Decline(b, p)
        \/ Leave(p) \/ HandOver(p) \/ Leaves(p) \/ LeaveFails(p)
        \/ \E b \in Businesses : Visit(p, b)
  BY DEF PersonNext
<1>2. \A d \in Drafts : draft'[d] \in {draft[d], Discarded}
  <2>1. CASE Leaves(p)
    BY <2>1 DEF Leaves
  <2>2. CASE ~Leaves(p)
    <3>1. draft' = draft
      BY <1>1, <2>2 DEF SignUp, Confirm, ClaimRead, ClaimEnd, ClaimFails, ClaimInsert, Expire,
                        Accept, Decline, Leave, HandOver, LeaveFails, Visit
    <3>2. QED
      BY <3>1
  <2>3. QED
    BY <2>1, <2>2
<1>3. \/ req' = req
      \/ \E b \in Businesses : \E o, pcs : req' = Forgetting(b, o, pcs)
      \/ \E o, pcs : req' = [s \in Requests |->
           IF req[s].pc \in pcs /\ req[s].other = o
             THEN [req[s] EXCEPT !.other = None] ELSE req[s]]
  <2>1. CASE \E b \in Businesses : Expire(b, p)
    BY <2>1 DEF Expire
  <2>2. CASE \E b \in Businesses : Decline(b, p)
    BY <2>2 DEF Decline
  <2>3. CASE ClaimEnd(p)
    BY <2>3 DEF ClaimEnd
  <2>4. CASE ~(ClaimEnd(p) \/ \E b \in Businesses : Expire(b, p) \/ Decline(b, p))
    <3>1. req' = req
      BY <1>1, <2>4 DEF SignUp, Confirm, ClaimRead, ClaimFails, ClaimInsert, Accept,
                        Leave, HandOver, Leaves, LeaveFails, Visit
    <3>2. QED
      BY <3>1
  <2>5. QED
    BY <2>1, <2>2, <2>3, <2>4
<1>4. QED
  BY <1>2, <1>3, FewerDrafts, OtherRequests DEF QuietStep

LEMMA QuietKeepsLimit ==
  ASSUME DraftsInv, QuietStep
  PROVE  DraftsInv'
<1>1. ASSUME NEW p \in People
      PROVE  /\ IsFiniteSet(OpenDrafts(p)')
             /\ Cardinality(OpenDrafts(p)') <= Cardinality(OpenDrafts(p))
             /\ Cardinality(OpenDrafts(p)) \in Nat /\ Cardinality(OpenDrafts(p)') \in Nat
  BY FS_Subset, FS_CardinalityType DEF DraftsInv, QuietStep
<1>2. DraftsAreLimited' /\ \A p \in People : IsFiniteSet(OpenDrafts(p)')
  BY <1>1, MaxDraftsAssumption DEF DraftsInv, DraftsAreLimited
<1>3. ASSUME NEW p \in People, NEW r \in Requests, Drafting(r, p)'
      PROVE  /\ Cardinality(OpenDrafts(p)') < MaxDrafts
             /\ \A s \in Requests : Drafting(s, p)' => s = r
  BY <1>1, <1>3, MaxDraftsAssumption DEF DraftsInv, QuietStep
<1>4. QED
  BY <1>2, <1>3 DEF DraftsInv

LEMMA CreateKeepsLimit ==
  ASSUME TypeInv, DraftsInv, NEW r \in Requests, NEW p \in People, CreateDraft(r, p)
  PROVE  DraftsInv'
<1>1. req \in [Requests -> Request]
  BY DEF TypeInv, TypeOK
<1>2. /\ draft' = draft /\ Cardinality(OpenDrafts(p)) < MaxDrafts
      /\ req' = [req EXCEPT ![r] = Asking("draft", p, None, None, None, "member")]
      /\ \A s \in Requests : ~Drafting(s, p)
  BY DEF CreateDraft, Becomes, PersonUnused, PersonFree, Drafting
<1>3. \A q \in People : OpenDrafts(q)' = OpenDrafts(q)
  BY <1>2 DEF OpenDrafts
<1>4. /\ \A q \in People : Drafting(r, q)' <=> q = p
      /\ \A q \in People, s \in Requests \ {r} : Drafting(s, q)' <=> Drafting(s, q)
  BY <1>1, <1>2 DEF Drafting, Asking
<1>5. DraftsAreLimited' /\ \A q \in People : IsFiniteSet(OpenDrafts(q)')
  BY <1>3 DEF DraftsInv, DraftsAreLimited
<1>6. ASSUME NEW q \in People, NEW s \in Requests, Drafting(s, q)'
      PROVE  /\ Cardinality(OpenDrafts(q)') < MaxDrafts
             /\ \A o \in Requests : Drafting(o, q)' => o = s
  BY <1>2, <1>3, <1>4, <1>6 DEF DraftsInv
<1>7. QED
  BY <1>5, <1>6 DEF DraftsInv

LEMMA InsertKeepsLimit ==
  ASSUME TypeInv, DraftsInv, NEW r \in Requests, NEW d \in Drafts, InsertDraft(r, d)
  PROVE  DraftsInv'
<1> PICK p : p = req[r].by
  OBVIOUS
<1>1. /\ req \in [Requests -> Request] /\ draft \in [Drafts -> Draft]
      /\ p \in People /\ Drafting(r, p)
  BY DEF TypeInv, TypeOK, RequestsFit, RequestFit, InsertDraft, Drafting
<1>2. /\ draft[d].state = "unused"
      /\ draft' = [draft EXCEPT ![d] = [state |-> "open", by |-> p]]
      /\ req' = [req EXCEPT ![r] = Idle]
  BY DEF InsertDraft, Ends, Becomes
<1>3. /\ OpenDrafts(p)' = OpenDrafts(p) \cup {d}
      /\ \A q \in People \ {p} : OpenDrafts(q)' = OpenDrafts(q)
  BY <1>1, <1>2 DEF OpenDrafts
<1>4. /\ IsFiniteSet(OpenDrafts(p)')
      /\ Cardinality(OpenDrafts(p)') <= MaxDrafts
  <2>1. IsFiniteSet(OpenDrafts(p)) /\ Cardinality(OpenDrafts(p)) < MaxDrafts
    BY <1>1 DEF DraftsInv
  <2>2. PICK S : S = OpenDrafts(p)
    OBVIOUS
  <2>3. /\ IsFiniteSet(S \cup {d})
        /\ Cardinality(S \cup {d}) = IF d \in S THEN Cardinality(S) ELSE Cardinality(S) + 1
    BY <2>1, <2>2, FS_AddElement
  <2>4. QED
    BY <1>3, <2>1, <2>2, <2>3, MaxDraftsAssumption, FS_CardinalityType
<1>5. \A q \in People, s \in Requests :
        Drafting(s, q)' <=> s # r /\ Drafting(s, q)
  BY <1>1, <1>2, IdleFit DEF Drafting
<1>6. \A s \in Requests : ~Drafting(s, p)'
  BY <1>1, <1>5 DEF DraftsInv
<1>7. DraftsAreLimited' /\ \A q \in People : IsFiniteSet(OpenDrafts(q)')
  BY <1>3, <1>4 DEF DraftsInv, DraftsAreLimited
<1>8. ASSUME NEW q \in People, NEW s \in Requests, Drafting(s, q)'
      PROVE  /\ Cardinality(OpenDrafts(q)') < MaxDrafts
             /\ \A o \in Requests : Drafting(o, q)' => o = s
  BY <1>3, <1>5, <1>6, <1>8 DEF DraftsInv
<1>9. QED
  BY <1>7, <1>8 DEF DraftsInv

LEMMA LimitStep ==
  ASSUME TypeInv, DraftsInv, [Next]_vars
  PROVE  DraftsInv'
<1>1. CASE RequestNext
  <2>1. CASE \E r \in Requests, p \in Founders : CreateDraft(r, p)
    BY <2>1, CreateKeepsLimit, FoundersAssumption
  <2>2. CASE \E r \in Requests, d \in Drafts : InsertDraft(r, d)
    BY <2>2, InsertKeepsLimit
  <2>3. CASE \E d \in Drafts : DeleteDraft(d)
    <3>1. PICK d \in Drafts : draft' = [draft EXCEPT ![d] = Discarded] /\ req' = req
      BY <2>3 DEF DeleteDraft
    <3>2. \A e \in Drafts : draft'[e] \in {draft[e], Discarded}
      BY <3>1 DEF TypeInv, TypeOK
    <3>3. QuietStep
      BY <3>1, <3>2, FewerDrafts, OtherRequests DEF QuietStep
    <3>4. QED
      BY <3>3, QuietKeepsLimit
  <2>4. QED
    BY <1>1, <2>1, <2>2, <2>3, QuietRequests, QuietKeepsLimit DEF RequestNext
<1>2. CASE PersonNext
  BY <1>2, QuietPeople, QuietKeepsLimit
<1>3. CASE UNCHANGED vars
  BY <1>3 DEF vars, DraftsInv, DraftsAreLimited, OpenDrafts, Drafting
<1>4. QED
  BY <1>1, <1>2, <1>3 DEF Next

LEMMA InitLimit == Init => DraftsInv
<1> SUFFICES ASSUME Init PROVE DraftsInv
  OBVIOUS
<1>1. \A p \in People : OpenDrafts(p) = {}
  BY DEF Init, OpenDrafts
<1>2. \A r \in Requests, p \in People : ~Drafting(r, p)
  BY IdleFit DEF Init, Drafting
<1>3. QED
  BY <1>1, <1>2, FS_EmptySet, MaxDraftsAssumption DEF DraftsInv, DraftsAreLimited

\* The row of the person is locked FOR UPDATE before their drafts are counted
\* (createDraftHandler), so creations that overlap never pass the limit.
THEOREM DraftsAreAlwaysLimited == Spec => []DraftsAreLimited
<1>1. Init => TypeInv /\ DraftsInv
  BY InitType, InitLimit
<1>2. TypeInv /\ DraftsInv /\ [Next]_vars => (TypeInv /\ DraftsInv)'
  BY TypeStep, LimitStep
<1>3. DraftsInv => DraftsAreLimited
  BY DEF DraftsInv
<1>4. QED
  BY <1>1, <1>2, <1>3, PTL DEF Spec
=============================================================================
