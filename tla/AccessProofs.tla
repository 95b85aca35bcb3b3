---------------------------- MODULE AccessProofs ----------------------------
(***************************************************************************)
(* Proofs about Access for any users, organizations, invites and keys and  *)
(* any number of concurrent requests: sessions after a change of password, *)
(* the single use of invites and of the first sign-up, who may pass a      *)
(* right on, and what the deletion of an organization leaves.              *)
(***************************************************************************)
EXTENDS Access, SumTheorems

RequestFields ==
    {"op", "at", "sid", "tenant", "user", "org", "item", "email", "grants", "scopes",
     "status", "by", "hash", "memberships", "existing", "left", "clear", "raced"}
SessionFields == {"live", "user", "org", "tokens", "hash", "raced"}
UserFields == {"status", "email", "hash", "memberships", "active"}
Rows == Users \cup Requests

OfRequests(f) == f = [r \in Requests |-> f[r]]

Shaped ==
    /\ OfRequests(req)
    /\ users = [u \in Users |-> users[u]]
    /\ \A u \in Users : UserFields \subseteq DOMAIN users[u]
    /\ sessions = [s \in Rows |-> sessions[s]]
    /\ \A s \in Rows : SessionFields \subseteq DOMAIN sessions[s]
    /\ invites = [i \in Invites |-> invites[i]]
    /\ \A i \in Invites : {"status", "expired"} \subseteq DOMAIN invites[i]
    /\ keys = [k \in Keys |-> keys[k]]
    /\ \A k \in Keys : {"status", "scopes"} \subseteq DOMAIN keys[k]
    /\ seen = [revoked |-> seen.revoked, granted |-> seen.granted,
               founders |-> seen.founders, crossed |-> seen.crossed, doubted |-> seen.doubted]
    /\ seen.revoked = [u \in Users |-> seen.revoked[u]]
    /\ seen.granted = [i \in Invites |-> seen.granted[i]]
    /\ seen.doubted \in BOOLEAN /\ lock \in {"free", "fresh", "stale"}

-----------------------------------------------------------------------------
(* What a request goes by. Whose session it would insert it knows once it  *)
(* has read the user; a user it makes has the first hash.                  *)
Makes(r) ==
    \/ req[r].op = "signup"
    \/ req[r].op = "acceptInvite"
       /\ (req[r].at \in {"start", "inviter", "account"} \/ req[r].status = "new")

HasRead(r) ==
    \/ req[r].op \notin Anonymous /\ req[r].at \notin {"start", "user"}
    \/ req[r].at = "mint"
    \/ /\ req[r].op = "acceptInvite" /\ req[r].status # "new"
       /\ req[r].at \in {"claim", "grant"}
    \/ At(r, "acceptInvite", "active")

Typed(r) ==
    /\ RequestFields \subseteq DOMAIN req[r]
    /\ req[r].raced \in BOOLEAN /\ req[r].clear \in BOOLEAN /\ req[r].hash \in Nat
    /\ req[r].op \in {"login", "signup", "acceptInvite"} => UserOf(r) \in Users
    /\ req[r].op = "acceptInvite" => req[r].item \in Invites
    /\ req[r].op \notin Anonymous /\ req[r].at = "start" => req[r].sid \in Rows
    /\ req[r].at = "user" => UserOf(r) \in Users /\ req[r].op \notin Anonymous
    /\ req[r].at = "touch" => req[r].op \notin Anonymous
    /\ req[r].op = "acceptInvite" /\ req[r].at \in {"start", "inviter", "account"}
         => req[r].status # "new"

Current(r) ==
    /\ Makes(r) => req[r].hash = 0
    /\ HasRead(r) => /\ UserOf(r) \in Users /\ Present(UserOf(r))
                     /\ req[r].raced \/ seen.revoked[UserOf(r)] <= req[r].hash

AtGrant(r) == At(r, "acceptInvite", "grant")

Claimed(r) ==
    AtGrant(r) => /\ invites[req[r].item].status \in {"accepted", "deleted"}
                  /\ seen.granted[req[r].item] = 0

(* What was checked is so still if nobody wrote since.                     *)
Checked(r) ==
    req[r].clear =>
        /\ req[r].op = "acceptInvite" /\ req[r].at \in {"account", "claim", "grant"}
             => InviterHolds(r)
        /\ At(r, "updateKey", "write") => req[r].existing = KeyOf(r).scopes

Ready(r) ==
    /\ "at" \in DOMAIN req[r]
    /\ Running(r) => Typed(r) /\ Current(r) /\ Claimed(r) /\ Checked(r)

-----------------------------------------------------------------------------
(* The documents.                                                          *)
HashesGrow ==
    \A u \in Users :
        /\ users[u].hash \in Nat /\ seen.revoked[u] \in Nat
        /\ seen.revoked[u] <= users[u].hash
        /\ ~Present(u) => users[u].hash = 0

SessionsCurrent ==
    \A s \in Rows :
        sessions[s].live =>
            /\ sessions[s].user \in Users
            /\ sessions[s].hash \in Nat /\ sessions[s].raced \in BOOLEAN
            /\ sessions[s].raced \/ seen.revoked[sessions[s].user] <= sessions[s].hash

GrantedOnce ==
    \A i \in Invites :
        /\ seen.granted[i] \in {0, 1}
        /\ seen.granted[i] = 1 => invites[i].status \in {"accepted", "deleted"}

OneGrant ==
    \A r, q \in Requests :
        AtGrant(r) /\ AtGrant(q) /\ req[r].item = req[q].item => r = q

AbsentKeysAreBare == \A k \in Keys : keys[k].status = "none" => keys[k].scopes = {}

(* The claim of the first sign-up.                                         *)
Founding(r) == req[r].at \in {"org", "admin"} /\ req[r].op = "signup"
Holder(r) == req[r].at \in {"org", "admin", "mint", "release"} /\ req[r].op = "signup"

OneFounder ==
    \/ seen.doubted
    \/ /\ \A r, q \in Requests : Holder(r) /\ Holder(q) => r = q
       /\ \A r \in Requests : Holder(r) => lock # "free"
       /\ seen.founders # {} => lock # "free" /\ \A r \in Requests : ~Founding(r)
       /\ \A u, v \in seen.founders : u = v

FoundersStay == \A u \in seen.founders : u \in Users /\ Present(u)

Data ==
    /\ HashesGrow /\ SessionsCurrent /\ GrantedOnce /\ OneGrant /\ AbsentKeysAreBare
    /\ OneFounder /\ FoundersStay

IInv == Shaped /\ (\A r \in Requests : Ready(r)) /\ Data

-----------------------------------------------------------------------------
(* What the step of a request does to the others: nothing, or it marks     *)
(* them as disturbed, and as raced if it says so.                          *)
Marked(q) ==
    \/ req'[q] = [req[q] EXCEPT !.clear = FALSE]
    \/ req'[q] = [req[q] EXCEPT !.clear = FALSE, !.raced = TRUE]
Kept(q) == req'[q] = req[q] \/ (Running(q) /\ Marked(q))
Marks(r) == \A q \in Requests \ {r} : Running(q) => Marked(q)
Races(r) ==
    \A q \in Requests \ {r} :
        Running(q) => req'[q] = [req[q] EXCEPT !.clear = FALSE, !.raced = TRUE]

Others(r) == OfRequests(req)' /\ \A q \in Requests \ {r} : Kept(q)

(* A step of r, as the other requests see it.                              *)
StepOf(r) ==
    /\ Others(r) /\ Ready(r)'
    /\ UNCHANGED <<users, keys>> \/ Marks(r)
    /\ \A u \in Users : Present(u) => Present(u)'
    /\ UNCHANGED seen.revoked \/ Races(r)
    /\ \A i \in Invites : invites[i].status \in {"accepted", "deleted"}
                          => invites'[i].status \in {"accepted", "deleted"}
    /\ \A i \in Invites : \/ seen'.granted[i] = seen.granted[i]
                          \/ AtGrant(r) /\ i = req[r].item

KeptFields == RequestFields \ {"clear", "raced"}

(* One who is marked has what it had, and knows of it.                     *)
LEMMA KeptRequest ==
  ASSUME IInv, NEW q \in Requests, Kept(q), Running(q)
  PROVE  /\ RequestFields \subseteq DOMAIN req'[q]
         /\ \A f \in KeptFields : req'[q][f] = req[q][f]
         /\ req'[q].raced \in BOOLEAN /\ req'[q].clear \in BOOLEAN
         /\ req[q].raced => req'[q].raced
         /\ req'[q].clear => req[q].clear
         /\ Marked(q) => ~req'[q].clear
<1>1. RequestFields \subseteq DOMAIN req[q] /\ req[q].raced \in BOOLEAN /\ req[q].clear \in BOOLEAN
  BY DEF IInv, Ready, Typed
<1>2. CASE req'[q] = req[q] /\ ~Marked(q)
  BY <1>1, <1>2
<1>3. CASE req'[q] = [req[q] EXCEPT !.clear = FALSE]
  BY <1>1, <1>3 DEF RequestFields, KeptFields
<1>4. CASE req'[q] = [req[q] EXCEPT !.clear = FALSE, !.raced = TRUE]
  BY <1>1, <1>4 DEF RequestFields, KeptFields
<1>5. QED
  BY <1>2, <1>3, <1>4 DEF Kept, Marked

LEMMA OthersReady ==
  ASSUME IInv, NEW r \in Requests, StepOf(r)
  PROVE  \A q \in Requests : Ready(q)'
<1> SUFFICES ASSUME NEW q \in Requests, q # r PROVE Ready(q)'
  BY DEF StepOf
<1>1. Ready(q) /\ Kept(q)
  BY DEF IInv, StepOf, Others
<1>2. CASE ~Running(q)
  BY <1>1, <1>2 DEF Kept, Ready, Running
<1>3. CASE Running(q)
  <2>1. Typed(q) /\ Current(q) /\ Claimed(q) /\ Checked(q)
    BY <1>1, <1>3 DEF Ready
  <2>2. /\ RequestFields \subseteq DOMAIN req'[q]
        /\ \A f \in KeptFields : req'[q][f] = req[q][f]
        /\ req'[q].raced \in BOOLEAN /\ req'[q].clear \in BOOLEAN
        /\ req[q].raced => req'[q].raced
        /\ req'[q].clear => req[q].clear
        /\ Marked(q) => ~req'[q].clear
    BY <1>1, <1>3, KeptRequest
  <2>3. /\ req'[q].op = req[q].op /\ req'[q].at = req[q].at /\ req'[q].sid = req[q].sid
        /\ req'[q].user = req[q].user /\ req'[q].item = req[q].item
        /\ req'[q].hash = req[q].hash /\ req'[q].status = req[q].status
        /\ req'[q].by = req[q].by /\ req'[q].org = req[q].org
        /\ req'[q].grants = req[q].grants /\ req'[q].existing = req[q].existing
    BY <2>2 DEF KeptFields, RequestFields
  <2>4. Typed(q)'
    BY <2>1, <2>2, <2>3 DEF Typed, UserOf, Rows
  <2>5. Current(q)'
    <3>1. CASE UNCHANGED seen.revoked
      BY <2>1, <2>2, <2>3, <3>1 DEF StepOf, Current, Makes, HasRead, At, UserOf
    <3>2. CASE Races(r)
      <4>1. req'[q] = [req[q] EXCEPT !.clear = FALSE, !.raced = TRUE]
        BY <1>3, <3>2 DEF Races
      <4>2. req'[q].raced
        BY <2>1, <4>1 DEF Typed, RequestFields
      <4>3. QED
        BY <2>1, <2>3, <4>2 DEF StepOf, Current, Makes, HasRead, At, UserOf
    <3>3. QED
      BY <3>1, <3>2 DEF StepOf
  <2>6. Claimed(q)'
    <3> SUFFICES ASSUME AtGrant(q)
                 PROVE  /\ invites'[req[q].item].status \in {"accepted", "deleted"}
                        /\ seen'.granted[req[q].item] = 0
      BY <2>3 DEF Claimed, AtGrant, At
    <3>1. req[q].item \in Invites
      BY <2>1 DEF Typed, AtGrant, At
    <3>2. seen'.granted[req[q].item] = seen.granted[req[q].item]
      BY <3>1 DEF StepOf, IInv, Data, OneGrant
    <3>3. QED
      BY <2>1, <3>1, <3>2 DEF StepOf, Claimed
  <2>7. Checked(q)'
    <3> SUFFICES ASSUME req'[q].clear PROVE Checked(q)'
      BY DEF Checked
    <3>1. req[q].clear /\ UNCHANGED <<users, keys>>
      BY <1>3, <2>2 DEF StepOf, Marks
    <3>2. InviterHolds(q)' <=> InviterHolds(q)
      BY <2>3, <3>1 DEF InviterHolds, OrgOf
    <3>3. QED
      BY <2>1, <2>3, <3>1, <3>2 DEF Checked, At, KeyOf
  <2>8. QED
    BY <2>2, <2>4, <2>5, <2>6, <2>7 DEF Ready, RequestFields
<1>4. QED
  BY <1>2, <1>3

(* The ways in which a request moves on.                                   *)
LEMMA GoesKeeps ==
  ASSUME IInv, NEW r \in Requests, NEW next, Goes(r, next)
  PROVE  Others(r) /\ req'[r] = next
  BY DEF IInv, Shaped, Goes, Others, OfRequests, Kept

LEMMA WroteKeeps ==
  ASSUME NEW r \in Requests, NEW next, Wrote(r, next)
  PROVE  Others(r) /\ req'[r] = next /\ Marks(r)
  BY DEF Wrote, Disturbed, Others, OfRequests, Kept, Marked, Marks

LEMMA OvertakesKeeps ==
  ASSUME NEW r \in Requests, Overtakes(r)
  PROVE  Others(r) /\ req'[r] = Done /\ Marks(r) /\ Races(r)
  BY DEF Overtakes, Others, OfRequests, Kept, Marked, Marks, Races

LEMMA DoneIsReady ==
  ASSUME NEW r \in Requests, req'[r] = Done
  PROVE  Ready(r)' /\ ~Running(r)' /\ ~Holder(r)' /\ ~Founding(r)' /\ ~AtGrant(r)'
  BY DEF Done, Ready, Running, Holder, Founding, AtGrant, At

(* A request that goes on keeps what it is about.                          *)
LEMMA AtStep ==
  ASSUME IInv, NEW r \in Requests, Running(r), NEW step
  PROVE  LET next == [req[r] EXCEPT !.at = step]
         IN  /\ RequestFields \subseteq DOMAIN next /\ next.at = step
             /\ \A f \in RequestFields \ {"at"} : next[f] = req[r][f]
<1>1. RequestFields \subseteq DOMAIN req[r]
  BY DEF IInv, Ready, Typed
<1>2. QED
  BY <1>1 DEF RequestFields

Rest == {"op", "user", "item", "hash", "raced", "clear"}

LEMMA SessionStep ==
  ASSUME IInv, NEW r \in Requests, Running(r),
         req[r].op \notin Anonymous, req[r].at \notin {"start", "user"},
         RequestFields \subseteq DOMAIN req'[r],
         \A f \in Rest : req'[r][f] = req[r][f],
         req'[r].at \notin {"start", "user"},
         At(r, "updateKey", "write")' => req'[r].existing = KeyOf(r)'.scopes,
         Present(UserOf(r)) => Present(UserOf(r))',
         UNCHANGED seen.revoked
  PROVE  Ready(r)' /\ ~AtGrant(r)' /\ ~Holder(r)' /\ ~Founding(r)'
<1>1. Typed(r) /\ Current(r)
  BY DEF IInv, Ready
<1>2. /\ req'[r].op = req[r].op /\ req'[r].user = req[r].user /\ req'[r].item = req[r].item
      /\ req'[r].hash = req[r].hash /\ req'[r].raced = req[r].raced
      /\ req'[r].clear = req[r].clear
  BY DEF Rest
<1>3. req[r].op \notin {"login", "signup", "acceptInvite", "useKey"}
  BY DEF Anonymous
<1>4. Typed(r)'
  BY <1>1, <1>2, <1>3 DEF Typed, Anonymous, UserOf
<1>5. Current(r)'
  BY <1>1, <1>2, <1>3 DEF Current, Makes, HasRead, Anonymous, At, UserOf
<1>6. ~AtGrant(r)' /\ ~Holder(r)' /\ ~Founding(r)'
  BY <1>2, <1>3 DEF AtGrant, At, Holder, Founding
<1>7. Claimed(r)' /\ Checked(r)'
  BY <1>2, <1>3, <1>6 DEF Claimed, Checked
<1>8. QED
  BY <1>4, <1>5, <1>6, <1>7 DEF Ready, RequestFields

(* The claims of invites and of the sign-up: those of others stay.         *)
LEMMA OthersClaims ==
  ASSUME IInv, NEW r \in Requests, Others(r), NEW q \in Requests, q # r
  PROVE  /\ AtGrant(q)' => AtGrant(q) /\ req'[q].item = req[q].item
         /\ Holder(q)' => Holder(q)
         /\ Founding(q)' => Founding(q)
<1>1. CASE req'[q] = req[q]
  BY <1>1 DEF AtGrant, At, Holder, Founding
<1>2. CASE Running(q) /\ Kept(q)
  <2>1. \A f \in KeptFields : req'[q][f] = req[q][f]
    BY <1>2, KeptRequest
  <2>2. req'[q].op = req[q].op /\ req'[q].at = req[q].at /\ req'[q].item = req[q].item
    BY <2>1 DEF KeptFields, RequestFields
  <2>3. QED
    BY <2>2 DEF AtGrant, At, Holder, Founding
<1>3. QED
  BY <1>1, <1>2 DEF Others, Kept

LEMMA ClaimsStay ==
  ASSUME IInv, NEW r \in Requests, StepOf(r), ~AtGrant(r)',
         Holder(r)' => Holder(r), Founding(r)' => Founding(r),
         UNCHANGED <<lock, seen.doubted, seen.founders>>
  PROVE  OneGrant' /\ OneFounder' /\ FoundersStay'
<1>1. ASSUME NEW q \in Requests, q # r
      PROVE  /\ AtGrant(q)' => AtGrant(q) /\ req'[q].item = req[q].item
             /\ Holder(q)' => Holder(q)
             /\ Founding(q)' => Founding(q)
  BY <1>1, OthersClaims DEF StepOf
<1>2. OneGrant'
  BY <1>1 DEF IInv, Data, OneGrant
<1>3. OneFounder'
  BY <1>1 DEF IInv, Data, OneFounder
<1>4. FoundersStay'
  BY DEF IInv, Data, FoundersStay, StepOf
<1>5. QED
  BY <1>2, <1>3, <1>4

Documents == <<users, sessions, invites, keys, lock, seen>>

LEMMA QuietStep ==
  ASSUME IInv, NEW r \in Requests, Others(r), Ready(r)', ~AtGrant(r)',
         Holder(r)' => Holder(r), Founding(r)' => Founding(r), UNCHANGED Documents
  PROVE  StepOf(r) /\ Shaped' /\ Data'
<1>1. StepOf(r)
  BY DEF StepOf, Documents, Present
<1>2. OneGrant' /\ OneFounder' /\ FoundersStay'
  BY <1>1, ClaimsStay DEF Documents
<1>3. Shaped'
  BY DEF IInv, Shaped, Documents, Others
<1>4. HashesGrow' /\ SessionsCurrent' /\ GrantedOnce' /\ AbsentKeysAreBare'
  BY DEF IInv, Data, Documents, HashesGrow, SessionsCurrent, GrantedOnce, AbsentKeysAreBare,
         Present
<1>5. QED
  BY <1>1, <1>2, <1>3, <1>4 DEF Data

LEMMA EndsStep ==
  ASSUME IInv, NEW r \in Requests, Ends(r), UNCHANGED Documents
  PROVE  StepOf(r) /\ Shaped' /\ Data'
  BY GoesKeeps, DoneIsReady, QuietStep DEF Ends

-----------------------------------------------------------------------------
(* Steps that only read.                                                   *)
LEMMA ArriveStep ==
  ASSUME IInv, NEW r \in Requests, Arrive(r)
  PROVE  StepOf(r) /\ Shaped' /\ Data'
<1>1. PICK op, sid, tenant, body :
         /\ Goes(r, Request(op, sid, tenant, body))
         /\ op \in Anonymous => body \in Bodies(Routes(op))
         /\ op \notin Anonymous => sid \in Rows
  BY DEF Arrive, IInv, Shaped
<1> DEFINE next == Request(op, sid, tenant, body)
<1>2. Others(r) /\ req'[r] = next
  BY <1>1, GoesKeeps
<1>3. /\ next.op = op /\ next.at = "start" /\ next.sid = sid /\ next.user = body.user
      /\ next.item = body.item /\ next.hash = 0 /\ next.status = body.status
      /\ next.clear \in BOOLEAN /\ next.raced \in BOOLEAN
      /\ RequestFields \subseteq DOMAIN next
  BY DEF Request, RequestFields
<1>4. op = "acceptInvite" => body.item \in Invites /\ body.user \in Users /\ body.status = "none"
  BY <1>1 DEF Anonymous, Bodies, Routes, InviteRoutes, Nothing
<1>5. op \in {"login", "signup"} => body.user \in Users
  BY <1>1 DEF Anonymous, Bodies, Routes, AuthRoutes, SignupRoute, Nothing
<1>6. /\ req'[r].op = op /\ req'[r].at = "start" /\ req'[r].sid = sid /\ req'[r].user = body.user
      /\ req'[r].item = body.item /\ req'[r].hash = 0 /\ req'[r].status = body.status
      /\ req'[r].clear \in BOOLEAN /\ req'[r].raced \in BOOLEAN
      /\ RequestFields \subseteq DOMAIN req'[r]
  BY <1>2, <1>3
<1> HIDE DEF next
<1>7. Typed(r)'
  <2>1. req'[r].op \notin Anonymous => req'[r].sid \in Rows
    BY <1>1, <1>6
  <2>2. QED
    BY <1>4, <1>5, <1>6, <2>1 DEF Typed, UserOf
<1>8. Current(r)' /\ Claimed(r)' /\ Checked(r)'
  BY <1>6 DEF Current, HasRead, Makes, Anonymous, Claimed, AtGrant, At, Checked
<1>9. Ready(r)' /\ ~AtGrant(r)' /\ ~Holder(r)' /\ ~Founding(r)'
  BY <1>6, <1>7, <1>8 DEF Ready, RequestFields, AtGrant, At, Holder, Founding
<1>10. UNCHANGED Documents
  BY DEF Arrive, Documents
<1>11. QED
  BY <1>2, <1>9, <1>10, QuietStep

LEMMA ReadSessionStep ==
  ASSUME IInv, NEW r \in Requests, ReadSession(r)
  PROVE  StepOf(r) /\ Shaped' /\ Data'
<1>1. UNCHANGED Documents
  BY DEF ReadSession, Documents
<1> DEFINE row == sessions[req[r].sid]
           next == [req[r] EXCEPT !.at = "user", !.user = row.user]
<1>2. Running(r) /\ Typed(r) /\ Current(r)
  BY DEF ReadSession, Running, IInv, Ready
<1>3. CASE Ends(r)
  BY <1>1, <1>3, EndsStep
<1>4. CASE Goes(r, next) /\ row.live
  <2>1. Others(r) /\ req'[r] = next
    BY <1>4, GoesKeeps
  <2>2. /\ req'[r].op = req[r].op /\ req'[r].at = "user" /\ req'[r].user = row.user
        /\ req'[r].hash = req[r].hash /\ req'[r].clear = req[r].clear
        /\ req'[r].raced = req[r].raced /\ RequestFields \subseteq DOMAIN req'[r]
    BY <1>2, <2>1 DEF Typed, RequestFields
  <2>3. row.user \in Users /\ req[r].op \notin Anonymous
    BY <1>2, <1>4 DEF ReadSession, Typed, IInv, Data, SessionsCurrent
  <2> HIDE DEF next, row
  <2>4. Typed(r)'
    BY <1>2, <2>2, <2>3 DEF Typed, UserOf, Anonymous
  <2>5. Current(r)' /\ Claimed(r)' /\ Checked(r)'
    BY <2>2, <2>3 DEF Current, HasRead, Makes, Anonymous, Claimed, AtGrant, At, Checked
  <2>6. Ready(r)' /\ ~AtGrant(r)' /\ ~Holder(r)' /\ ~Founding(r)'
    BY <2>2, <2>4, <2>5 DEF Ready, RequestFields, AtGrant, At, Holder, Founding
  <2>7. QED
    BY <1>1, <2>1, <2>6, QuietStep
<1>5. QED
  BY <1>3, <1>4 DEF ReadSession

LEMMA ReadUserStep ==
  ASSUME IInv, NEW r \in Requests, ReadUser(r)
  PROVE  StepOf(r) /\ Shaped' /\ Data'
<1>1. UNCHANGED Documents
  BY DEF ReadUser, Documents
<1> DEFINE doc == users[UserOf(r)]
           next == [req[r] EXCEPT !.at = "run", !.hash = doc.hash,
                                  !.memberships = doc.memberships]
<1>2. Running(r) /\ Typed(r) /\ Current(r) /\ req[r].at = "user"
  BY DEF ReadUser, Running, IInv, Ready
<1>3. CASE Ends(r)
  BY <1>1, <1>3, EndsStep
<1>4. CASE Goes(r, next) /\ doc.status = "active"
  <2>1. Others(r) /\ req'[r] = next
    BY <1>4, GoesKeeps
  <2>2. /\ req'[r].op = req[r].op /\ req'[r].at = "run" /\ req'[r].user = req[r].user
        /\ req'[r].hash = doc.hash /\ req'[r].clear = req[r].clear
        /\ req'[r].raced = req[r].raced /\ RequestFields \subseteq DOMAIN req'[r]
    BY <1>2, <2>1 DEF Typed, RequestFields
  <2>3. UserOf(r) \in Users /\ req[r].op \notin Anonymous
    BY <1>2 DEF Typed
  <2>4. /\ doc.hash \in Nat /\ seen.revoked[UserOf(r)] <= doc.hash /\ Present(UserOf(r))
    BY <1>4, <2>3 DEF IInv, Data, HashesGrow, Present
  <2> HIDE DEF next
  <2>5. Typed(r)'
    BY <1>2, <2>2, <2>3, <2>4 DEF Typed, UserOf, Anonymous
  <2>6. Current(r)'
    BY <1>1, <2>2, <2>3, <2>4 DEF Current, HasRead, Makes, Anonymous, UserOf, Documents, Present
  <2>7. Claimed(r)' /\ Checked(r)'
    BY <2>2 DEF Claimed, AtGrant, At, Checked
  <2>8. Ready(r)' /\ ~AtGrant(r)' /\ ~Holder(r)' /\ ~Founding(r)'
    BY <2>2, <2>5, <2>6, <2>7 DEF Ready, RequestFields, AtGrant, At, Holder, Founding
  <2>9. QED
    BY <1>1, <2>1, <2>8, QuietStep
<1>5. QED
  BY <1>3, <1>4 DEF ReadUser

(* Those of a signed-in user.                                              *)
LEMMA SessionReads ==
  ASSUME IInv, NEW r \in Requests, Running(r), UNCHANGED Documents,
         req[r].op \notin Anonymous, req[r].at \notin {"start", "user"},
         NEW step, step \notin {"start", "user", "write"}, Reads(r, step)
  PROVE  StepOf(r) /\ Shaped' /\ Data'
<1> DEFINE next == [req[r] EXCEPT !.at = step]
<1>1. Others(r) /\ req'[r] = next
  BY GoesKeeps DEF Reads
<1>2. /\ RequestFields \subseteq DOMAIN next /\ next.at = step
      /\ \A f \in RequestFields \ {"at"} : next[f] = req[r][f]
  BY AtStep
<1> HIDE DEF next
<1>3. \A f \in Rest : req'[r][f] = req[r][f]
  BY <1>1, <1>2 DEF Rest, RequestFields
<1>4. ~At(r, "updateKey", "write")'
  BY <1>1, <1>2 DEF At
<1>5. UNCHANGED <<seen, users>>
  BY DEF Documents
<1>6. Ready(r)' /\ ~AtGrant(r)' /\ ~Holder(r)' /\ ~Founding(r)'
  <2>1. Present(UserOf(r)) => Present(UserOf(r))'
    BY <1>3, <1>5 DEF Present, UserOf, Rest
  <2>2. RequestFields \subseteq DOMAIN req'[r] /\ req'[r].at \notin {"start", "user"}
    BY <1>1, <1>2
  <2>3. UNCHANGED seen.revoked
    BY <1>5
  <2>4. QED
    BY <1>3, <1>4, <2>1, <2>2, <2>3, SessionStep
<1>7. QED
  BY <1>1, <1>6, QuietStep

LEMMA CheckStep ==
  ASSUME IInv, NEW r \in Requests, ChecksDelete(r)
  PROVE  StepOf(r) /\ Shaped' /\ Data'
<1>1. UNCHANGED Documents
  BY DEF ChecksDelete, Documents
<1>2. /\ Running(r) /\ req[r].op \notin Anonymous /\ req[r].at \notin {"start", "user"}
      /\ req[r].op = "deleteOrg"
  BY DEF ChecksDelete, CheckDelete, At, Running, Anonymous
<1>3. CASE Ends(r)
  BY <1>1, <1>3, EndsStep
<1>4. CASE Reads(r, "count") \/ Reads(r, "members")
  BY <1>1, <1>2, <1>4, SessionReads
<1>5. CASE Goes(r, [req[r] EXCEPT !.at = "pull", !.left = Leavers(OrgOf(r))])
  <2>1. Others(r) /\ req'[r] = [req[r] EXCEPT !.at = "pull", !.left = Leavers(OrgOf(r))]
    BY <1>5, GoesKeeps
  <2>2. RequestFields \subseteq DOMAIN req[r]
    BY <1>2 DEF IInv, Ready, Typed
  <2>3. /\ RequestFields \subseteq DOMAIN req'[r] /\ req'[r].at = "pull"
        /\ \A f \in Rest : req'[r][f] = req[r][f]
    BY <2>1, <2>2 DEF Rest, RequestFields
  <2>4. UNCHANGED <<users, seen>> /\ ~At(r, "updateKey", "write")'
    BY <1>1, <2>3 DEF Documents, At
  <2>5. Present(UserOf(r)) => Present(UserOf(r))'
    BY <2>3, <2>4 DEF Present, UserOf, Rest
  <2>6. Ready(r)' /\ ~AtGrant(r)' /\ ~Holder(r)' /\ ~Founding(r)'
    BY <1>2, <2>3, <2>4, <2>5, SessionStep
  <2>7. QED
    BY <1>1, <2>1, <2>6, QuietStep
<1>6. QED
  BY <1>3, <1>4, <1>5 DEF ChecksDelete, CheckDelete

LEMMA ReadKeyStep ==
  ASSUME IInv, NEW r \in Requests, ReadKey(r)
  PROVE  StepOf(r) /\ Shaped' /\ Data'
<1>1. UNCHANGED Documents
  BY DEF ReadKey, Documents
<1>2. /\ Running(r) /\ req[r].op \notin Anonymous /\ req[r].at \notin {"start", "user"}
  BY DEF ReadKey, At, Running, Anonymous
<1>3. CASE Ends(r)
  BY <1>1, <1>3, EndsStep
<1> DEFINE next == [req[r] EXCEPT !.at = "write", !.existing = KeyOf(r).scopes]
<1>4. CASE Goes(r, next)
  <2>1. Others(r) /\ req'[r] = next
    BY <1>4, GoesKeeps
  <2>2. RequestFields \subseteq DOMAIN req[r]
    BY <1>2 DEF IInv, Ready, Typed
  <2>3. /\ RequestFields \subseteq DOMAIN req'[r] /\ req'[r].at = "write"
        /\ req'[r].existing = KeyOf(r).scopes
        /\ \A f \in Rest : req'[r][f] = req[r][f]
    BY <2>1, <2>2 DEF Rest, RequestFields
  <2>4. UNCHANGED <<users, seen, keys>> /\ req'[r].user = req[r].user /\ req'[r].item = req[r].item
    BY <1>1, <2>3 DEF Documents, Rest
  <2>5. Present(UserOf(r)) => Present(UserOf(r))'
    BY <2>4 DEF Present, UserOf
  <2>6. req'[r].existing = KeyOf(r)'.scopes
    BY <2>3, <2>4 DEF KeyOf
  <2>7. Ready(r)' /\ ~AtGrant(r)' /\ ~Holder(r)' /\ ~Founding(r)'
    BY <1>2, <2>3, <2>4, <2>5, <2>6, SessionStep
  <2>8. QED
    BY <1>1, <2>1, <2>7, QuietStep
<1>5. QED
  BY <1>3, <1>4 DEF ReadKey

(* Those of a stranger.                                                    *)
LEMMA StrangerStep ==
  ASSUME IInv, NEW r \in Requests, Running(r), req[r].op \in {"signup", "useKey"},
         RequestFields \subseteq DOMAIN req'[r],
         \A f \in Rest : req'[r][f] = req[r][f], req'[r].at \notin {"user", "mint", "touch"}
  PROVE  Ready(r)' /\ ~AtGrant(r)'
<1>1. Typed(r) /\ Current(r)
  BY DEF IInv, Ready
<1>2. /\ req'[r].op = req[r].op /\ req'[r].user = req[r].user /\ req'[r].item = req[r].item
      /\ req'[r].hash = req[r].hash /\ req'[r].raced = req[r].raced
      /\ req'[r].clear = req[r].clear
  BY DEF Rest
<1>3. Typed(r)'
  BY <1>1, <1>2 DEF Typed, Anonymous, UserOf
<1>4. Current(r)'
  BY <1>1, <1>2 DEF Current, Makes, HasRead, Anonymous, At, UserOf
<1>5. ~AtGrant(r)' /\ Claimed(r)' /\ Checked(r)'
  BY <1>2 DEF Claimed, Checked, AtGrant, At
<1>6. QED
  BY <1>3, <1>4, <1>5 DEF Ready, RequestFields

LEMMA StrangerReads ==
  ASSUME IInv, NEW r \in Requests, Running(r), req[r].op \in {"signup", "useKey"},
         UNCHANGED Documents, NEW step, step \notin {"user", "mint", "touch", "org", "admin"},
         Reads(r, step),
         step = "release" => Holder(r)
  PROVE  StepOf(r) /\ Shaped' /\ Data'
<1> DEFINE next == [req[r] EXCEPT !.at = step]
<1>1. Others(r) /\ req'[r] = next
  BY GoesKeeps DEF Reads
<1>2. /\ RequestFields \subseteq DOMAIN next /\ next.at = step
      /\ \A f \in RequestFields \ {"at"} : next[f] = req[r][f]
  BY AtStep
<1> HIDE DEF next
<1>3. /\ RequestFields \subseteq DOMAIN req'[r] /\ \A f \in Rest : req'[r][f] = req[r][f]
      /\ req'[r].at = step
  BY <1>1, <1>2 DEF Rest, RequestFields
<1>4. Ready(r)' /\ ~AtGrant(r)'
  BY <1>3, StrangerStep
<1>5. (Holder(r)' => Holder(r)) /\ (Founding(r)' => Founding(r))
  BY <1>3 DEF Holder, Founding
<1>6. QED
  BY <1>1, <1>4, <1>5, QuietStep

LEMMA UseKeyStep ==
  ASSUME IInv, NEW r \in Requests, UsesKey(r)
  PROVE  StepOf(r) /\ Shaped' /\ Data'
<1>1. UNCHANGED Documents
  BY DEF UsesKey, Documents
<1>2. Running(r) /\ req[r].op = "useKey"
  BY DEF UsesKey, UseKey, At, Running
<1>3. CASE Ends(r)
  BY <1>1, <1>3, EndsStep
<1>4. CASE Reads(r, "serve")
  BY <1>1, <1>2, <1>4, StrangerReads
<1> DEFINE next == [req[r] EXCEPT !.at = "tenant", !.org = KeyOf(r).org]
<1>5. CASE Goes(r, next)
  <2>1. Others(r) /\ req'[r] = next
    BY <1>5, GoesKeeps
  <2>2. RequestFields \subseteq DOMAIN req[r]
    BY <1>2 DEF IInv, Ready, Typed
  <2>3. /\ RequestFields \subseteq DOMAIN req'[r] /\ req'[r].at = "tenant"
        /\ \A f \in Rest : req'[r][f] = req[r][f]
    BY <2>1, <2>2 DEF Rest, RequestFields
  <2>4. Ready(r)' /\ ~AtGrant(r)'
    BY <1>2, <2>3, StrangerStep
  <2>5. ~Holder(r)' /\ ~Founding(r)'
    BY <2>3 DEF Holder, Founding
  <2>6. QED
    BY <1>1, <2>1, <2>4, <2>5, QuietStep
<1>6. QED
  BY <1>3, <1>4, <1>5 DEF UsesKey, UseKey

LEMMA CountUsersStep ==
  ASSUME IInv, NEW r \in Requests, CountUsers(r)
  PROVE  StepOf(r) /\ Shaped' /\ Data'
<1>1. UNCHANGED Documents /\ Running(r) /\ req[r].op = "signup"
  BY DEF CountUsers, Documents, At, Running
<1>2. QED
  BY <1>1, EndsStep, StrangerReads DEF CountUsers

LEMMA TokenFailsStep ==
  ASSUME IInv, NEW r \in Requests, TokenFails(r)
  PROVE  StepOf(r) /\ Shaped' /\ Data'
<1>1. UNCHANGED Documents /\ Running(r) /\ req[r].op = "signup" /\ Holder(r)
  BY DEF TokenFails, Documents, At, Running, Holder
<1>2. QED
  BY <1>1, StrangerReads DEF TokenFails

(* Login, and the reads of one who accepts an invite.                      *)
LEMMA LoginStep ==
  ASSUME IInv, NEW r \in Requests, Login(r)
  PROVE  StepOf(r) /\ Shaped' /\ Data'
<1>1. UNCHANGED Documents
  BY DEF Login, Documents
<1> DEFINE doc == users[UserOf(r)]
           next == [req[r] EXCEPT !.at = "mint", !.org = doc.active, !.hash = doc.hash]
<1>2. Running(r) /\ Typed(r) /\ req[r].op = "login"
  BY DEF Login, At, Running, IInv, Ready
<1>3. CASE Ends(r)
  BY <1>1, <1>3, EndsStep
<1>4. CASE Goes(r, next) /\ doc.status = "active"
  <2>1. Others(r) /\ req'[r] = next
    BY <1>4, GoesKeeps
  <2>2. /\ req'[r].op = "login" /\ req'[r].at = "mint" /\ req'[r].user = req[r].user
        /\ req'[r].hash = doc.hash /\ req'[r].clear = req[r].clear
        /\ req'[r].raced = req[r].raced /\ RequestFields \subseteq DOMAIN req'[r]
    BY <1>2, <2>1 DEF Typed, RequestFields
  <2>3. UserOf(r) \in Users
    BY <1>2 DEF Typed
  <2>4. /\ doc.hash \in Nat /\ seen.revoked[UserOf(r)] <= doc.hash /\ Present(UserOf(r))
    BY <1>4, <2>3 DEF IInv, Data, HashesGrow, Present
  <2> HIDE DEF next
  <2>5. Typed(r)'
    BY <1>2, <2>2, <2>3, <2>4 DEF Typed, UserOf, Anonymous
  <2>6. Current(r)'
    BY <1>1, <2>2, <2>3, <2>4 DEF Current, HasRead, Makes, Anonymous, UserOf, Documents, Present
  <2>7. Claimed(r)' /\ Checked(r)'
    BY <2>2 DEF Claimed, AtGrant, At, Checked
  <2>8. Ready(r)' /\ ~AtGrant(r)' /\ ~Holder(r)' /\ ~Founding(r)'
    BY <2>2, <2>5, <2>6, <2>7 DEF Ready, RequestFields, AtGrant, At, Holder, Founding
  <2>9. QED
    BY <1>1, <2>1, <2>8, QuietStep
<1>5. QED
  BY <1>3, <1>4 DEF Login

(* Steps that write one collection.                                        *)
Quiet(r) ==
    /\ Others(r) /\ Ready(r)' /\ ~AtGrant(r)'
    /\ Holder(r)' => Holder(r)
    /\ Founding(r)' => Founding(r)

LEMMA InvitesStep ==
  ASSUME IInv, NEW r \in Requests, Quiet(r),
         UNCHANGED <<users, sessions, keys, lock, seen>>,
         invites' = [i \in Invites |-> invites'[i]],
         \A i \in Invites :
            /\ {"status", "expired"} \subseteq DOMAIN invites'[i]
            /\ invites[i].status \in {"accepted", "deleted"}
                 => invites'[i].status \in {"accepted", "deleted"}
  PROVE  StepOf(r) /\ Shaped' /\ Data'
<1>1. StepOf(r)
  BY DEF Quiet, StepOf, Present
<1>2. OneGrant' /\ OneFounder' /\ FoundersStay'
  BY <1>1, ClaimsStay DEF Quiet
<1>3. Shaped'
  BY DEF IInv, Shaped, Others, Quiet
<1>4. HashesGrow' /\ SessionsCurrent' /\ GrantedOnce' /\ AbsentKeysAreBare'
  BY DEF IInv, Data, HashesGrow, SessionsCurrent, GrantedOnce, AbsentKeysAreBare, Present
<1>5. QED
  BY <1>1, <1>2, <1>3, <1>4 DEF Data

LEMMA KeysStep ==
  ASSUME IInv, NEW r \in Requests, Quiet(r), Marks(r),
         UNCHANGED <<users, sessions, invites, lock, seen>>,
         keys' = [k \in Keys |-> keys'[k]],
         \A k \in Keys :
            /\ {"status", "scopes"} \subseteq DOMAIN keys'[k]
            /\ keys'[k].status = "none" => keys'[k].scopes = {}
  PROVE  StepOf(r) /\ Shaped' /\ Data'
<1>1. StepOf(r)
  BY DEF Quiet, StepOf, Present
<1>2. OneGrant' /\ OneFounder' /\ FoundersStay'
  BY <1>1, ClaimsStay DEF Quiet
<1>3. Shaped'
  BY DEF IInv, Shaped, Others, Quiet
<1>4. HashesGrow' /\ SessionsCurrent' /\ GrantedOnce' /\ AbsentKeysAreBare'
  BY DEF IInv, Data, HashesGrow, SessionsCurrent, GrantedOnce, AbsentKeysAreBare, Present
<1>5. QED
  BY <1>1, <1>2, <1>3, <1>4 DEF Data

LEMMA SessionsStep ==
  ASSUME IInv, NEW r \in Requests, Quiet(r),
         UNCHANGED <<users, keys, invites, lock, seen>>,
         sessions' = [s \in Rows |-> sessions'[s]],
         \A s \in Rows :
            /\ SessionFields \subseteq DOMAIN sessions'[s]
            /\ sessions'[s].live =>
                 /\ sessions'[s].user \in Users
                 /\ sessions'[s].hash \in Nat /\ sessions'[s].raced \in BOOLEAN
                 /\ \/ sessions'[s].raced
                    \/ seen.revoked[sessions'[s].user] <= sessions'[s].hash
  PROVE  StepOf(r) /\ Shaped' /\ Data'
<1>1. StepOf(r)
  BY DEF Quiet, StepOf, Present
<1>2. OneGrant' /\ OneFounder' /\ FoundersStay'
  BY <1>1, ClaimsStay DEF Quiet
<1>3. Shaped'
  BY DEF IInv, Shaped, Others, Quiet
<1>4. SessionsCurrent'
  BY DEF SessionsCurrent
<1>5. HashesGrow' /\ GrantedOnce' /\ AbsentKeysAreBare'
  BY DEF IInv, Data, HashesGrow, GrantedOnce, AbsentKeysAreBare, Present
<1>6. QED
  BY <1>1, <1>2, <1>3, <1>4, <1>5 DEF Data

(* A user stays, and is not put back to an earlier password.               *)
UsersGrow ==
    /\ users' = [u \in Users |-> users'[u]]
    /\ \A u \in Users :
        /\ UserFields \subseteq DOMAIN users'[u]
        /\ Present(u) => Present(u)'
        /\ users'[u].hash \in Nat /\ users[u].hash <= users'[u].hash
        /\ ~Present(u)' => users'[u].hash = 0

LEMMA UsersStep ==
  ASSUME IInv, NEW r \in Requests, Quiet(r), Marks(r), UsersGrow,
         UNCHANGED <<sessions, keys, invites, lock>>,
         UNCHANGED <<seen.revoked, seen.granted, seen.doubted, seen.founders>>,
         seen' = [revoked |-> seen'.revoked, granted |-> seen'.granted,
                  founders |-> seen'.founders, crossed |-> seen'.crossed,
                  doubted |-> seen'.doubted]
  PROVE  StepOf(r) /\ Shaped' /\ Data'
<1>1. StepOf(r)
  BY DEF Quiet, StepOf, UsersGrow
<1>2. OneGrant' /\ OneFounder' /\ FoundersStay'
  BY <1>1, ClaimsStay DEF Quiet
<1>3. Shaped'
  BY DEF IInv, Shaped, Others, Quiet, UsersGrow
<1>4. HashesGrow'
  <2> SUFFICES ASSUME NEW u \in Users
               PROVE  /\ users'[u].hash \in Nat /\ seen'.revoked[u] \in Nat
                      /\ seen'.revoked[u] <= users'[u].hash
                      /\ ~Present(u)' => users'[u].hash = 0
    BY DEF HashesGrow
  <2>1. /\ users[u].hash \in Nat /\ seen.revoked[u] \in Nat
        /\ seen.revoked[u] <= users[u].hash
    BY DEF IInv, Data, HashesGrow
  <2>2. QED
    BY <2>1 DEF UsersGrow
<1>5. SessionsCurrent' /\ GrantedOnce' /\ AbsentKeysAreBare'
  BY DEF IInv, Data, SessionsCurrent, GrantedOnce, AbsentKeysAreBare
<1>6. QED
  BY <1>1, <1>2, <1>3, <1>4, <1>5 DEF Data

LEMMA FinishesQuiet ==
  ASSUME NEW r \in Requests, Finishes(r)
  PROVE  Quiet(r) /\ Marks(r)
  BY WroteKeeps, DoneIsReady DEF Finishes, Quiet

LEMMA EndsQuiet ==
  ASSUME IInv, NEW r \in Requests, Ends(r)
  PROVE  Quiet(r)
  BY GoesKeeps, DoneIsReady DEF Ends, Quiet

-----------------------------------------------------------------------------
(* Accepting an invite.                                                    *)
LEMMA AcceptStep ==
  ASSUME IInv, NEW r \in Requests, Running(r), req[r].op = "acceptInvite",
         RequestFields \subseteq DOMAIN req'[r],
         req'[r].op = "acceptInvite", req'[r].item = req[r].item,
         req'[r].raced = req[r].raced, req'[r].clear = req[r].clear,
         req'[r].user \in Users, req'[r].hash \in Nat, req'[r].at \notin {"user", "touch"},
         req'[r].at \in {"start", "inviter", "account"} => req'[r].status # "new",
         Current(r)', Claimed(r)', Checked(r)'
  PROVE  Ready(r)' /\ ~Holder(r)' /\ ~Founding(r)'
<1>1. Typed(r)
  BY DEF IInv, Ready
<1>2. Typed(r)'
  BY <1>1 DEF Typed, Anonymous, UserOf
<1>3. QED
  BY <1>2 DEF Ready, RequestFields, Holder, Founding

LEMMA FindPendingStep ==
  ASSUME IInv, NEW r \in Requests, FindPending(r)
  PROVE  StepOf(r) /\ Shaped' /\ Data'
<1>1. UNCHANGED Documents
  BY DEF FindPending, Documents
<1>2. Running(r) /\ Typed(r) /\ Current(r) /\ req[r].op = "acceptInvite" /\ req[r].at = "start"
  BY DEF FindPending, At, Running, IInv, Ready
<1> DEFINE i == invites[req[r].item]
           next == [req[r] EXCEPT !.at = "inviter", !.org = i.org, !.by = i.by,
                                  !.grants = i.grants, !.email = i.email]
<1>3. CASE Ends(r)
  BY <1>1, <1>3, EndsStep
<1>4. CASE Goes(r, next)
  <2>1. Others(r) /\ req'[r] = next
    BY <1>4, GoesKeeps
  <2>2. /\ req'[r].op = "acceptInvite" /\ req'[r].at = "inviter" /\ req'[r].user = req[r].user
        /\ req'[r].item = req[r].item /\ req'[r].hash = req[r].hash
        /\ req'[r].clear = req[r].clear /\ req'[r].raced = req[r].raced
        /\ req'[r].status = req[r].status /\ RequestFields \subseteq DOMAIN req'[r]
    BY <1>2, <2>1 DEF Typed, RequestFields
  <2> HIDE DEF next, i
  <2>3. req'[r].hash = 0
    BY <1>2, <2>2 DEF Current, Makes
  <2>4. Current(r)' /\ Claimed(r)' /\ Checked(r)' /\ ~AtGrant(r)'
    BY <2>2, <2>3 DEF Current, HasRead, Makes, Anonymous, Claimed, AtGrant, At, Checked
  <2>5. req[r].user \in Users /\ req'[r].status # "new"
    BY <1>2, <2>2 DEF Typed, UserOf
  <2>6. Ready(r)' /\ ~Holder(r)' /\ ~Founding(r)'
    BY <1>2, <2>2, <2>3, <2>4, <2>5, AcceptStep
  <2>7. QED
    BY <1>1, <2>1, <2>4, <2>6, QuietStep
<1>5. QED
  BY <1>3, <1>4 DEF FindPending

(* What the claim or the check of the inviter does to a pending invite.    *)
LEMMA RevokePendingInvites ==
  ASSUME IInv, NEW i, NEW o, RevokePending(i, o)
  PROVE  /\ invites' = [j \in Invites |-> invites'[j]]
         /\ \A j \in Invites : /\ {"status", "expired"} \subseteq DOMAIN invites'[j]
                               /\ invites[j].status \in {"accepted", "deleted"}
                                    => invites'[j].status \in {"accepted", "deleted"}
  BY DEF IInv, Shaped, RevokePending

LEMMA CheckInviterStep ==
  ASSUME IInv, NEW r \in Requests, CheckInviter(r)
  PROVE  StepOf(r) /\ Shaped' /\ Data'
<1>1. UNCHANGED <<users, sessions, keys, lock, seen>>
  BY DEF CheckInviter
<1>2. Running(r) /\ Typed(r) /\ Current(r) /\ req[r].op = "acceptInvite" /\ req[r].at = "inviter"
  BY DEF CheckInviter, At, Running, IInv, Ready
<1> DEFINE next == [req[r] EXCEPT !.at = "account"]
<1>3. CASE InviterHolds(r) /\ Goes(r, next) /\ UNCHANGED invites
  <2>1. Others(r) /\ req'[r] = next
    BY <1>3, GoesKeeps
  <2>2. /\ req'[r].op = "acceptInvite" /\ req'[r].at = "account" /\ req'[r].user = req[r].user
        /\ req'[r].item = req[r].item /\ req'[r].hash = req[r].hash
        /\ req'[r].clear = req[r].clear /\ req'[r].raced = req[r].raced
        /\ req'[r].by = req[r].by /\ req'[r].org = req[r].org /\ req'[r].grants = req[r].grants
        /\ req'[r].status = req[r].status /\ RequestFields \subseteq DOMAIN req'[r]
    BY <1>2, <2>1 DEF Typed, RequestFields
  <2> HIDE DEF next
  <2>3. req'[r].hash = 0
    BY <1>2, <2>2 DEF Current, Makes
  <2>4. InviterHolds(r)'
    BY <1>1, <1>3, <2>2 DEF InviterHolds, OrgOf
  <2>5. Current(r)' /\ Claimed(r)' /\ Checked(r)' /\ ~AtGrant(r)'
    BY <2>2, <2>3, <2>4 DEF Current, HasRead, Makes, Anonymous, Claimed, AtGrant, At, Checked
  <2>6. req[r].user \in Users /\ req'[r].status # "new"
    BY <1>2, <2>2 DEF Typed, UserOf
  <2>7. Ready(r)' /\ ~Holder(r)' /\ ~Founding(r)'
    BY <1>2, <2>2, <2>3, <2>5, <2>6, AcceptStep
  <2>8. QED
    BY <1>1, <1>3, <2>1, <2>5, <2>7, QuietStep DEF Documents
<1>4. CASE RevokePending(req[r].item, OrgOf(r)) /\ Finishes(r)
  BY <1>1, <1>4, FinishesQuiet, RevokePendingInvites, InvitesStep
<1>5. QED
  BY <1>3, <1>4 DEF CheckInviter, Reads

LEMMA FindAccountStep ==
  ASSUME IInv, NEW r \in Requests, FindAccount(r)
  PROVE  StepOf(r) /\ Shaped' /\ Data'
<1>1. UNCHANGED Documents
  BY DEF FindAccount, Documents
<1>2. /\ Running(r) /\ Typed(r) /\ Current(r) /\ Checked(r)
      /\ req[r].op = "acceptInvite" /\ req[r].at = "account"
  BY DEF FindAccount, At, Running, IInv, Ready
<1>3. CASE Ends(r)
  BY <1>1, <1>3, EndsStep
<1>4. ASSUME NEW next, Goes(r, next),
             RequestFields \subseteq DOMAIN next, next.at = "claim",
             \A f \in {"op", "item", "raced", "clear", "by", "org", "grants"} :
                next[f] = req[r][f],
             \/ /\ next.user \in Users /\ Present(next.user) /\ next.hash = users[next.user].hash
                /\ next.status # "new"
             \/ next.status = "new" /\ next.hash = 0 /\ next.user = req[r].user
      PROVE  StepOf(r) /\ Shaped' /\ Data'
  <2>1. Others(r) /\ req'[r] = next
    BY <1>4, GoesKeeps
  <2>2. /\ req'[r].op = "acceptInvite" /\ req'[r].at = "claim" /\ req'[r].item = req[r].item
        /\ req'[r].clear = req[r].clear /\ req'[r].raced = req[r].raced
        /\ req'[r].by = req[r].by /\ req'[r].org = req[r].org /\ req'[r].grants = req[r].grants
        /\ RequestFields \subseteq DOMAIN req'[r]
    BY <1>2, <1>4, <2>1
  <2>3. \/ /\ req'[r].user \in Users /\ Present(req'[r].user) /\ req'[r].status # "new"
           /\ req'[r].hash \in Nat /\ seen.revoked[req'[r].user] <= req'[r].hash
        \/ req'[r].status = "new" /\ req'[r].hash = 0 /\ req'[r].user \in Users
    BY <1>2, <1>4, <2>1 DEF IInv, Data, HashesGrow, Typed, UserOf
  <2>4. Current(r)'
    BY <1>1, <2>2, <2>3 DEF Current, HasRead, Makes, Anonymous, UserOf, Present, Documents, At
  <2>5. InviterHolds(r)' <=> InviterHolds(r)
    BY <1>1, <2>2 DEF InviterHolds, OrgOf, Documents
  <2>6. Claimed(r)' /\ Checked(r)' /\ ~AtGrant(r)'
    BY <1>2, <2>2, <2>5 DEF Claimed, AtGrant, At, Checked
  <2>7. Ready(r)' /\ ~Holder(r)' /\ ~Founding(r)'
    BY <1>2, <2>2, <2>3, <2>4, <2>6, AcceptStep
  <2>8. QED
    BY <1>1, <2>1, <2>6, <2>7, QuietStep
<1>5. ASSUME NEW u \in Account(req[r].email),
             Goes(r, [req[r] EXCEPT !.at = "claim", !.user = u, !.hash = users[u].hash,
                                    !.memberships = users[u].memberships])
      PROVE  StepOf(r) /\ Shaped' /\ Data'
  <2> DEFINE next == [req[r] EXCEPT !.at = "claim", !.user = u, !.hash = users[u].hash,
                                    !.memberships = users[u].memberships]
  <2>1. /\ RequestFields \subseteq DOMAIN next /\ next.at = "claim" /\ next.user = u
        /\ next.hash = users[u].hash /\ next.status = req[r].status
        /\ \A f \in {"op", "item", "raced", "clear", "by", "org", "grants"} :
              next[f] = req[r][f]
    BY <1>2 DEF Typed, RequestFields
  <2>2. u \in Users /\ Present(u) /\ req[r].status # "new"
    BY <1>2 DEF Account, Typed
  <2> HIDE DEF next
  <2>3. Goes(r, next)
    BY <1>5 DEF next
  <2>4. QED
    BY <1>4, <2>1, <2>2, <2>3
<1>6. CASE Goes(r, [req[r] EXCEPT !.at = "claim", !.status = "new"])
  <2> DEFINE next == [req[r] EXCEPT !.at = "claim", !.status = "new"]
  <2>1. /\ RequestFields \subseteq DOMAIN next /\ next.at = "claim" /\ next.user = req[r].user
        /\ next.hash = req[r].hash /\ next.status = "new"
        /\ \A f \in {"op", "item", "raced", "clear", "by", "org", "grants"} :
              next[f] = req[r][f]
    BY <1>2 DEF Typed, RequestFields
  <2>2. req[r].hash = 0
    BY <1>2 DEF Current, Makes
  <2> HIDE DEF next
  <2>3. Goes(r, next)
    BY <1>6 DEF next
  <2>4. QED
    BY <1>4, <2>1, <2>2, <2>3
<1>7. QED
  BY <1>3, <1>5, <1>6 DEF FindAccount

LEMMA ClaimInviteStep ==
  ASSUME IInv, NEW r \in Requests, ClaimInvite(r)
  PROVE  StepOf(r) /\ Shaped' /\ Data'
<1>1. UNCHANGED <<users, orgs, sessions, keys, lock, seen>>
  BY DEF ClaimInvite
<1>2. /\ Running(r) /\ Typed(r) /\ Current(r) /\ Checked(r)
      /\ req[r].op = "acceptInvite" /\ req[r].at = "claim"
  BY DEF ClaimInvite, At, Running, IInv, Ready
<1> DEFINE i == req[r].item
           next == [req[r] EXCEPT !.at = "grant"]
<1>3. CASE Ends(r) /\ UNCHANGED invites
  BY <1>1, <1>3, EndsStep DEF Documents
<1>4. CASE /\ invites[i].status = "pending"
           /\ invites' = [invites EXCEPT ![i].status = "accepted"]
           /\ Writes(r, "grant")
  <2>1. Others(r) /\ req'[r] = next
    BY <1>4, WroteKeeps DEF Writes
  <2>2. /\ req'[r].op = "acceptInvite" /\ req'[r].at = "grant" /\ req'[r].user = req[r].user
        /\ req'[r].item = i /\ req'[r].hash = req[r].hash /\ req'[r].status = req[r].status
        /\ req'[r].clear = req[r].clear /\ req'[r].raced = req[r].raced
        /\ req'[r].by = req[r].by /\ req'[r].org = req[r].org /\ req'[r].grants = req[r].grants
        /\ RequestFields \subseteq DOMAIN req'[r]
    BY <1>2, <2>1 DEF Typed, RequestFields
  <2> HIDE DEF next
  <2>3. i \in Invites /\ req[r].user \in Users /\ req[r].hash \in Nat
    BY <1>2 DEF Typed, UserOf
  <2>4. seen.granted[i] = 0
    BY <1>4, <2>3 DEF IInv, Data, GrantedOnce
  <2>5. /\ invites' = [j \in Invites |-> invites'[j]]
        /\ \A j \in Invites :
             /\ {"status", "expired"} \subseteq DOMAIN invites'[j]
             /\ invites'[j].status = IF j = i THEN "accepted" ELSE invites[j].status
    BY <1>4, <2>3 DEF IInv, Shaped
  <2>6. Current(r)'
    BY <1>1, <1>2, <2>2 DEF Current, Makes, HasRead, Anonymous, At, UserOf, Present
  <2>7. Claimed(r)'
    BY <1>1, <2>2, <2>3, <2>4, <2>5 DEF Claimed
  <2>8. Checked(r)'
    <3>1. InviterHolds(r)' <=> InviterHolds(r)
      BY <1>1, <2>2 DEF InviterHolds, OrgOf
    <3>2. QED
      BY <1>2, <2>2, <3>1 DEF Checked, At
  <2>9. Ready(r)' /\ ~Holder(r)' /\ ~Founding(r)'
    BY <1>2, <2>2, <2>3, <2>6, <2>7, <2>8, AcceptStep
  <2>10. StepOf(r)
    BY <1>1, <2>1, <2>5, <2>9 DEF StepOf, Present
  <2>11. ASSUME NEW q \in Requests, q # r
         PROVE  /\ AtGrant(q)' => AtGrant(q) /\ req'[q].item = req[q].item /\ req[q].item # i
                /\ Holder(q)' => Holder(q)
                /\ Founding(q)' => Founding(q)
    <3>1. AtGrant(q) => req[q].item # i
      BY <1>4 DEF IInv, Ready, Claimed, AtGrant, At, Running
    <3>2. QED
      BY <2>1, <2>11, <3>1, OthersClaims
  <2>12. OneGrant'
    BY <2>2, <2>11 DEF IInv, Data, OneGrant
  <2>13. OneFounder' /\ FoundersStay'
    BY <1>1, <2>9, <2>11 DEF IInv, Data, OneFounder, FoundersStay, Present
  <2>14. Shaped'
    BY <1>1, <2>1, <2>5 DEF IInv, Shaped, Others
  <2>15. GrantedOnce'
    BY <1>1, <2>5 DEF IInv, Data, GrantedOnce
  <2>16. HashesGrow' /\ SessionsCurrent' /\ AbsentKeysAreBare'
    BY <1>1 DEF IInv, Data, HashesGrow, SessionsCurrent, AbsentKeysAreBare, Present
  <2>17. QED
    BY <2>10, <2>12, <2>13, <2>14, <2>15, <2>16 DEF Data
<1>5. QED
  BY <1>3, <1>4 DEF ClaimInvite, ClaimPending

(* The grant itself, of whichever kind, is what an invite is used up by.   *)
LEMMA GrantUsers ==
  ASSUME IInv, NEW r \in Requests, Running(r), AtGrant(r), Quiet(r), Marks(r), UsersGrow,
         UNCHANGED <<sessions, keys, invites, lock>>,
         seen' = [seen EXCEPT !.granted[req[r].item] = @ + 1]
  PROVE  StepOf(r) /\ Shaped' /\ Data'
<1> DEFINE i == req[r].item
<1>1. i \in Invites /\ seen.granted[i] = 0 /\ invites[i].status \in {"accepted", "deleted"}
  BY DEF IInv, Ready, Typed, Claimed, AtGrant, At
<1>2. /\ seen' = [revoked |-> seen.revoked, granted |-> seen'.granted,
                  founders |-> seen.founders, crossed |-> seen.crossed,
                  doubted |-> seen.doubted]
      /\ seen'.granted = [j \in Invites |-> seen'.granted[j]]
      /\ \A j \in Invites : seen'.granted[j] = IF j = i THEN 1 ELSE seen.granted[j]
  <2>1. /\ seen = [revoked |-> seen.revoked, granted |-> seen.granted,
                   founders |-> seen.founders, crossed |-> seen.crossed,
                   doubted |-> seen.doubted]
        /\ seen.granted = [j \in Invites |-> seen.granted[j]]
    BY DEF IInv, Shaped
  <2>2. QED
    BY <1>1, <2>1
<1>3. UNCHANGED <<seen.revoked, seen.founders, seen.doubted>>
  BY <1>2
<1>4. StepOf(r)
  BY <1>2, <1>3 DEF Quiet, StepOf, UsersGrow
<1>5. OneGrant' /\ OneFounder' /\ FoundersStay'
  BY <1>3, <1>4, ClaimsStay DEF Quiet
<1>6. Shaped'
  BY <1>2, <1>3 DEF IInv, Shaped, Others, Quiet, UsersGrow
<1>7. HashesGrow'
  <2> SUFFICES ASSUME NEW u \in Users
               PROVE  /\ users'[u].hash \in Nat /\ seen'.revoked[u] \in Nat
                      /\ seen'.revoked[u] <= users'[u].hash
                      /\ ~Present(u)' => users'[u].hash = 0
    BY DEF HashesGrow
  <2>1. /\ users[u].hash \in Nat /\ seen.revoked[u] \in Nat
        /\ seen.revoked[u] <= users[u].hash
    BY DEF IInv, Data, HashesGrow
  <2>2. QED
    BY <1>3, <2>1 DEF UsersGrow
<1>8. GrantedOnce'
  BY <1>1, <1>2 DEF IInv, Data, GrantedOnce
<1>9. SessionsCurrent' /\ AbsentKeysAreBare'
  BY <1>3 DEF IInv, Data, SessionsCurrent, AbsentKeysAreBare
<1>10. QED
  BY <1>4, <1>5, <1>6, <1>7, <1>8, <1>9 DEF Data

(* A write of memberships leaves what the others go by.                    *)
LEMMA MembershipsGrow ==
  ASSUME IInv, NEW u, NEW f, NEW o,
         \/ users' = [users EXCEPT ![u].memberships = f]
         \/ users' = [users EXCEPT ![u].memberships = f, ![u].active = o]
         \/ users' = [users EXCEPT ![u].active = o]
  PROVE  UsersGrow
<1>1. users = [v \in Users |-> users[v]] /\ \A v \in Users : UserFields \subseteq DOMAIN users[v]
  BY DEF IInv, Shaped
<1>2. ASSUME NEW v \in Users
      PROVE  /\ users'[v] = users[v] \/ users'[v] = [users[v] EXCEPT !.memberships = f]
                \/ users'[v] = [users[v] EXCEPT !.memberships = f, !.active = o]
                \/ users'[v] = [users[v] EXCEPT !.active = o]
  BY <1>1
<1>3. users' = [v \in Users |-> users'[v]]
  BY <1>1
<1>4. \A v \in Users : /\ UserFields \subseteq DOMAIN users'[v]
                       /\ users'[v].status = users[v].status
                       /\ users'[v].hash = users[v].hash
  BY <1>1, <1>2 DEF UserFields
<1>5. \A v \in Users : users[v].hash \in Nat /\ (~Present(v) => users[v].hash = 0)
  BY DEF IInv, Data, HashesGrow
<1>6. QED
  BY <1>3, <1>4, <1>5 DEF UsersGrow, Present

LEMMA AcceptWrites ==
  ASSUME IInv, NEW r \in Requests, Running(r), req[r].op = "acceptInvite",
         NEW step, Writes(r, step),
         \/ req[r].at = "grant" /\ step = "mint"
         \/ req[r].at = "grant" /\ step = "active" /\ req[r].status # "new"
         \/ req[r].at = "active" /\ step = "mint",
         UsersGrow, Present(UserOf(r))', UNCHANGED seen.revoked,
         req[r].status = "new" => ~Present(UserOf(r)) \/ req[r].at = "active"
  PROVE  Quiet(r) /\ Marks(r)
<1> DEFINE next == [req[r] EXCEPT !.at = step]
<1>1. Others(r) /\ req'[r] = next /\ Marks(r)
  BY WroteKeeps DEF Writes
<1>2. Typed(r) /\ Current(r)
  BY DEF IInv, Ready
<1>3. /\ req'[r].op = "acceptInvite" /\ req'[r].at = step /\ req'[r].user = req[r].user
      /\ req'[r].item = req[r].item /\ req'[r].hash = req[r].hash
      /\ req'[r].status = req[r].status
      /\ req'[r].clear = req[r].clear /\ req'[r].raced = req[r].raced
      /\ RequestFields \subseteq DOMAIN req'[r]
  BY <1>1, <1>2 DEF Typed, RequestFields
<1> HIDE DEF next
<1>4. req[r].user \in Users /\ req[r].hash \in Nat
  BY <1>2 DEF Typed, UserOf
<1>5. req[r].raced \/ seen.revoked[UserOf(r)] <= req[r].hash
  <2>1. CASE req[r].status = "new" /\ req[r].at # "active"
    BY <1>2, <1>4, <2>1 DEF Current, Makes, IInv, Data, HashesGrow, UserOf
  <2>2. CASE ~(req[r].status = "new" /\ req[r].at # "active")
    BY <1>2, <2>2 DEF Current, HasRead, At
  <2>3. QED
    BY <2>1, <2>2
<1>6. req'[r].status = "new" => req'[r].hash = 0
  BY <1>2, <1>3 DEF Current, Makes
<1>7. Current(r)'
  BY <1>3, <1>4, <1>5, <1>6 DEF Current, Makes, HasRead, Anonymous, UserOf
<1>8. Claimed(r)' /\ Checked(r)' /\ ~AtGrant(r)'
  BY <1>3 DEF Claimed, Checked, AtGrant, At
<1>9. Ready(r)' /\ ~Holder(r)' /\ ~Founding(r)'
  BY <1>3, <1>4, <1>7, <1>8, AcceptStep
<1>10. QED
  BY <1>1, <1>8, <1>9 DEF Quiet

LEMMA GrantStep ==
  ASSUME IInv, NEW r \in Requests, Grant(r)
  PROVE  StepOf(r) /\ Shaped' /\ Data'
<1>1. UNCHANGED <<sessions, invites, keys, lock>>
  BY DEF Grant
<1>2. /\ Running(r) /\ Typed(r) /\ Current(r) /\ AtGrant(r)
      /\ req[r].op = "acceptInvite" /\ req[r].at = "grant"
  BY DEF Grant, AtGrant, At, Running, IInv, Ready
<1>3. UserOf(r) \in Users
  BY <1>2 DEF Typed
<1>4. CASE Ends(r) /\ UNCHANGED <<users, seen>>
  BY <1>1, <1>4, EndsStep DEF Documents
<1> DEFINE granted == seen' = [seen EXCEPT !.granted[req[r].item] = @ + 1]
<1>5. ASSUME granted
      PROVE  UNCHANGED seen.revoked
  BY <1>5 DEF IInv, Shaped
<1>6. CASE /\ req[r].status = "new" /\ ~Present(UserOf(r)) /\ granted /\ Writes(r, "mint")
           /\ \E doc : /\ users' = [users EXCEPT ![UserOf(r)] = doc]
                       /\ UserFields \subseteq DOMAIN doc /\ doc.status = "active" /\ doc.hash = 0
  <2>1. PICK doc : /\ users' = [users EXCEPT ![UserOf(r)] = doc]
                   /\ UserFields \subseteq DOMAIN doc /\ doc.status = "active" /\ doc.hash = 0
    BY <1>6
  <2>2. /\ users' = [u \in Users |-> users'[u]]
        /\ \A u \in Users : users'[u] = IF u = UserOf(r) THEN doc ELSE users[u]
    BY <1>3, <2>1 DEF IInv, Shaped
  <2>3. \A u \in Users : users[u].hash \in Nat /\ (~Present(u) => users[u].hash = 0)
    BY DEF IInv, Data, HashesGrow
  <2>4. UsersGrow
    <3> SUFFICES ASSUME NEW u \in Users
                 PROVE  /\ UserFields \subseteq DOMAIN users'[u]
                        /\ Present(u) => Present(u)'
                        /\ users'[u].hash \in Nat /\ users[u].hash <= users'[u].hash
                        /\ ~Present(u)' => users'[u].hash = 0
      BY <2>2 DEF UsersGrow
    <3>1. CASE u = UserOf(r)
      BY <1>6, <2>1, <2>2, <2>3, <3>1 DEF Present
    <3>2. CASE u # UserOf(r)
      BY <2>2, <2>3, <3>2 DEF IInv, Shaped, Present
    <3>3. QED
      BY <3>1, <3>2
  <2>5. users'[UserOf(r)].status # "none" /\ UserOf(r)' = UserOf(r)
    <3>1. req'[r] = [req[r] EXCEPT !.at = "mint"]
      BY <1>6, WroteKeeps DEF Writes
    <3>2. QED
      BY <1>2, <1>3, <2>1, <2>2, <3>1 DEF UserOf, Typed, RequestFields
  <2>6. Quiet(r) /\ Marks(r)
    BY <1>2, <1>5, <1>6, <2>4, <2>5, AcceptWrites DEF Present
  <2>7. QED
    BY <1>1, <1>2, <1>6, <2>4, <2>6, GrantUsers
<1>7. CASE /\ req[r].status # "new" /\ granted
           /\ Writes(r, "active") \/ Writes(r, "mint")
           /\ \/ UpdateMembership(UserOf(r), OrgOf(r), req[r].grants)
              \/ AddMembership(UserOf(r), OrgOf(r), req[r].grants)
  <2>1. UsersGrow
    <3>1. CASE UpdateMembership(UserOf(r), OrgOf(r), req[r].grants)
      <4>1. PICK f : users' = [users EXCEPT ![UserOf(r)].memberships = f]
        BY <3>1 DEF UpdateMembership
      <4>2. QED
        BY <1>3, <4>1, MembershipsGrow
    <3>2. CASE AddMembership(UserOf(r), OrgOf(r), req[r].grants)
      <4>1. PICK f : users' = [users EXCEPT ![UserOf(r)].memberships = f,
                                            ![UserOf(r)].active = OrgOf(r)]
        BY <3>2 DEF AddMembership
      <4>2. QED
        BY <1>3, <4>1, MembershipsGrow
    <3>3. QED
      BY <1>7, <3>1, <3>2
  <2>2. Present(UserOf(r))
    BY <1>2, <1>7 DEF Current, HasRead
  <2>3. UserOf(r)' = UserOf(r)
    <3>1. PICK step : req'[r] = [req[r] EXCEPT !.at = step]
      BY <1>7, WroteKeeps DEF Writes
    <3>2. QED
      BY <1>2, <3>1 DEF UserOf, Typed, RequestFields
  <2>4. users'[UserOf(r)].status # "none"
    BY <1>3, <2>1, <2>2 DEF UsersGrow, Present
  <2>5. Quiet(r) /\ Marks(r)
    BY <1>2, <1>5, <1>7, <2>1, <2>3, <2>4, AcceptWrites DEF Present
  <2>6. QED
    BY <1>1, <1>2, <1>7, <2>1, <2>5, GrantUsers
<1>8. QED
  <2>1. CASE req[r].status = "new"
    <3> DEFINE doc == [status |-> "active", email |-> req[r].email, hash |-> 0,
                       memberships |-> <<[org |-> OrgOf(r), grants |-> req[r].grants]>>,
                       active |-> OrgOf(r)]
    <3>1. CASE Present(UserOf(r)) \/ EmailTaken(req[r].email, UserOf(r))
      BY <1>4, <2>1, <3>1 DEF Grant
    <3>2. CASE ~(Present(UserOf(r)) \/ EmailTaken(req[r].email, UserOf(r)))
      <4>1. UserFields \subseteq DOMAIN doc /\ doc.status = "active" /\ doc.hash = 0
        BY DEF UserFields
      <4>2. users' = [users EXCEPT ![UserOf(r)] = doc] /\ granted /\ Writes(r, "mint")
        BY <2>1, <3>2 DEF Grant
      <4> HIDE DEF doc, granted
      <4>3. QED
        BY <1>6, <2>1, <3>2, <4>1, <4>2 DEF granted
    <3>3. QED
      BY <3>1, <3>2
  <2>2. CASE req[r].status # "new"
    BY <1>7, <2>2 DEF Grant
  <2>3. QED
    BY <2>1, <2>2

LEMMA GrantActiveStep ==
  ASSUME IInv, NEW r \in Requests, GrantActive(r)
  PROVE  StepOf(r) /\ Shaped' /\ Data'
<1>1. UNCHANGED <<sessions, invites, keys, lock, seen>>
  BY DEF GrantActive
<1>2. /\ Running(r) /\ Typed(r) /\ Current(r) /\ Writes(r, "mint")
      /\ req[r].op = "acceptInvite" /\ req[r].at = "active"
  BY DEF GrantActive, At, Running, IInv, Ready
<1>3. UserOf(r) \in Users /\ Present(UserOf(r))
  BY <1>2 DEF Typed, Current, HasRead, At
<1>4. UsersGrow
  BY <1>3, MembershipsGrow DEF GrantActive, SetActiveOrganization
<1>5. UserOf(r)' = UserOf(r)
  <2>1. req'[r] = [req[r] EXCEPT !.at = "mint"]
    BY <1>2, WroteKeeps DEF Writes
  <2>2. QED
    BY <1>2, <2>1 DEF UserOf, Typed, RequestFields
<1>6. Present(UserOf(r))'
  BY <1>3, <1>4, <1>5 DEF UsersGrow, Present
<1>7. Quiet(r) /\ Marks(r)
  BY <1>1, <1>2, <1>4, <1>6, AcceptWrites
<1>8. QED
  <2>1. seen' = [revoked |-> seen'.revoked, granted |-> seen'.granted,
                 founders |-> seen'.founders, crossed |-> seen'.crossed,
                 doubted |-> seen'.doubted]
    BY <1>1 DEF IInv, Shaped
  <2>2. QED
    BY <1>1, <1>4, <1>7, <2>1, UsersStep

-----------------------------------------------------------------------------
(* Steps of signed-in users that write.                                    *)
LEMMA SessionWrites ==
  ASSUME IInv, NEW r \in Requests, Running(r),
         req[r].op \notin Anonymous, req[r].at \notin {"start", "user"},
         NEW step, step \notin {"start", "user", "write"}, Writes(r, step),
         UNCHANGED users \/ UsersGrow, UNCHANGED seen.revoked
  PROVE  Quiet(r) /\ Marks(r)
<1> DEFINE next == [req[r] EXCEPT !.at = step]
<1>1. Others(r) /\ req'[r] = next /\ Marks(r)
  BY WroteKeeps DEF Writes
<1>2. /\ RequestFields \subseteq DOMAIN next /\ next.at = step
      /\ \A f \in RequestFields \ {"at"} : next[f] = req[r][f]
  BY AtStep
<1> HIDE DEF next
<1>3. /\ \A f \in Rest : req'[r][f] = req[r][f]
      /\ RequestFields \subseteq DOMAIN req'[r] /\ req'[r].at = step
      /\ req'[r].user = req[r].user
  BY <1>1, <1>2 DEF Rest, RequestFields
<1>4. ~At(r, "updateKey", "write")'
  BY <1>3 DEF At
<1>5. Present(UserOf(r)) => Present(UserOf(r))'
  <2>1. UserOf(r) \in Users
    BY DEF IInv, Ready, Current, HasRead
  <2>2. QED
    BY <1>3, <2>1 DEF Present, UserOf, UsersGrow
<1>6. Ready(r)' /\ ~AtGrant(r)' /\ ~Holder(r)' /\ ~Founding(r)'
  BY <1>3, <1>4, <1>5, SessionStep
<1>7. QED
  BY <1>1, <1>6 DEF Quiet

LEMMA DeletedSessions ==
  ASSUME IInv, NEW gone, DeleteSessions(gone)
  PROVE  /\ sessions' = [s \in Rows |-> sessions'[s]]
         /\ \A s \in Rows :
              /\ SessionFields \subseteq DOMAIN sessions'[s]
              /\ sessions'[s].live => sessions'[s] = sessions[s] /\ s \notin gone
<1>1. sessions = [s \in Rows |-> sessions[s]]
  BY DEF IInv, Shaped
<1>2. DOMAIN sessions = Rows
  BY <1>1
<1>3. sessions' = [s \in Rows |-> IF s \in gone THEN [sessions[s] EXCEPT !.live = FALSE]
                                  ELSE sessions[s]]
  BY <1>2 DEF DeleteSessions
<1>4. \A s \in Rows : SessionFields \subseteq DOMAIN sessions[s]
  BY DEF IInv, Shaped
<1>5. QED
  BY <1>3, <1>4 DEF SessionFields

LEMMA MintsStep ==
  ASSUME IInv, NEW r \in Requests, MintsSession(r)
  PROVE  StepOf(r) /\ Shaped' /\ Data'
<1>1. UNCHANGED <<users, invites, keys, lock, seen>> /\ Finishes(r)
  BY DEF MintsSession
<1>2. Running(r) /\ req[r].at = "mint"
  BY DEF MintsSession, Running
<1>3. /\ UserOf(r) \in Users /\ req[r].hash \in Nat /\ req[r].raced \in BOOLEAN
      /\ req[r].raced \/ seen.revoked[UserOf(r)] <= req[r].hash
  BY <1>2 DEF IInv, Ready, Typed, Current, HasRead
<1> DEFINE row == [live |-> TRUE, user |-> UserOf(r), org |-> OrgOf(r), tokens |-> {OrgOf(r)},
                   hash |-> req[r].hash, raced |-> req[r].raced]
<1>4. /\ sessions' = [s \in Rows |-> sessions'[s]]
      /\ \A s \in Rows : sessions'[s] = IF s = r THEN row ELSE sessions[s]
  BY DEF MintsSession, InsertSession, IInv, Shaped
<1>5. /\ SessionFields \subseteq DOMAIN row /\ row.user = UserOf(r) /\ row.hash = req[r].hash
      /\ row.raced = req[r].raced
  BY DEF SessionFields
<1> HIDE DEF row
<1>6. \A s \in Rows :
        /\ SessionFields \subseteq DOMAIN sessions[s]
        /\ sessions[s].live =>
             /\ sessions[s].user \in Users
             /\ sessions[s].hash \in Nat /\ sessions[s].raced \in BOOLEAN
             /\ sessions[s].raced \/ seen.revoked[sessions[s].user] <= sessions[s].hash
  BY DEF IInv, Shaped, Data, SessionsCurrent
<1>7. ASSUME NEW s \in Rows
      PROVE  /\ SessionFields \subseteq DOMAIN sessions'[s]
             /\ sessions'[s].live =>
                  /\ sessions'[s].user \in Users
                  /\ sessions'[s].hash \in Nat /\ sessions'[s].raced \in BOOLEAN
                  /\ sessions'[s].raced \/ seen.revoked[sessions'[s].user] <= sessions'[s].hash
  <2>1. CASE s = r
    BY <1>3, <1>4, <1>5, <2>1
  <2>2. CASE s # r
    BY <1>4, <1>6, <2>2
  <2>3. QED
    BY <2>1, <2>2
<1>8. QED
  BY <1>1, <1>4, <1>7, FinishesQuiet, SessionsStep

LEMMA TouchStep ==
  ASSUME IInv, NEW r \in Requests, TouchExpiry(r)
  PROVE  StepOf(r) /\ Shaped' /\ Data'
<1>1. UNCHANGED <<users, invites, keys, lock, seen>>
  BY DEF TouchExpiry
<1>2. Running(r) /\ req[r].at = "touch" /\ req[r].op \notin Anonymous
  BY DEF TouchExpiry, Running, IInv, Ready, Typed
<1>3. CASE Reads(r, "mint") /\ UNCHANGED sessions
  BY <1>1, <1>2, <1>3, SessionReads DEF Documents
<1>4. ASSUME Finishes(r), NEW o, NEW tokens,
             sessions' = [sessions EXCEPT ![req[r].sid] = [@ EXCEPT !.org = o, !.tokens = tokens]]
      PROVE  StepOf(r) /\ Shaped' /\ Data'
  <2>1. sessions' = [s \in Rows |-> sessions'[s]]
    BY <1>4 DEF IInv, Shaped
  <2>2. \A s \in Rows : \/ sessions'[s] = sessions[s]
                        \/ sessions'[s] = [sessions[s] EXCEPT !.org = o, !.tokens = tokens]
    BY <1>4 DEF IInv, Shaped
  <2>3. \A s \in Rows :
          /\ SessionFields \subseteq DOMAIN sessions'[s]
          /\ sessions'[s].live = sessions[s].live /\ sessions'[s].user = sessions[s].user
          /\ sessions'[s].hash = sessions[s].hash /\ sessions'[s].raced = sessions[s].raced
    <3>1. TAKE s \in Rows
    <3>2. SessionFields \subseteq DOMAIN sessions[s]
      BY DEF IInv, Shaped
    <3>3. CASE sessions'[s] = sessions[s]
      BY <3>2, <3>3
    <3>4. CASE sessions'[s] = [sessions[s] EXCEPT !.org = o, !.tokens = tokens]
      BY <3>2, <3>4 DEF SessionFields
    <3>5. QED
      BY <2>2, <3>3, <3>4
  <2>4. Quiet(r)
    BY <1>4, FinishesQuiet
  <2>5. \A s \in Rows :
          sessions'[s].live =>
             /\ sessions'[s].user \in Users
             /\ sessions'[s].hash \in Nat /\ sessions'[s].raced \in BOOLEAN
             /\ sessions'[s].raced \/ seen.revoked[sessions'[s].user] <= sessions'[s].hash
    <3>1. \A s \in Rows :
            sessions[s].live =>
               /\ sessions[s].user \in Users
               /\ sessions[s].hash \in Nat /\ sessions[s].raced \in BOOLEAN
               /\ sessions[s].raced \/ seen.revoked[sessions[s].user] <= sessions[s].hash
      BY DEF IInv, Data, SessionsCurrent
    <3>2. QED
      BY <2>3, <3>1
  <2>6. QED
    BY <1>1, <2>1, <2>3, <2>4, <2>5, SessionsStep
<1>5. CASE sessions[req[r].sid].live
  <2>1. /\ Finishes(r)
        /\ sessions' = [sessions EXCEPT ![req[r].sid].org = OrgOf(r),
                                        ![req[r].sid].tokens = @ \cup {OrgOf(r)}]
    BY <1>5 DEF TouchExpiry
  <2>2. PICK o, tokens :
          sessions' = [sessions EXCEPT ![req[r].sid] = [@ EXCEPT !.org = o, !.tokens = tokens]]
    BY <2>1
  <2>3. QED
    BY <1>4, <2>1, <2>2
<1>6. CASE ~sessions[req[r].sid].live
  BY <1>3, <1>6 DEF TouchExpiry
<1>7. QED
  BY <1>5, <1>6

LEMMA LogoutStep ==
  ASSUME IInv, NEW r \in Requests, Logout(r)
  PROVE  StepOf(r) /\ Shaped' /\ Data'
<1>1. UNCHANGED <<users, invites, keys, lock, seen>> /\ Quiet(r)
  <2>1. UNCHANGED <<users, invites, keys, lock, seen>> /\ Finishes(r)
    BY DEF Logout
  <2>2. QED
    BY <2>1, FinishesQuiet
<1>2. PICK gone : DeleteSessions(gone)
  BY DEF Logout
<1>3. QED
  BY <1>1, <1>2, DeletedSessions, SessionsStep DEF IInv, Data, SessionsCurrent

LEMMA UpdateMeStep ==
  ASSUME IInv, NEW r \in Requests, UpdatesMe(r)
  PROVE  StepOf(r) /\ Shaped' /\ Data'
<1>1. UNCHANGED <<invites, keys, lock, seen>>
  BY DEF UpdatesMe
<1>2. /\ Running(r) /\ req[r].op = "updateMe" /\ req[r].op \notin Anonymous
      /\ req[r].at \notin {"start", "user"}
  BY DEF UpdatesMe, UpdateMe, At, Running, Anonymous
<1>3. CASE Ends(r) /\ UNCHANGED <<users, sessions>>
  BY <1>1, <1>3, EndsStep DEF Documents
<1>4. CASE Reads(r, "others") /\ UNCHANGED <<users, sessions>>
  BY <1>1, <1>2, <1>4, SessionReads DEF Documents
<1>5. ASSUME NEW gone, DeleteSessions(gone), Writes(r, "email"), UNCHANGED users
      PROVE  StepOf(r) /\ Shaped' /\ Data'
  <2>1. Quiet(r)
    BY <1>1, <1>2, <1>5, SessionWrites
  <2>2. QED
    BY <1>1, <1>5, <2>1, DeletedSessions, SessionsStep DEF IInv, Data, SessionsCurrent
<1>6. CASE UpdateEmail(UserOf(r), req[r].email) /\ Finishes(r) /\ UNCHANGED sessions
  <2>1. Quiet(r) /\ Marks(r)
    BY <1>6, FinishesQuiet
  <2>2. users = [u \in Users |-> users[u]] /\ \A u \in Users : UserFields \subseteq DOMAIN users[u]
    BY DEF IInv, Shaped
  <2>3. \/ users' = users
        \/ users' = [users EXCEPT ![UserOf(r)].email = req[r].email]
    BY <1>6 DEF UpdateEmail
  <2>4. /\ users' = [u \in Users |-> users'[u]]
        /\ \A u \in Users : \/ users'[u] = users[u]
                            \/ users'[u] = [users[u] EXCEPT !.email = req[r].email]
    BY <2>2, <2>3
  <2>5. \A u \in Users : /\ UserFields \subseteq DOMAIN users'[u]
                         /\ users'[u].status = users[u].status
                         /\ users'[u].hash = users[u].hash
    BY <2>2, <2>4 DEF UserFields
  <2>6. \A u \in Users : users[u].hash \in Nat /\ (~Present(u) => users[u].hash = 0)
    BY DEF IInv, Data, HashesGrow
  <2>7. UsersGrow
    BY <2>4, <2>5, <2>6 DEF UsersGrow, Present
  <2>8. seen' = [revoked |-> seen'.revoked, granted |-> seen'.granted,
                 founders |-> seen'.founders, crossed |-> seen'.crossed,
                 doubted |-> seen'.doubted]
    BY <1>1 DEF IInv, Shaped
  <2>9. QED
    BY <1>1, <1>6, <2>1, <2>7, <2>8, UsersStep
<1>7. QED
  BY <1>3, <1>4, <1>5, <1>6 DEF UpdatesMe, UpdateMe

LEMMA NewHashStep ==
  ASSUME IInv, NEW r \in Requests, NewHash(r)
  PROVE  StepOf(r) /\ Shaped' /\ Data'
<1>1. UNCHANGED <<sessions, invites, keys, lock, seen>> /\ Writes(r, "revoke")
  BY DEF NewHash
<1>2. /\ Running(r) /\ req[r].op \notin Anonymous /\ req[r].at \notin {"start", "user"}
  BY DEF NewHash, At, Running, Anonymous
<1>3. UserOf(r) \in Users /\ Present(UserOf(r))
  BY <1>2 DEF IInv, Ready, Current, HasRead
<1>4. UsersGrow
  <2>1. users = [u \in Users |-> users[u]] /\ \A u \in Users : UserFields \subseteq DOMAIN users[u]
    BY DEF IInv, Shaped
  <2>2. /\ users' = [u \in Users |-> users'[u]]
        /\ \A u \in Users : \/ users'[u] = users[u]
                            \/ u = UserOf(r) /\ users'[u] = [users[u] EXCEPT !.hash = users[u].hash + 1]
    BY <2>1 DEF NewHash
  <2>3. \A u \in Users : /\ UserFields \subseteq DOMAIN users'[u]
                         /\ users'[u].status = users[u].status
                         /\ \/ users'[u].hash = users[u].hash
                            \/ u = UserOf(r) /\ users'[u].hash = users[u].hash + 1
    BY <2>1, <2>2 DEF UserFields
  <2>4. \A u \in Users : users[u].hash \in Nat /\ (~Present(u) => users[u].hash = 0)
    BY DEF IInv, Data, HashesGrow
  <2>5. ASSUME NEW u \in Users
        PROVE  /\ Present(u)' <=> Present(u)
               /\ users'[u].hash \in Nat /\ users[u].hash <= users'[u].hash
               /\ ~Present(u)' => users'[u].hash = 0
    BY <1>3, <2>3, <2>4 DEF Present
  <2>6. QED
    BY <2>2, <2>3, <2>5 DEF UsersGrow
<1>5. Quiet(r) /\ Marks(r)
  BY <1>1, <1>2, <1>4, SessionWrites
<1>6. seen' = [revoked |-> seen'.revoked, granted |-> seen'.granted,
               founders |-> seen'.founders, crossed |-> seen'.crossed,
               doubted |-> seen'.doubted]
  BY <1>1 DEF IInv, Shaped
<1>7. QED
  BY <1>1, <1>4, <1>5, <1>6, UsersStep

LEMMA RevokeSessionsStep ==
  ASSUME IInv, NEW r \in Requests, RevokeSessions(r)
  PROVE  StepOf(r) /\ Shaped' /\ Data'
<1>1. UNCHANGED <<users, invites, keys, lock>> /\ Overtakes(r)
      /\ DeleteSessions(SessionsOf(UserOf(r)))
  BY DEF RevokeSessions, DeleteAllForUser
<1>2. UserOf(r) \in Users
  BY DEF RevokeSessions, At, Running, Anonymous, IInv, Ready, Current, HasRead
<1>3. /\ Others(r) /\ Marks(r) /\ Races(r)
      /\ Ready(r)' /\ ~AtGrant(r)' /\ ~Holder(r)' /\ ~Founding(r)'
  BY <1>1, OvertakesKeeps, DoneIsReady
<1>4. /\ seen' = [revoked |-> seen'.revoked, granted |-> seen.granted,
                  founders |-> seen.founders, crossed |-> seen.crossed,
                  doubted |-> seen.doubted]
      /\ seen'.revoked = [u \in Users |-> seen'.revoked[u]]
      /\ \A u \in Users :
            seen'.revoked[u] = IF u = UserOf(r) THEN users[u].hash ELSE seen.revoked[u]
  BY <1>2 DEF RevokeSessions, IInv, Shaped
<1>5. UNCHANGED <<seen.granted, seen.founders, seen.doubted>>
  BY <1>4
<1>6. StepOf(r)
  BY <1>1, <1>3, <1>5 DEF StepOf, Present
<1>7. OneGrant' /\ OneFounder' /\ FoundersStay'
  BY <1>1, <1>3, <1>5, <1>6, ClaimsStay
<1>8. /\ sessions' = [s \in Rows |-> sessions'[s]]
      /\ \A s \in Rows :
           /\ SessionFields \subseteq DOMAIN sessions'[s]
           /\ sessions'[s].live => sessions'[s] = sessions[s] /\ s \notin SessionsOf(UserOf(r))
  BY <1>1, DeletedSessions
<1>9. Shaped'
  BY <1>1, <1>3, <1>4, <1>5, <1>8 DEF IInv, Shaped, Others
<1>10. HashesGrow' /\ GrantedOnce' /\ AbsentKeysAreBare'
  BY <1>1, <1>4, <1>5 DEF IInv, Data, HashesGrow, GrantedOnce, AbsentKeysAreBare, Present
<1>11. SessionsCurrent'
  <2> SUFFICES ASSUME NEW s \in Rows, sessions'[s].live
               PROVE  /\ sessions'[s].user \in Users
                      /\ sessions'[s].hash \in Nat /\ sessions'[s].raced \in BOOLEAN
                      /\ \/ sessions'[s].raced
                         \/ seen'.revoked[sessions'[s].user] <= sessions'[s].hash
    BY DEF SessionsCurrent
  <2>1. sessions'[s] = sessions[s] /\ s \in DOMAIN sessions
    BY <1>8 DEF IInv, Shaped
  <2>2. sessions[s].user # UserOf(r)
    BY <1>8, <2>1 DEF SessionsOf
  <2>3. QED
    BY <1>4, <2>1, <2>2 DEF IInv, Data, SessionsCurrent
<1>12. QED
  BY <1>6, <1>7, <1>9, <1>10, <1>11 DEF Data

-----------------------------------------------------------------------------
(* Invites and organizations.                                              *)
LEMMA CreateInviteStep ==
  ASSUME IInv, NEW r \in Requests, CreateInvite(r)
  PROVE  StepOf(r) /\ Shaped' /\ Data'
<1>1. UNCHANGED <<users, sessions, keys, lock, seen>>
  BY DEF CreateInvite
<1>2. CASE Ends(r) /\ UNCHANGED invites
  BY <1>1, <1>2, EndsStep DEF Documents
<1>3. ASSUME Finishes(r), invites[req[r].item].status = "none", NEW doc,
             {"status", "expired"} \subseteq DOMAIN doc,
             invites' = [invites EXCEPT ![req[r].item] = doc]
      PROVE  StepOf(r) /\ Shaped' /\ Data'
  <2>1. /\ invites' = [j \in Invites |-> invites'[j]]
        /\ \A j \in Invites : \/ invites'[j] = invites[j]
                              \/ j = req[r].item /\ invites'[j] = doc
    BY <1>3 DEF IInv, Shaped
  <2>2. \A j \in Invites :
          /\ {"status", "expired"} \subseteq DOMAIN invites'[j]
          /\ invites[j].status \in {"accepted", "deleted"}
               => invites'[j].status \in {"accepted", "deleted"}
    BY <1>3, <2>1 DEF IInv, Shaped
  <2>3. Quiet(r)
    BY <1>3, FinishesQuiet
  <2>4. QED
    BY <1>1, <2>1, <2>2, <2>3, InvitesStep
<1>4. QED
  BY <1>2, <1>3 DEF CreateInvite

LEMMA RevokeInviteStep ==
  ASSUME IInv, NEW r \in Requests, RevokeInvite(r)
  PROVE  StepOf(r) /\ Shaped' /\ Data'
<1>1. UNCHANGED <<users, sessions, keys, lock, seen>> /\ Quiet(r)
  BY FinishesQuiet DEF RevokeInvite
<1>2. RevokePending(req[r].item, req[r].tenant)
  BY DEF RevokeInvite
<1>3. QED
  BY <1>1, <1>2, RevokePendingInvites, InvitesStep

LEMMA MembershipsWrite ==
  ASSUME IInv, NEW r \in Requests, Quiet(r), Marks(r), NEW u, NEW f, NEW o,
         \/ users' = [users EXCEPT ![u].memberships = f]
         \/ users' = [users EXCEPT ![u].memberships = f, ![u].active = o]
         \/ users' = [users EXCEPT ![u].active = o],
         UNCHANGED <<sessions, invites, keys, lock, seen>>
  PROVE  StepOf(r) /\ Shaped' /\ Data'
<1>1. seen' = [revoked |-> seen'.revoked, granted |-> seen'.granted,
               founders |-> seen'.founders, crossed |-> seen'.crossed,
               doubted |-> seen'.doubted]
  BY DEF IInv, Shaped
<1>2. UsersGrow
  BY MembershipsGrow
<1>3. QED
  BY <1>1, <1>2, UsersStep

LEMMA SwitchStep ==
  ASSUME IInv, NEW r \in Requests, SwitchesOrg(r)
  PROVE  StepOf(r) /\ Shaped' /\ Data'
<1>1. UNCHANGED <<sessions, invites, keys, lock, seen>>
  BY DEF SwitchesOrg
<1>2. /\ Running(r) /\ req[r].op \notin Anonymous /\ req[r].at \notin {"start", "user"}
  BY DEF SwitchesOrg, SwitchOrg, At, Running, Anonymous
<1>3. CASE Ends(r) /\ UNCHANGED users
  BY <1>1, <1>3, EndsStep DEF Documents
<1>4. CASE Reads(r, "active") /\ UNCHANGED users
  BY <1>1, <1>2, <1>4, SessionReads DEF Documents
<1>5. ASSUME SetActiveOrganization(UserOf(r), OrgOf(r)), Writes(r, "touch")
      PROVE  StepOf(r) /\ Shaped' /\ Data'
  <2>1. PICK o : users' = [users EXCEPT ![UserOf(r)].active = o]
    BY <1>5 DEF SetActiveOrganization
  <2>2. UsersGrow
    BY <2>1, MembershipsGrow
  <2>3. Quiet(r) /\ Marks(r)
    BY <1>1, <1>2, <1>5, <2>2, SessionWrites
  <2>4. QED
    BY <1>1, <2>1, <2>3, MembershipsWrite
<1>6. QED
  BY <1>3, <1>4, <1>5 DEF SwitchesOrg, SwitchOrg

LEMMA CreateOrgStep ==
  ASSUME IInv, NEW r \in Requests, CreatesOrg(r)
  PROVE  StepOf(r) /\ Shaped' /\ Data'
<1>1. UNCHANGED <<sessions, invites, keys, lock, seen>>
  BY DEF CreatesOrg
<1>2. /\ Running(r) /\ req[r].op \notin Anonymous /\ req[r].at \notin {"start", "user"}
  BY DEF CreatesOrg, CreateOrg, At, Running, Anonymous
<1>3. CASE Writes(r, "member") /\ UNCHANGED users
  <2>1. Quiet(r)
    BY <1>1, <1>2, <1>3, SessionWrites
  <2>2. QED
    BY <1>1, <1>3, <2>1, QuietStep DEF Quiet, Documents
<1>4. ASSUME AddMembership(UserOf(r), OrgOf(r), Admin), Writes(r, "touch")
      PROVE  StepOf(r) /\ Shaped' /\ Data'
  <2>1. PICK f : users' = [users EXCEPT ![UserOf(r)].memberships = f,
                                        ![UserOf(r)].active = OrgOf(r)]
    BY <1>4 DEF AddMembership
  <2>2. UsersGrow
    BY <2>1, MembershipsGrow
  <2>3. Quiet(r) /\ Marks(r)
    BY <1>1, <1>2, <1>4, <2>2, SessionWrites
  <2>4. QED
    BY <1>1, <2>1, <2>3, MembershipsWrite
<1>5. QED
  BY <1>3, <1>4 DEF CreatesOrg, CreateOrg

LEMMA PullStep ==
  ASSUME IInv, NEW r \in Requests, PullMember(r)
  PROVE  StepOf(r) /\ Shaped' /\ Data'
<1>1. UNCHANGED <<sessions, invites, keys, lock>>
  BY DEF PullMember
<1>2. /\ Running(r) /\ req[r].op \notin Anonymous /\ req[r].at \notin {"start", "user", "write"}
  BY DEF PullMember, At, Running, Anonymous
<1>3. PICK m : /\ PullMembershipAndRepoint(m[1], OrgOf(r), m[2])
               /\ Wrote(r, [req[r] EXCEPT !.left = req[r].left \ {m}])
  BY DEF PullMember
<1>4. PICK f, next : users' = [users EXCEPT ![m[1]].memberships = f, ![m[1]].active = next]
  BY <1>3 DEF PullMembershipAndRepoint
<1>5. UsersGrow
  BY <1>4, MembershipsGrow
<1>6. /\ seen' = [revoked |-> seen'.revoked, granted |-> seen'.granted,
                  founders |-> seen'.founders, crossed |-> seen'.crossed,
                  doubted |-> seen'.doubted]
      /\ UNCHANGED <<seen.revoked, seen.granted, seen.doubted, seen.founders>>
  BY DEF PullMember, IInv, Shaped
<1>7. Others(r) /\ req'[r] = [req[r] EXCEPT !.left = req[r].left \ {m}] /\ Marks(r)
  BY <1>3, WroteKeeps
<1>8. RequestFields \subseteq DOMAIN req[r] /\ UserOf(r) \in Users
  BY <1>2 DEF IInv, Ready, Typed, Current, HasRead
<1>9. /\ \A f2 \in Rest : req'[r][f2] = req[r][f2]
      /\ RequestFields \subseteq DOMAIN req'[r] /\ req'[r].at = req[r].at
      /\ req'[r].user = req[r].user
  BY <1>7, <1>8 DEF Rest, RequestFields
<1>10. Present(UserOf(r)) => Present(UserOf(r))'
  BY <1>5, <1>8, <1>9 DEF UsersGrow, Present, UserOf
<1>11. ~At(r, "updateKey", "write")'
  BY <1>2, <1>9 DEF At
<1>12. Ready(r)' /\ ~AtGrant(r)' /\ ~Holder(r)' /\ ~Founding(r)'
  BY <1>2, <1>6, <1>9, <1>10, <1>11, SessionStep
<1>13. QED
  BY <1>1, <1>5, <1>6, <1>7, <1>12, UsersStep DEF Quiet

LEMMA DeleteOrgStep ==
  ASSUME IInv, NEW r \in Requests, DeletesOrg(r)
  PROVE  StepOf(r) /\ Shaped' /\ Data'
<1>1. UNCHANGED <<users, sessions, lock, seen>>
  BY DEF DeletesOrg
<1>2. /\ Running(r) /\ req[r].op \notin Anonymous /\ req[r].at \notin {"start", "user"}
  BY DEF DeletesOrg, DeleteOrg, At, Running, Anonymous
<1>3. CASE DeleteKeysByOrg(OrgOf(r)) /\ Writes(r, "invites") /\ UNCHANGED invites
  <2>1. Quiet(r) /\ Marks(r)
    BY <1>1, <1>2, <1>3, SessionWrites
  <2>2. /\ keys' = [k \in Keys |-> keys'[k]]
        /\ \A k \in Keys : keys'[k] = keys[k] \/ keys'[k] = AbsentKey
    BY <1>3 DEF DeleteKeysByOrg
  <2>3. \A k \in Keys : /\ {"status", "scopes"} \subseteq DOMAIN keys'[k]
                        /\ keys'[k].status = "none" => keys'[k].scopes = {}
    BY <2>2 DEF IInv, Shaped, Data, AbsentKeysAreBare, AbsentKey
  <2>4. QED
    BY <1>1, <1>3, <2>1, <2>2, <2>3, KeysStep
<1>4. CASE DeleteInvitesByOrg(OrgOf(r)) /\ Writes(r, "org") /\ UNCHANGED keys
  <2>1. Quiet(r)
    BY <1>1, <1>2, <1>4, SessionWrites
  <2>2. /\ invites' = [i \in Invites |-> invites'[i]]
        /\ \A i \in Invites : \/ invites'[i] = invites[i]
                              \/ invites'[i] = [AbsentInvite EXCEPT !.status = "deleted"]
    BY <1>4 DEF DeleteInvitesByOrg
  <2>3. \A i \in Invites :
          /\ {"status", "expired"} \subseteq DOMAIN invites'[i]
          /\ invites[i].status \in {"accepted", "deleted"}
               => invites'[i].status \in {"accepted", "deleted"}
    BY <2>2 DEF IInv, Shaped, AbsentInvite
  <2>4. QED
    BY <1>1, <1>4, <2>1, <2>2, <2>3, InvitesStep
<1>5. CASE Overtakes(r) /\ UNCHANGED <<invites, keys>>
  BY <1>1, <1>5, OvertakesKeeps, DoneIsReady, QuietStep DEF Documents
<1>6. QED
  BY <1>3, <1>4, <1>5 DEF DeletesOrg, DeleteOrg

LEMMA AddDataStep ==
  ASSUME IInv, NEW r \in Requests, AddData(r)
  PROVE  StepOf(r) /\ Shaped' /\ Data'
  BY FinishesQuiet, QuietStep DEF AddData, Documents, Quiet

-----------------------------------------------------------------------------
(* Management keys.                                                        *)
LEMMA KeyWrites ==
  ASSUME IInv, NEW r \in Requests, Finishes(r), NEW k, NEW doc,
         UNCHANGED <<users, sessions, invites, lock, seen>>,
         {"status", "scopes"} \subseteq DOMAIN doc, doc.status # "none",
         keys' = keys \/ keys' = [keys EXCEPT ![k] = doc]
  PROVE  StepOf(r) /\ Shaped' /\ Data'
<1>1. Quiet(r) /\ Marks(r)
  BY FinishesQuiet
<1>2. /\ keys' = [j \in Keys |-> keys'[j]]
      /\ \A j \in Keys : keys'[j] = keys[j] \/ keys'[j] = doc
  BY DEF IInv, Shaped
<1>3. \A j \in Keys : /\ {"status", "scopes"} \subseteq DOMAIN keys'[j]
                      /\ keys'[j].status = "none" => keys'[j].scopes = {}
  BY <1>2 DEF IInv, Shaped, Data, AbsentKeysAreBare
<1>4. QED
  BY <1>1, <1>2, <1>3, KeysStep

LEMMA IssueKeyStep ==
  ASSUME IInv, NEW r \in Requests, IssueKey(r)
  PROVE  StepOf(r) /\ Shaped' /\ Data'
<1>1. UNCHANGED <<users, sessions, invites, lock, seen>>
  BY DEF IssueKey
<1>2. CASE Ends(r) /\ UNCHANGED keys
  BY <1>1, <1>2, EndsStep DEF Documents
<1> DEFINE doc == [status |-> "active", org |-> req[r].tenant, scopes |-> req[r].scopes]
<1>3. CASE Finishes(r) /\ keys' = [keys EXCEPT ![req[r].item] = doc]
  <2>1. {"status", "scopes"} \subseteq DOMAIN doc /\ doc.status # "none"
    OBVIOUS
  <2> HIDE DEF doc
  <2>2. QED
    BY <1>1, <1>3, <2>1, KeyWrites
<1>4. QED
  BY <1>2, <1>3 DEF IssueKey

LEMMA ChangedKey ==
  ASSUME IInv, NEW r \in Requests, Finishes(r), NEW o, NEW doc,
         UNCHANGED <<users, sessions, invites, lock, seen>>,
         UpdateManagementKey(req[r].item, o, doc),
         KeyOf(r).status # "none" /\ req[r].item \in Keys
            => {"status", "scopes"} \subseteq DOMAIN doc /\ doc.status # "none"
  PROVE  StepOf(r) /\ Shaped' /\ Data'
<1>1. CASE keys' = keys
  <2>1. Quiet(r)
    BY FinishesQuiet
  <2>2. QED
    BY <1>1, <2>1, QuietStep DEF Quiet, Documents
<1>2. CASE keys' # keys
  <2>1. keys' = [keys EXCEPT ![req[r].item] = doc] /\ KeyOf(r).status # "none"
    BY <1>2 DEF UpdateManagementKey, KeyOf
  <2>2. req[r].item \in Keys
    BY <1>2, <2>1 DEF IInv, Shaped
  <2>3. QED
    BY <2>1, <2>2, KeyWrites
<1>3. QED
  BY <1>1, <1>2

LEMMA UpdateKeyStep ==
  ASSUME IInv, NEW r \in Requests, UpdateKey(r)
  PROVE  StepOf(r) /\ Shaped' /\ Data'
<1> DEFINE scopes == FinalScopes(ActorGrants(r), req[r].existing, req[r].scopes)
           status == IF req[r].status = "none" THEN KeyOf(r).status ELSE req[r].status
           doc == [KeyOf(r) EXCEPT !.scopes = scopes, !.status = status]
<1>1. /\ UNCHANGED <<users, sessions, invites, lock, seen>> /\ Finishes(r)
      /\ UpdateManagementKey(req[r].item, req[r].tenant, doc)
  BY DEF UpdateKey
<1>2. KeyOf(r).status # "none" => status # "none"
  OBVIOUS
<1> HIDE DEF scopes, status
<1>3. KeyOf(r).status # "none" /\ req[r].item \in Keys
         => {"status", "scopes"} \subseteq DOMAIN doc /\ doc.status # "none"
  <2>1. req[r].item \in Keys => {"status", "scopes"} \subseteq DOMAIN KeyOf(r)
    BY DEF IInv, Shaped, KeyOf
  <2>2. QED
    BY <1>2, <2>1
<1> HIDE DEF doc
<1>4. QED
  BY <1>1, <1>3, ChangedKey

LEMMA RestatusKeyStep ==
  ASSUME IInv, NEW r \in Requests, RestatusKey(r)
  PROVE  StepOf(r) /\ Shaped' /\ Data'
<1> DEFINE status == IF req[r].status = "none" THEN KeyOf(r).status ELSE req[r].status
           doc == [KeyOf(r) EXCEPT !.status = status]
<1>1. /\ UNCHANGED <<users, sessions, invites, lock, seen>> /\ Finishes(r)
      /\ UpdateManagementKey(req[r].item, req[r].tenant, doc)
  BY DEF RestatusKey
<1>2. KeyOf(r).status # "none" => status # "none"
  OBVIOUS
<1> HIDE DEF status
<1>3. KeyOf(r).status # "none" /\ req[r].item \in Keys
         => {"status", "scopes"} \subseteq DOMAIN doc /\ doc.status # "none"
  <2>1. req[r].item \in Keys => {"status", "scopes"} \subseteq DOMAIN KeyOf(r)
    BY DEF IInv, Shaped, KeyOf
  <2>2. QED
    BY <1>2, <2>1
<1> HIDE DEF doc
<1>4. QED
  BY <1>1, <1>3, ChangedKey

LEMMA RevokeKeyStep ==
  ASSUME IInv, NEW r \in Requests, RevokeKey(r)
  PROVE  StepOf(r) /\ Shaped' /\ Data'
<1> DEFINE doc == [KeyOf(r) EXCEPT !.status = "revoked"]
<1>1. /\ UNCHANGED <<users, sessions, invites, lock, seen>> /\ Finishes(r)
      /\ UpdateManagementKey(req[r].item, req[r].tenant, doc)
  BY DEF RevokeKey
<1>2. req[r].item \in Keys => {"status", "scopes"} \subseteq DOMAIN doc /\ doc.status # "none"
  <2>1. req[r].item \in Keys => {"status", "scopes"} \subseteq DOMAIN KeyOf(r)
    BY DEF IInv, Shaped, KeyOf
  <2>2. QED
    BY <2>1
<1> HIDE DEF doc
<1>3. QED
  BY <1>1, <1>2, ChangedKey

-----------------------------------------------------------------------------
(* The first sign-up.                                                      *)
LEMMA SignupWrites ==
  ASSUME IInv, NEW r \in Requests, Running(r), req[r].op = "signup",
         NEW step, Writes(r, step), step \notin {"user", "mint", "touch"}
  PROVE  /\ Others(r) /\ Marks(r) /\ Ready(r)' /\ ~AtGrant(r)'
         /\ req'[r].at = step /\ req'[r].op = "signup"
<1> DEFINE next == [req[r] EXCEPT !.at = step]
<1>1. Others(r) /\ req'[r] = next /\ Marks(r)
  BY WroteKeeps DEF Writes
<1>2. /\ RequestFields \subseteq DOMAIN next /\ next.at = step
      /\ \A f \in RequestFields \ {"at"} : next[f] = req[r][f]
  BY AtStep
<1> HIDE DEF next
<1>3. /\ RequestFields \subseteq DOMAIN req'[r] /\ \A f \in Rest : req'[r][f] = req[r][f]
      /\ req'[r].at = step
  BY <1>1, <1>2 DEF Rest, RequestFields
<1>4. Ready(r)' /\ ~AtGrant(r)' /\ req'[r].op = "signup"
  BY <1>3, StrangerStep DEF Rest
<1>5. QED
  BY <1>1, <1>3, <1>4

(* The claim is one request's until it is given up.                        *)
LEMMA LockStep ==
  ASSUME IInv, NEW r \in Requests, Others(r), Ready(r)', ~AtGrant(r)',
         UNCHANGED <<users, sessions, invites, keys>>,
         UNCHANGED <<seen.revoked, seen.granted, seen.founders>>,
         seen' = [revoked |-> seen'.revoked, granted |-> seen'.granted,
                  founders |-> seen'.founders, crossed |-> seen'.crossed,
                  doubted |-> seen'.doubted],
         seen'.doubted \in BOOLEAN, lock' \in {"free", "fresh", "stale"}, OneFounder'
  PROVE  StepOf(r) /\ Shaped' /\ Data'
<1>1. StepOf(r)
  BY DEF StepOf, Present
<1>2. OneGrant'
  BY <1>1, OthersClaims DEF StepOf, IInv, Data, OneGrant
<1>3. FoundersStay'
  BY DEF IInv, Data, FoundersStay, Present
<1>4. Shaped'
  BY DEF IInv, Shaped, Others
<1>5. HashesGrow' /\ SessionsCurrent' /\ GrantedOnce' /\ AbsentKeysAreBare'
  BY DEF IInv, Data, HashesGrow, SessionsCurrent, GrantedOnce, AbsentKeysAreBare, Present
<1>6. QED
  BY <1>1, <1>2, <1>3, <1>4, <1>5 DEF Data

LEMMA ClaimLockStep ==
  ASSUME IInv, NEW r \in Requests, ClaimsLock(r)
  PROVE  StepOf(r) /\ Shaped' /\ Data'
<1>1. UNCHANGED <<users, sessions, invites, keys>>
  BY DEF ClaimsLock
<1>2. Running(r) /\ req[r].op = "signup"
  BY DEF ClaimsLock, ClaimLock, At, Running
<1>3. CASE Ends(r) /\ UNCHANGED <<lock, seen>>
  BY <1>1, <1>3, EndsStep DEF Documents
<1>4. CASE /\ UNCHANGED <<lock, seen>>
           /\ Reads(r, "taken") \/ Reads(r, "look") \/ Reads(r, "again") \/ Reads(r, "clear")
  BY <1>1, <1>2, <1>4, StrangerReads DEF Documents
<1>5. CASE lock = "free" /\ lock' = "fresh" /\ Writes(r, "org") /\ UNCHANGED seen
  <2>1. /\ Others(r) /\ Ready(r)' /\ ~AtGrant(r)'
    BY <1>2, <1>5, SignupWrites
  <2>2. \A q \in Requests : q # r => (Holder(q)' => Holder(q)) /\ (Founding(q)' => Founding(q))
    BY <2>1, OthersClaims
  <2>3. OneFounder'
    BY <1>5, <2>2 DEF IInv, Data, OneFounder
  <2>4. seen' = [revoked |-> seen'.revoked, granted |-> seen'.granted,
                 founders |-> seen'.founders, crossed |-> seen'.crossed,
                 doubted |-> seen'.doubted] /\ seen'.doubted \in BOOLEAN
    BY <1>5 DEF IInv, Shaped
  <2>5. QED
    BY <1>1, <1>5, <2>1, <2>3, <2>4, LockStep
<1>6. CASE /\ lock' = "free" /\ Writes(r, "again")
           /\ seen' = [seen EXCEPT !.doubted = TRUE]
  <2>1. /\ Others(r) /\ Ready(r)' /\ ~AtGrant(r)'
    BY <1>2, <1>6, SignupWrites
  <2>2. /\ seen' = [revoked |-> seen'.revoked, granted |-> seen'.granted,
                    founders |-> seen'.founders, crossed |-> seen'.crossed,
                    doubted |-> seen'.doubted]
        /\ UNCHANGED <<seen.revoked, seen.granted, seen.founders>>
        /\ seen'.doubted = TRUE
    BY <1>6 DEF IInv, Shaped
  <2>3. OneFounder' /\ seen'.doubted \in BOOLEAN
    BY <2>2 DEF OneFounder
  <2>4. QED
    BY <1>1, <1>6, <2>1, <2>2, <2>3, LockStep
<1>7. lock \in {"free", "fresh", "stale"}
  BY DEF IInv, Shaped
<1>8. CASE At(r, "signup", "look")
  BY <1>3, <1>4, <1>7, <1>8 DEF ClaimsLock, ClaimLock, At
<1>9. CASE At(r, "signup", "clear")
  BY <1>6, <1>9 DEF ClaimsLock, ClaimLock, At
<1>10. QED
  BY <1>3, <1>4, <1>5, <1>8, <1>9 DEF ClaimsLock, ClaimLock

LEMMA ReleaseStep ==
  ASSUME IInv, NEW r \in Requests, ReleaseLock(r)
  PROVE  StepOf(r) /\ Shaped' /\ Data'
<1>1. UNCHANGED <<users, sessions, invites, keys>>
  BY DEF ReleaseLock
<1>2. Others(r) /\ Ready(r)' /\ ~AtGrant(r)' /\ ~Holder(r)' /\ ~Founding(r)'
  BY FinishesQuiet, WroteKeeps, DoneIsReady DEF ReleaseLock, Finishes
<1>3. /\ seen' = [revoked |-> seen'.revoked, granted |-> seen'.granted,
                  founders |-> seen'.founders, crossed |-> seen'.crossed,
                  doubted |-> seen'.doubted]
      /\ UNCHANGED <<seen.revoked, seen.granted, seen.founders>>
      /\ seen'.doubted = (seen.doubted \/ ~NoUsers)
  BY DEF ReleaseLock, IInv, Shaped
<1>4. seen'.doubted \in BOOLEAN
  BY <1>3 DEF IInv, Shaped, NoUsers
<1>5. OneFounder'
  <2>1. CASE seen'.doubted
    BY <2>1 DEF OneFounder
  <2>2. CASE ~seen.doubted /\ NoUsers
    <3>1. seen.founders = {}
      BY <2>2 DEF IInv, Data, FoundersStay, NoUsers
    <3>2. Holder(r) /\ \A q \in Requests : Holder(q) => q = r
      BY <2>2 DEF IInv, Data, OneFounder, ReleaseLock, At, Holder
    <3>3. \A q \in Requests : ~Holder(q)'
      BY <1>2, <3>2, OthersClaims
    <3>4. seen'.founders = {}
      BY <1>3, <3>1
    <3>5. QED
      BY <3>3, <3>4 DEF OneFounder
  <2>3. QED
    BY <1>3, <2>1, <2>2
<1>6. QED
  BY <1>1, <1>2, <1>3, <1>4, <1>5, LockStep DEF ReleaseLock

LEMMA FoundsStep ==
  ASSUME IInv, NEW r \in Requests, Founds(r)
  PROVE  StepOf(r) /\ Shaped' /\ Data'
<1>1. UNCHANGED <<sessions, invites, keys, lock>>
  BY DEF Founds
<1>2. /\ Running(r) /\ Typed(r) /\ Current(r) /\ req[r].op = "signup" /\ Holder(r) /\ Founding(r)
      /\ req[r].at \in {"org", "admin"}
  BY DEF Founds, Found, At, Running, Holder, Founding, IInv, Ready
<1>3. ASSUME UNCHANGED users PROVE UNCHANGED seen
  <2>1. {u \in Users : ~Present(u) /\ users'[u].status # "none"} = {}
    BY <1>3 DEF Present
  <2>2. QED
    BY <2>1 DEF Founds, IInv, Shaped
<1>4. ASSUME UNCHANGED users,
             Writes(r, "admin") \/ Writes(r, "release")
      PROVE  StepOf(r) /\ Shaped' /\ Data'
  <2>1. Others(r) /\ Ready(r)' /\ ~AtGrant(r)'
    BY <1>2, <1>4, SignupWrites
  <2>2. QED
    BY <1>1, <1>2, <1>3, <1>4, <2>1, QuietStep DEF Documents
<1>5. CASE UNCHANGED users /\ Reads(r, "release")
  BY <1>1, <1>2, <1>3, <1>5, StrangerReads DEF Documents
<1> DEFINE u == UserOf(r)
<1>6. ASSUME req[r].at = "admin", ~Present(u), NEW doc, users' = [users EXCEPT ![u] = doc],
             UserFields \subseteq DOMAIN doc, doc.status = "active", doc.hash = 0,
             Writes(r, "mint")
      PROVE  StepOf(r) /\ Shaped' /\ Data'
  <2>1. u \in Users
    BY <1>2 DEF Typed
  <2>2. /\ users' = [v \in Users |-> users'[v]]
        /\ \A v \in Users : users'[v] = IF v = u THEN doc ELSE users[v]
    BY <1>6, <2>1 DEF IInv, Shaped
  <2>3. \A v \in Users : /\ users[v].hash \in Nat /\ (~Present(v) => users[v].hash = 0)
                         /\ seen.revoked[v] \in Nat /\ seen.revoked[v] <= users[v].hash
    BY DEF IInv, Data, HashesGrow
  <2>4. seen.revoked[u] = 0
    BY <1>6, <2>1, <2>3
  <2>5. {v \in Users : ~Present(v) /\ users'[v].status # "none"} = {u}
    BY <1>6, <2>1, <2>2 DEF Present
  <2>6. /\ seen' = [revoked |-> seen'.revoked, granted |-> seen'.granted,
                    founders |-> seen'.founders, crossed |-> seen'.crossed,
                    doubted |-> seen'.doubted]
        /\ UNCHANGED <<seen.revoked, seen.granted, seen.doubted>>
        /\ seen'.founders = seen.founders \cup {u}
    BY <2>5 DEF Founds, IInv, Shaped
  <2>7. Others(r) /\ Marks(r) /\ req'[r] = [req[r] EXCEPT !.at = "mint"]
    BY <1>6, WroteKeeps DEF Writes
  <2>8. /\ req'[r].op = "signup" /\ req'[r].at = "mint" /\ req'[r].user = u
        /\ req'[r].item = req[r].item /\ req'[r].hash = 0
        /\ req'[r].raced = req[r].raced /\ req'[r].clear = req[r].clear
        /\ RequestFields \subseteq DOMAIN req'[r]
    BY <1>2, <2>7 DEF Typed, RequestFields, Current, Makes, UserOf
  <2>9. Typed(r)'
    BY <1>2, <2>1, <2>8 DEF Typed, Anonymous, UserOf
  <2>10. Current(r)'
    BY <1>6, <2>1, <2>2, <2>4, <2>6, <2>8 DEF Current, UserOf, Present
  <2>11. Ready(r)' /\ ~AtGrant(r)' /\ ~Founding(r)'
    BY <2>8, <2>9, <2>10 DEF Ready, Claimed, Checked, AtGrant, At, RequestFields, Founding
  <2>12. \A v \in Users :
           /\ UserFields \subseteq DOMAIN users'[v]
           /\ Present(v) => Present(v)'
           /\ users'[v].hash \in Nat /\ seen'.revoked[v] <= users'[v].hash
           /\ ~Present(v)' => users'[v].hash = 0
    BY <1>6, <2>2, <2>3, <2>4, <2>6 DEF IInv, Shaped, Present
  <2>13. StepOf(r)
    BY <1>1, <2>6, <2>7, <2>11, <2>12 DEF StepOf
  <2>14. \A q \in Requests : q # r => /\ AtGrant(q)' => AtGrant(q) /\ req'[q].item = req[q].item
                                      /\ Holder(q)' => Holder(q)
                                      /\ Founding(q)' => Founding(q)
    BY <2>7, OthersClaims
  <2>15. OneGrant'
    BY <2>11, <2>14 DEF IInv, Data, OneGrant
  <2>16. OneFounder'
    <3>1. CASE seen.doubted
      BY <2>6, <3>1 DEF OneFounder
    <3>2. CASE ~seen.doubted
      <4>1. seen.founders = {} /\ lock # "free" /\ \A q \in Requests : Holder(q) => q = r
        BY <1>2, <3>2 DEF IInv, Data, OneFounder
      <4>2. \A q \in Requests : Holder(q)' => q = r
        BY <2>14, <4>1
      <4>3. \A q \in Requests : ~Founding(q)'
        BY <2>11, <4>2 DEF Founding, Holder
      <4>4. seen'.founders = {u} /\ lock' # "free"
        BY <1>1, <2>6, <4>1
      <4>5. QED
        BY <4>2, <4>3, <4>4 DEF OneFounder
    <3>3. QED
      BY <3>1, <3>2
  <2>17. FoundersStay'
    <3>1. \A v \in seen.founders : v \in Users /\ Present(v)
      BY DEF IInv, Data, FoundersStay
    <3>2. Present(u)'
      BY <1>6, <2>1, <2>2, <2>8 DEF Present, UserOf
    <3>3. QED
      BY <2>1, <2>6, <2>8, <2>12, <3>1, <3>2 DEF FoundersStay, UserOf
  <2>18. Shaped'
    BY <1>1, <2>2, <2>6, <2>7, <2>12 DEF IInv, Shaped, Others
  <2>19. HashesGrow'
    BY <2>3, <2>6, <2>12 DEF HashesGrow
  <2>20. SessionsCurrent' /\ GrantedOnce' /\ AbsentKeysAreBare'
    BY <1>1, <2>6 DEF IInv, Data, SessionsCurrent, GrantedOnce, AbsentKeysAreBare
  <2>21. QED
    BY <2>13, <2>15, <2>16, <2>17, <2>18, <2>19, <2>20 DEF Data
<1>7. QED
  <2>1. CASE req[r].at = "org"
    BY <1>4, <1>5, <2>1 DEF Founds, Found, At
  <2>2. CASE UNCHANGED users /\ Writes(r, "release")
    BY <1>4, <2>2
  <2> DEFINE doc == [status |-> "active", email |-> FreshEmail(u), hash |-> 0,
                     memberships |-> <<[org |-> OrgOf(r), grants |-> Admin]>>,
                     active |-> OrgOf(r)]
  <2>3. CASE /\ req[r].at = "admin" /\ ~Present(u) /\ Writes(r, "mint")
             /\ users' = [users EXCEPT ![u] = doc]
    <3>1. UserFields \subseteq DOMAIN doc /\ doc.status = "active" /\ doc.hash = 0
      BY DEF UserFields
    <3> HIDE DEF doc
    <3>2. QED
      BY <1>6, <2>3, <3>1
  <2>4. QED
    BY <1>2, <2>1, <2>2, <2>3 DEF Founds, Found, At

LEMMA StopStep ==
  ASSUME IInv, NEW r \in Requests, Stop(r)
  PROVE  StepOf(r) /\ Shaped' /\ Data'
  BY EndsStep DEF Stop, Documents

-----------------------------------------------------------------------------
(* Every step of a request, and the two that are nobody's.                 *)
RequestNext(r) ==
    \/ Arrive(r) \/ Stop(r) \/ Session(r) \/ InvitesNext(r)
    \/ Organizations(r) \/ ManagementKeys(r) \/ Signup(r)

LEMMA RequestSteps ==
  ASSUME IInv, NEW r \in Requests, RequestNext(r)
  PROVE  StepOf(r) /\ Shaped' /\ Data'
<1>1. CASE Session(r)
  BY <1>1, ReadSessionStep, ReadUserStep, MintsStep, TouchStep, LoginStep, LogoutStep,
     UpdateMeStep, NewHashStep, RevokeSessionsStep DEF Session
<1>2. CASE InvitesNext(r)
  BY <1>2, CreateInviteStep, RevokeInviteStep, FindPendingStep, CheckInviterStep,
     FindAccountStep, ClaimInviteStep, GrantStep, GrantActiveStep DEF InvitesNext, Accepts
<1>3. CASE Organizations(r)
  BY <1>3, SwitchStep, CreateOrgStep, CheckStep, PullStep, DeleteOrgStep, AddDataStep
     DEF Organizations
<1>4. CASE ManagementKeys(r)
  BY <1>4, IssueKeyStep, ReadKeyStep, UpdateKeyStep, RestatusKeyStep, RevokeKeyStep, UseKeyStep
     DEF ManagementKeys
<1>5. CASE Signup(r)
  BY <1>5, CountUsersStep, ClaimLockStep, FoundsStep, TokenFailsStep, ReleaseStep DEF Signup
<1>6. QED
  BY <1>1, <1>2, <1>3, <1>4, <1>5, ArriveStep, StopStep DEF RequestNext

LEMMA TimePasses ==
  ASSUME IInv, LockAges \/ \E i \in Invites : InviteExpires(i)
  PROVE  IInv'
<1>1. /\ UNCHANGED <<users, sessions, keys, req, seen>>
      /\ lock # "free" => lock' # "free"
      /\ lock' \in {"free", "fresh", "stale"}
      /\ invites' = [i \in Invites |-> invites'[i]]
      /\ \A i \in Invites : /\ {"status", "expired"} \subseteq DOMAIN invites'[i]
                            /\ invites'[i].status = invites[i].status
  <2>1. CASE LockAges
    BY <2>1 DEF LockAges, IInv, Shaped
  <2>2. ASSUME NEW i \in Invites, InviteExpires(i)
        PROVE  /\ invites' = [j \in Invites |-> invites'[j]] /\ UNCHANGED lock
               /\ \A j \in Invites : /\ {"status", "expired"} \subseteq DOMAIN invites'[j]
                                     /\ invites'[j].status = invites[j].status
    BY <2>2 DEF InviteExpires, IInv, Shaped
  <2>3. QED
    BY <2>1, <2>2 DEF InviteExpires, IInv, Shaped
<1>2. Shaped'
  BY <1>1 DEF IInv, Shaped, OfRequests
<1>3. Data'
  <2>1. HashesGrow' /\ SessionsCurrent' /\ AbsentKeysAreBare' /\ FoundersStay'
    BY <1>1 DEF IInv, Data, HashesGrow, SessionsCurrent, AbsentKeysAreBare, FoundersStay, Present
  <2>2. GrantedOnce' /\ OneGrant'
    BY <1>1 DEF IInv, Data, GrantedOnce, OneGrant, AtGrant, At
  <2>3. OneFounder'
    BY <1>1 DEF IInv, Data, OneFounder, Holder, Founding
  <2>4. QED
    BY <2>1, <2>2, <2>3 DEF Data
<1>4. ASSUME NEW r \in Requests PROVE Ready(r)'
  <2>1. CASE ~Running(r)
    BY <1>1, <2>1 DEF IInv, Ready, Running
  <2>2. CASE Running(r)
    <3>1. Typed(r) /\ Current(r) /\ Claimed(r) /\ Checked(r)
      BY <2>2 DEF IInv, Ready
    <3>2. Typed(r)' /\ Current(r)'
      BY <1>1, <3>1 DEF Typed, UserOf, Current, Makes, HasRead, At, Present
    <3>3. Claimed(r)'
      BY <1>1, <3>1 DEF Claimed, AtGrant, At, Typed
    <3>4. Checked(r)'
      BY <1>1, <3>1 DEF Checked, At, KeyOf, InviterHolds, OrgOf
    <3>5. QED
      BY <1>1, <3>2, <3>3, <3>4 DEF IInv, Ready
  <2>3. QED
    BY <2>1, <2>2
<1>5. QED
  BY <1>2, <1>3, <1>4 DEF IInv

LEMMA InitHolds == InitFresh => IInv
<1> SUFFICES ASSUME InitFresh PROVE IInv
  OBVIOUS
<1>1. /\ users = [u \in Users |-> AbsentUser]
      /\ sessions = [s \in Rows |-> NoSession]
      /\ invites = [i \in Invites |-> AbsentInvite]
      /\ keys = [k \in Keys |-> AbsentKey]
      /\ lock = "free" /\ req = [r \in Requests |-> Idle]
      /\ seen = [revoked |-> [u \in Users |-> 0], granted |-> [i \in Invites |-> 0],
                 founders |-> {}, crossed |-> FALSE, doubted |-> FALSE]
  BY DEF InitFresh, InitAccess, Rows
<1>2. Shaped
  BY <1>1 DEF Shaped, OfRequests, AbsentUser, NoSession, AbsentInvite, AbsentKey,
     UserFields, SessionFields
<1>3. \A r \in Requests : Ready(r) /\ ~AtGrant(r) /\ ~Holder(r)
  BY <1>1 DEF Ready, Running, Idle, AtGrant, At, Holder
<1>4. HashesGrow /\ SessionsCurrent /\ GrantedOnce /\ AbsentKeysAreBare /\ FoundersStay
  BY <1>1 DEF HashesGrow, SessionsCurrent, GrantedOnce, AbsentKeysAreBare, FoundersStay, Present,
     AbsentUser, NoSession, AbsentKey
<1>5. OneGrant /\ OneFounder
  BY <1>1, <1>3 DEF OneGrant, OneFounder
<1>6. QED
  BY <1>2, <1>3, <1>4, <1>5 DEF IInv, Data

LEMMA NextKeeps == IInv /\ [Next]_vars => IInv'
<1> SUFFICES ASSUME IInv, [Next]_vars PROVE IInv'
  OBVIOUS
<1>1. ASSUME NEW r \in Requests, RequestNext(r) PROVE IInv'
  <2>1. StepOf(r) /\ Shaped' /\ Data'
    BY <1>1, RequestSteps
  <2>2. \A q \in Requests : Ready(q)'
    BY <2>1, OthersReady
  <2>3. QED
    BY <2>1, <2>2 DEF IInv
<1>2. CASE UNCHANGED vars
  <2>1. \A r \in Requests : Ready(r)'
    BY <1>2 DEF vars, IInv, Ready, Running, Typed, Current, Claimed, Checked, UserOf, Makes,
       HasRead, At, AtGrant, Present, KeyOf, InviterHolds, OrgOf
  <2>2. Shaped'
    BY <1>2 DEF vars, IInv, Shaped, OfRequests
  <2>3. Data'
    BY <1>2 DEF vars, IInv, Data, HashesGrow, SessionsCurrent, GrantedOnce, OneGrant,
       AbsentKeysAreBare, OneFounder, FoundersStay, Present, AtGrant, At, Holder, Founding
  <2>4. QED
    BY <2>1, <2>2, <2>3 DEF IInv
<1>3. QED
  BY <1>1, <1>2, TimePasses DEF Next, RequestNext

LEMMA IInvHolds == Spec => []IInv
<1>1. QED
  BY InitHolds, NextKeeps, PTL DEF Spec

-----------------------------------------------------------------------------
(* changePassword deletes the sessions of its user: a session that is left *)
(* with an earlier password was inserted by a request that was under way.  *)
THEOREM SessionsAreFresh == Spec => []SessionsFresh
<1>1. IInv => SessionsFresh
  <2> SUFFICES ASSUME IInv, NEW s \in DOMAIN sessions, sessions[s].live,
                      sessions[s].hash < seen.revoked[sessions[s].user]
               PROVE  sessions[s].raced
    BY DEF SessionsFresh
  <2>1. s \in Rows
    BY DEF IInv, Shaped
  <2>2. /\ sessions[s].user \in Users /\ sessions[s].hash \in Nat
        /\ sessions[s].raced \/ seen.revoked[sessions[s].user] <= sessions[s].hash
    BY <2>1 DEF IInv, Data, SessionsCurrent
  <2>3. seen.revoked[sessions[s].user] \in Nat
    BY <2>2 DEF IInv, Data, HashesGrow
  <2>4. QED
    BY <2>2, <2>3
<1>2. QED
  BY <1>1, IInvHolds, PTL

(* acceptInvite grants what an invite offers once at most, and the claim   *)
(* of claimBootstrap admits one first administrator.                       *)
THEOREM AdmittedOnceOnly == Spec => []AdmittedOnce
<1>1. IInv => InviteOnce
  BY DEF IInv, Data, GrantedOnce, InviteOnce
<1>2. IInv => FirstAdmins
  <2> SUFFICES ASSUME IInv, ~seen.doubted PROVE Cardinality(seen.founders) <= 1
    BY DEF FirstAdmins
  <2>1. \A u, v \in seen.founders : u = v
    BY DEF IInv, Data, OneFounder
  <2>2. CASE seen.founders = {}
    BY <2>2, FS_EmptySet
  <2>3. ASSUME NEW u \in seen.founders PROVE Cardinality(seen.founders) <= 1
    <3>1. seen.founders = {u}
      BY <2>1
    <3>2. QED
      BY <3>1, FS_Singleton
  <2>4. QED
    BY <2>2, <2>3
<1>3. QED
  BY <1>1, <1>2, IInvHolds, PTL DEF AdmittedOnce

(* Whoever is under way ends by a step of its own.                         *)
LEMMA EndsItself ==
  ASSUME IInv, [Next]_vars, NEW r \in Requests, Running(r), req'[r] = Done
  PROVE  RequestNext(r)
<1>1. req'[r].at = "done" /\ req[r].at # "done"
  BY DEF Done, Running
<1>2. UNCHANGED req => FALSE
  BY <1>1
<1>3. ASSUME NEW q \in Requests, RequestNext(q), q # r PROVE FALSE
  <2>1. Kept(r)
    BY <1>3, RequestSteps DEF StepOf, Others
  <2>2. \A f \in KeptFields : req'[r][f] = req[r][f]
    BY <2>1, KeptRequest
  <2>3. QED
    BY <1>1, <2>2 DEF KeptFields, RequestFields
<1>4. QED
  BY <1>2, <1>3 DEF Next, RequestNext, vars, InviteExpires, LockAges

(* updateManagementKey leaves alone what the actor could not grant.        *)
LEMMA Rescoped ==
  ASSUME NEW g, NEW existing, NEW submitted,
         NEW final, final = FinalScopes(g, existing, submitted)
  PROVE  /\ CanGrantManagementScopes(g, final \ existing)
         /\ CanGrantManagementScopes(g, existing \ final)
  BY DEF FinalScopes, LockedScopes, CanGrantManagementScopes

LEMMA KeyRights ==
  ASSUME IInv, NEW r \in Requests, Running(r), RequestNext(r),
         req[r].op \in {"issueKey", "updateKey"}, NEW k \in Keys,
         keys'[k].scopes # keys[k].scopes
  PROVE  /\ CanGrantManagementScopes(ActorGrants(r),
              keys'[k].scopes \ (keys[k].scopes \cup req[r].existing))
         /\ req[r].clear => CanGrantManagementScopes(ActorGrants(r),
              (keys'[k].scopes \ keys[k].scopes) \cup (keys[k].scopes \ keys'[k].scopes))
<1> DEFINE g == ActorGrants(r)
<1>1. keys = [j \in Keys |-> keys[j]] /\ {"status", "scopes"} \subseteq DOMAIN keys[k]
  BY DEF IInv, Shaped
<1>2. IssueKey(r) \/ UpdateKey(r)
  <2>1. keys' # keys
    OBVIOUS
  <2>2. ~Session(r)
    BY <2>1 DEF Session, ReadSession, ReadUser, MintsSession, TouchExpiry, Login, Logout,
       UpdatesMe, NewHash, RevokeSessions
  <2>3. ~InvitesNext(r) /\ ~Arrive(r) /\ ~Stop(r)
    BY <2>1 DEF InvitesNext, Accepts, CreateInvite, RevokeInvite, FindPending, CheckInviter,
       FindAccount, ClaimInvite, Grant, GrantActive, Arrive, Stop
  <2>4. ~Signup(r)
    BY <2>1 DEF Signup, CountUsers, ClaimsLock, Founds, TokenFails, ReleaseLock
  <2>5. ~Organizations(r)
    BY <2>1 DEF Organizations, SwitchesOrg, CreatesOrg, ChecksDelete, PullMember, DeletesOrg,
       DeleteOrg, AddData, At
  <2>6. ~RestatusKey(r)
    <3>1. ASSUME RestatusKey(r) PROVE keys'[k].scopes = keys[k].scopes
      <4> DEFINE status == IF req[r].status = "none" THEN KeyOf(r).status ELSE req[r].status
                 doc == [KeyOf(r) EXCEPT !.status = status]
      <4>1. keys' = keys \/ keys' = [keys EXCEPT ![req[r].item] = doc]
        BY <3>1 DEF RestatusKey, UpdateManagementKey
      <4> HIDE DEF status
      <4>2. req[r].item = k => doc.scopes = keys[k].scopes
        BY <1>1 DEF KeyOf
      <4> HIDE DEF doc
      <4>3. QED
        BY <1>1, <4>1, <4>2
    <3>2. QED
      BY <3>1
  <2>7. QED
    BY <2>1, <2>2, <2>3, <2>4, <2>5, <2>6
       DEF RequestNext, ManagementKeys, ReadKey, RevokeKey, UsesKey, At
<1>3. CASE IssueKey(r)
  <2>1. /\ keys[req[r].item].status = "none" /\ CanGrantManagementScopes(g, req[r].scopes)
        /\ keys' = [keys EXCEPT ![req[r].item] =
              [status |-> "active", org |-> req[r].tenant, scopes |-> req[r].scopes]]
    BY <1>3 DEF IssueKey
  <2>2. k = req[r].item /\ keys'[k].scopes = req[r].scopes
    BY <1>1, <2>1
  <2>3. keys[k].scopes = {}
    BY <2>1, <2>2 DEF IInv, Data, AbsentKeysAreBare
  <2>4. QED
    BY <2>1, <2>2, <2>3 DEF CanGrantManagementScopes
<1>4. CASE UpdateKey(r)
  <2> DEFINE final == FinalScopes(g, req[r].existing, req[r].scopes)
             status == IF req[r].status = "none" THEN KeyOf(r).status ELSE req[r].status
             doc == [KeyOf(r) EXCEPT !.scopes = final, !.status = status]
  <2>1. keys' = [keys EXCEPT ![req[r].item] = doc]
    BY <1>4 DEF UpdateKey, UpdateManagementKey
  <2> HIDE DEF final, status
  <2>2. k = req[r].item /\ keys'[k] = doc
    BY <1>1, <2>1
  <2>3. keys'[k].scopes = final
    BY <1>1, <2>2 DEF KeyOf
  <2>4. req[r].clear => req[r].existing = keys[k].scopes
    BY <1>4, <2>2 DEF UpdateKey, IInv, Ready, Checked, At, KeyOf
  <2>5. /\ CanGrantManagementScopes(g, final \ req[r].existing)
        /\ CanGrantManagementScopes(g, req[r].existing \ final)
    BY Rescoped DEF final
  <2>6. QED
    BY <2>3, <2>4, <2>5 DEF CanGrantManagementScopes
<1>5. QED
  BY <1>2, <1>3, <1>4

(* No member and no key is given a right by someone who lacks it: what an  *)
(* invite grants its inviter still holds, and the scopes that a key gains  *)
(* or loses its editor could have granted, unless another request got      *)
(* between the check and the write.                                        *)
THEOREM RightsAreHeld == Spec => RightsHeld
<1>1. IInv /\ [Next]_vars => [\A r \in Requests :
        /\ At(r, "acceptInvite", "grant") /\ req[r].clear
        /\ seen'.granted # seen.granted
        /\ req'[r] # req[r]
        => InviterHolds(r)]_vars
  BY DEF IInv, Ready, Checked, At, Running
<1>2. IInv /\ [Next]_vars => [\A r \in Requests : \A k \in Keys :
        /\ Running(r) /\ req'[r] = Done
        /\ req[r].op \in {"issueKey", "updateKey"}
        /\ keys'[k].scopes # keys[k].scopes
        => /\ CanGrantManagementScopes(ActorGrants(r),
                keys'[k].scopes \ (keys[k].scopes \cup req[r].existing))
           /\ req[r].clear => CanGrantManagementScopes(ActorGrants(r),
                (keys'[k].scopes \ keys[k].scopes) \cup (keys[k].scopes \ keys'[k].scopes))]_vars
  BY EndsItself, KeyRights
<1>3. Spec => GrantsHeld
  BY <1>1, IInvHolds, PTL DEF Spec, GrantsHeld
<1>4. Spec => ScopesHeld
  BY <1>2, IInvHolds, PTL DEF Spec, ScopesHeld
<1>5. QED
  BY <1>3, <1>4 DEF RightsHeld

-----------------------------------------------------------------------------
-----------------------------------------------------------------------------
(* Organizations. An organization is known once it is there for others     *)
(* than the sign-up that makes it, and it stays known when it is deleted.  *)
Opens(r, o) == At(r, "signup", "admin") /\ OrgOf(r) = o

Known(o) ==
    /\ o \in Orgs /\ orgs[o].status # "none"
    /\ \A r \in Requests : ~Opens(r, o)

OpensOne ==
    \A r \in Requests :
        At(r, "signup", "admin") =>
            /\ OrgOf(r) \in Orgs /\ orgs[OrgOf(r)].status # "none"
            /\ \A q \in Requests : Opens(q, OrgOf(r)) => q = r

(* Who an organization of a user, a session, an invite or a key is.        *)
UserFits(u) ==
    /\ users[u].status \in {"none", "active"} /\ users[u].email \in Emails \cup {NoEmail}
    /\ users[u].memberships \in Seq(Membership) /\ users[u].active \in Orgs \cup {NoOrg}
    /\ Present(u) => /\ Known(users[u].active)
                     /\ seen.crossed \/ Belongs(users[u].memberships, users[u].active)
    /\ \A n \in DOMAIN users[u].memberships : Known(users[u].memberships[n].org)
    /\ ~Present(u) => users[u].memberships = <<>>
SessionFits(s) ==
    /\ \A o \in sessions[s].tokens : Known(o)
    /\ sessions[s].live => sessions[s].org \in sessions[s].tokens
InviteFits(i) ==
    /\ invites[i].status \in {"none", "pending", "accepted", "revoked", "deleted"}
    /\ {"status", "org", "email", "grants"} \subseteq DOMAIN invites[i]
    /\ invites[i].grants \in Grants
    /\ invites[i].status = "pending" => Known(invites[i].org) /\ invites[i].email \in Emails
KeyFits(k) ==
    /\ keys[k] \in [status : {"none", "active", "revoked"}, org : Orgs \cup {NoOrg},
                    scopes : SUBSET Scopes]
    /\ keys[k].status # "none" => Known(keys[k].org)
OrgFits(o) == orgs[o] \in [status : {"none", "present", "deleted"},
                          owner : Users \cup {NoUser}, data : BOOLEAN]

DocumentsFit ==
    /\ orgs = [o \in Orgs |-> orgs[o]] /\ \A o \in Orgs : OrgFits(o)
    /\ \A u \in Users : UserFits(u)
    /\ \A s \in Rows : SessionFits(s)
    /\ \A i \in Invites : InviteFits(i)
    /\ \A k \in Keys : KeyFits(k)

(* What a request holds is of its type ...                                 *)
Unread == {"start", "user", "inviter", "account"}

Worded(r) ==
    /\ req[r].memberships \in Seq(Membership)
    /\ req[r].at \in Unread => req[r].memberships = <<>>
    /\ req[r].op \notin Anonymous => req[r].sid \in Rows
    /\ req[r].op \in {"signup", "createOrg", "switchOrg", "deleteOrg"} => OrgOf(r) \in Orgs
    /\ req[r].op \in {"updateMe", "createInvite"} => req[r].email \in Emails
    /\ req[r].op = "createInvite" => req[r].item \in Invites /\ req[r].grants \in Grants
    /\ req[r].op = "acceptInvite" /\ req[r].at # "start"
         => req[r].email \in Emails /\ req[r].grants \in Grants
    /\ req[r].op \in {"issueKey", "updateKey", "revokeKey", "useKey"} => req[r].item \in Keys
    /\ req[r].op \in {"issueKey", "updateKey"}
         => req[r].scopes \subseteq Scopes /\ req[r].existing \subseteq Scopes
    /\ req[r].op = "updateKey" => req[r].status \in {"none", "active", "revoked"}

(* ... and of organizations that are known: its token's, its memberships', *)
(* and the one it is about, once it has looked.                            *)
AboutKnown(r) ==
    \/ req[r].at \in {"mint", "touch", "active", "member"}
    \/ req[r].op \in {"acceptInvite", "useKey"} /\ req[r].at # "start"
    \/ req[r].op = "deleteOrg" /\ req[r].at \notin {"start", "user", "run"}

Knows(r) ==
    /\ req[r].op \notin Anonymous => Known(req[r].tenant)
    /\ \A n \in DOMAIN req[r].memberships : Known(req[r].memberships[n].org)
    /\ AboutKnown(r) => Known(OrgOf(r))

(* As long as no deletion crossed another request, memberships that were   *)
(* read are still there.                                                   *)
Remains(u, o) == u \in Users /\ (seen.crossed \/ Belongs(users[u].memberships, o))

Belonging(r) ==
    /\ req[r].at = "active" =>
         /\ Belongs(req[r].memberships, OrgOf(r))
         /\ req[r].op \in {"switchOrg", "acceptInvite"}
    /\ req[r].op # "deleteOrg" =>
         \A n \in DOMAIN req[r].memberships : Remains(UserOf(r), req[r].memberships[n].org)
    /\ req[r].op = "deleteOrg" =>
         \A m \in req[r].left :
            m[1] \in Users /\ Known(m[2]) /\ m[2] # OrgOf(r) /\ Remains(m[1], m[2])

Serves(r) == At(r, "useKey", "serve") => Exists(OrgOf(r)) \/ req[r].raced

Asks(r) == Running(r) => Worded(r) /\ Knows(r) /\ Belonging(r) /\ Serves(r)

OInv ==
    /\ OpensOne /\ DocumentsFit
    /\ \A r \in Requests : Asks(r)

-----------------------------------------------------------------------------
(* What the step of a request means for organizations and memberships.     *)
MembersStay ==
    \A u \in Users : \A o \in Orgs :
        Belongs(users[u].memberships, o) => Belongs(users'[u].memberships, o)

KnownStay ==
    /\ \A o \in Orgs : Known(o) => Known(o)'
    /\ seen.crossed => seen'.crossed

Uncrossed(r) ==
    (\E q \in Requests \ {r} : Running(q)) => seen'.crossed \/ MembersStay

ExistsStay(r) == \A o \in Orgs : Exists(o) => Exists(o)' \/ Races(r) \/ Opens(r, o)

Steady(r) == Others(r) /\ KnownStay /\ Uncrossed(r) /\ ExistsStay(r)

LEMMA KnownIsOrg ==
  ASSUME KnownStay, NEW o, Known(o)
  PROVE  Known(o)'
  BY DEF KnownStay, Known

LEMMA RemainsStays ==
  ASSUME KnownStay, seen'.crossed \/ MembersStay, NEW u, NEW o \in Orgs, Remains(u, o)
  PROVE  Remains(u, o)'
  BY DEF KnownStay, MembersStay, Remains

LEMMA MembershipOrg ==
  ASSUME NEW ms \in Seq(Membership), NEW n \in DOMAIN ms
  PROVE  ms[n] \in Membership /\ ms[n].org \in Orgs /\ ms[n].grants \in Grants
<1>1. n \in 1 .. Len(ms)
  BY LenProperties
<1>2. ms[n] \in Membership
  BY <1>1, ElementOfSeq
<1>3. QED
  BY <1>2 DEF Membership

(* Who keeps what it has read keeps what it knows.                         *)
Carried ==
    {"op", "sid", "tenant", "user", "org", "item", "email", "grants", "scopes", "status",
     "memberships", "existing", "left"}

LEMMA OthersAsk ==
  ASSUME IInv, OInv, NEW r \in Requests, Steady(r)
  PROVE  \A q \in Requests \ {r} : Asks(q)'
<1> SUFFICES ASSUME NEW q \in Requests \ {r} PROVE Asks(q)'
  OBVIOUS
<1>1. Kept(q) /\ Asks(q)
  BY DEF Steady, Others, OInv
<1>2. CASE ~Running(q)
  BY <1>1, <1>2 DEF Kept, Asks, Running
<1>3. CASE Running(q)
  <2>1. Worded(q) /\ Knows(q) /\ Belonging(q) /\ Serves(q)
    BY <1>1, <1>3 DEF Asks
  <2>2. /\ \A f \in KeptFields : req'[q][f] = req[q][f]
        /\ req[q].raced => req'[q].raced
    BY <1>1, <1>3, KeptRequest
  <2>3. /\ req'[q].op = req[q].op /\ req'[q].at = req[q].at /\ req'[q].sid = req[q].sid
        /\ req'[q].tenant = req[q].tenant /\ req'[q].user = req[q].user
        /\ req'[q].org = req[q].org /\ req'[q].item = req[q].item
        /\ req'[q].email = req[q].email /\ req'[q].grants = req[q].grants
        /\ req'[q].scopes = req[q].scopes /\ req'[q].status = req[q].status
        /\ req'[q].memberships = req[q].memberships
        /\ req'[q].existing = req[q].existing /\ req'[q].left = req[q].left
    BY <2>2 DEF KeptFields, RequestFields
  <2>4. seen'.crossed \/ MembersStay
    BY <1>3 DEF Steady, Uncrossed
  <2>5. Worded(q)'
    BY <2>1, <2>3 DEF Worded, OrgOf, Rows
  <2>6. Knows(q)'
    <3>1. KnownStay
      BY DEF Steady
    <3>2. AboutKnown(q)' <=> AboutKnown(q)
      BY <2>3 DEF AboutKnown
    <3>3. QED
      BY <2>1, <2>3, <3>1, <3>2, KnownIsOrg DEF Knows, OrgOf
  <2>7. Belonging(q)'
    <3>1. KnownStay
      BY DEF Steady
    <3>2. \A u : \A o \in Orgs : Remains(u, o) => Remains(u, o)'
      BY <2>4, <3>1, RemainsStays
    <3>3. ASSUME req[q].op = "deleteOrg", NEW m \in req[q].left
          PROVE  /\ m[1] \in Users /\ Known(m[2])' /\ m[2] # req[q].org
                 /\ Remains(m[1], m[2])'
      <4>1. m[1] \in Users /\ Known(m[2]) /\ m[2] # req[q].org /\ Remains(m[1], m[2])
        BY <2>1, <3>3 DEF Belonging, OrgOf
      <4>2. Known(m[2])' /\ m[2] \in Orgs
        BY <3>1, <4>1, KnownIsOrg DEF Known
      <4>3. Remains(m[1], m[2])'
        BY <3>2, <4>1, <4>2
      <4>4. QED
        BY <4>1, <4>2, <4>3
    <3>4. \A n \in DOMAIN req[q].memberships : req[q].memberships[n].org \in Orgs
      BY <2>1, MembershipOrg DEF Worded
    <3>5. QED
      BY <2>1, <2>3, <3>2, <3>3, <3>4 DEF Belonging, UserOf, OrgOf, Belongs
  <2>8. Serves(q)'
    <3> SUFFICES ASSUME At(q, "useKey", "serve")
                 PROVE  Exists(OrgOf(q))' \/ req'[q].raced
      BY <2>3 DEF Serves, At
    <3>1. Known(OrgOf(q))
      BY <2>1 DEF Knows, AboutKnown, At
    <3>2. OrgOf(q) \in Orgs /\ ~Opens(r, OrgOf(q))
      BY <3>1 DEF Known
    <3>3. CASE req[q].raced
      BY <2>2, <3>3
    <3>4. CASE Exists(OrgOf(q)) /\ Races(r)
      <4>1. req'[q] = [req[q] EXCEPT !.clear = FALSE, !.raced = TRUE]
        BY <1>3, <3>4 DEF Races
      <4>2. RequestFields \subseteq DOMAIN req[q]
        BY <1>3 DEF IInv, Ready, Typed
      <4>3. req'[q].raced
        BY <4>1, <4>2 DEF RequestFields
      <4>4. QED
        BY <4>3
    <3>5. CASE Exists(OrgOf(q)) /\ ~Races(r)
      <4>1. Exists(OrgOf(q))'
        <5>1. orgs'[OrgOf(q)].status = "present"
          BY <3>2, <3>5 DEF Steady, ExistsStay, Exists
        <5>2. QED
          BY <2>3, <5>1 DEF Exists, OrgOf
      <4>2. QED
        BY <4>1
    <3>6. QED
      BY <2>1, <3>3, <3>4, <3>5 DEF Serves
  <2>9. QED
    BY <2>5, <2>6, <2>7, <2>8 DEF Asks
<1>4. QED
  BY <1>2, <1>3

(* Who opens an organization, opens it until it goes on itself.            *)
LEMMA OpensKept ==
  ASSUME IInv, NEW r \in Requests, Others(r), NEW q \in Requests \ {r}, NEW o
  PROVE  Opens(q, o)' <=> Opens(q, o)
<1>1. Kept(q)
  BY DEF Others
<1>2. CASE ~Running(q)
  BY <1>1, <1>2 DEF Kept, Opens, At, OrgOf
<1>3. CASE Running(q)
  <2>1. \A f \in KeptFields : req'[q][f] = req[q][f]
    BY <1>1, <1>3, KeptRequest
  <2>2. req'[q].at = req[q].at /\ req'[q].op = req[q].op /\ req'[q].org = req[q].org
    BY <2>1 DEF KeptFields, RequestFields
  <2>3. QED
    BY <2>2 DEF Opens, At, OrgOf
<1>4. QED
  BY <1>2, <1>3

(* What is known of organizations grows: none goes back to not existing,   *)
(* and one that is being opened was not there.                             *)
LEMMA KnownGrows ==
  ASSUME IInv, OInv, NEW r \in Requests, Others(r), seen.crossed => seen'.crossed,
         \A o \in Orgs : orgs[o].status # "none" => orgs'[o].status # "none",
         At(r, "signup", "admin")' =>
            /\ OrgOf(r)' \in Orgs /\ orgs[OrgOf(r)'].status = "none"
            /\ orgs'[OrgOf(r)'].status # "none"
  PROVE  KnownStay /\ OpensOne'
<1>1. \A q \in Requests \ {r} : \A o : Opens(q, o)' <=> Opens(q, o)
  BY OpensKept
<1>2. ASSUME NEW o \in Orgs, Known(o)
      PROVE  Known(o)'
  <2>1. ~Opens(r, o)'
    BY <1>2 DEF Known, Opens
  <2>2. QED
    BY <1>1, <1>2, <2>1 DEF Known
<1>3. ASSUME NEW q \in Requests, NEW o, Opens(q, o)'
      PROVE  /\ o \in Orgs /\ orgs'[o].status # "none"
             /\ \A p \in Requests : Opens(p, o)' => p = q
  <2>1. CASE q = r
    <3>1. At(r, "signup", "admin")' /\ OrgOf(r)' = o
      BY <1>3, <2>1 DEF Opens
    <3>2. o \in Orgs /\ orgs[o].status = "none" /\ orgs'[o].status # "none"
      BY <3>1
    <3>3. ASSUME NEW p \in Requests \ {r} PROVE ~Opens(p, o)
      BY <3>2 DEF OInv, OpensOne, Opens
    <3>4. QED
      BY <1>1, <2>1, <3>2, <3>3
  <2>2. CASE q # r
    <3>1. Opens(q, o)
      BY <1>1, <1>3, <2>2
    <3>2. /\ o \in Orgs /\ orgs[o].status # "none"
          /\ \A p \in Requests : Opens(p, o) => p = q
      BY <3>1 DEF OInv, OpensOne, Opens
    <3>3. ~Opens(r, o)'
      BY <3>2 DEF Opens
    <3>4. QED
      BY <1>1, <3>2, <3>3
  <2>3. QED
    BY <2>1, <2>2
<1>4. OpensOne'
  BY <1>3 DEF OpensOne, Opens
<1>5. QED
  BY <1>2, <1>4 DEF KnownStay

-----------------------------------------------------------------------------
(* What a step has to show, and the parts that go without saying.          *)
Fits(r) == Steady(r) /\ OpensOne' /\ DocumentsFit' /\ Asks(r)'

UsersFit == \A u \in Users : UserFits(u)
SessionsFit == \A s \in Rows : SessionFits(s)
InvitesFit == \A i \in Invites : InviteFits(i)
KeysFit == \A k \in Keys : KeyFits(k)
OrgsFit == orgs = [o \in Orgs |-> orgs[o]] /\ \A o \in Orgs : OrgFits(o)

LEMMA DocumentsStay ==
  ASSUME OInv, KnownStay
  PROVE  /\ UNCHANGED users => UsersFit'
         /\ UNCHANGED sessions => SessionsFit'
         /\ UNCHANGED invites => InvitesFit'
         /\ UNCHANGED keys => KeysFit'
         /\ UNCHANGED orgs => OrgsFit'
<1>1. \A o : Known(o) => Known(o)'
  BY KnownIsOrg
<1>2. UNCHANGED users => UsersFit'
  BY <1>1 DEF OInv, DocumentsFit, UsersFit, UserFits, KnownStay, Present, Belongs
<1>3. UNCHANGED sessions => SessionsFit'
  BY <1>1 DEF OInv, DocumentsFit, SessionsFit, SessionFits, Rows
<1>4. UNCHANGED invites => InvitesFit'
  BY <1>1 DEF OInv, DocumentsFit, InvitesFit, InviteFits
<1>5. UNCHANGED keys => KeysFit'
  BY <1>1 DEF OInv, DocumentsFit, KeysFit, KeyFits
<1>6. UNCHANGED orgs => OrgsFit'
  BY DEF OInv, DocumentsFit, OrgsFit, OrgFits
<1>7. QED
  BY <1>2, <1>3, <1>4, <1>5, <1>6

LEMMA FitsTogether ==
  ASSUME IInv, OInv, NEW r \in Requests, Others(r), KnownStay, Uncrossed(r), ExistsStay(r),
         OpensOne', Asks(r)',
         UNCHANGED users \/ UsersFit', UNCHANGED sessions \/ SessionsFit',
         UNCHANGED invites \/ InvitesFit', UNCHANGED keys \/ KeysFit', UNCHANGED orgs \/ OrgsFit'
  PROVE  Fits(r)
<1>1. UsersFit' /\ SessionsFit' /\ InvitesFit' /\ KeysFit' /\ OrgsFit'
  BY DocumentsStay
<1>2. DocumentsFit'
  BY <1>1 DEF DocumentsFit, UsersFit, SessionsFit, InvitesFit, KeysFit, OrgsFit
<1>3. QED
  BY <1>2 DEF Fits, Steady

LEMMA QuietOrgs ==
  ASSUME IInv, OInv, NEW r \in Requests, Others(r), UNCHANGED orgs,
         seen.crossed => seen'.crossed, ~At(r, "signup", "admin")'
  PROVE  KnownStay /\ OpensOne' /\ ExistsStay(r)
<1>1. KnownStay /\ OpensOne'
  BY KnownGrows
<1>2. QED
  BY <1>1 DEF ExistsStay, Exists

LEMMA UsersUncrossed ==
  ASSUME NEW r, UNCHANGED users
  PROVE  MembersStay /\ Uncrossed(r)
  BY DEF MembersStay, Uncrossed

LEMMA DoneAsks ==
  ASSUME NEW r \in Requests, req'[r] = Done
  PROVE  Asks(r)' /\ ~At(r, "signup", "admin")'
  BY DEF Done, Asks, Running, At

(* A request that goes on with what it has.                                *)
LEMMA Advance ==
  ASSUME OInv, NEW r \in Requests, Running(r), KnownStay, seen'.crossed \/ MembersStay,
         \A f \in Carried : req'[r][f] = req[r][f],
         req'[r].at \in Unread => req[r].at \in Unread,
         req[r].op = "acceptInvite" => req[r].at # "start",
         AboutKnown(r)' => AboutKnown(r) \/ Known(OrgOf(r))',
         req'[r].at = "active" => /\ Belongs(req[r].memberships, OrgOf(r))
                                  /\ req[r].op \in {"switchOrg", "acceptInvite"},
         At(r, "useKey", "serve")' => Exists(OrgOf(r))'
  PROVE  Asks(r)'
<1>1. Worded(r) /\ Knows(r) /\ Belonging(r)
  BY DEF OInv, Asks
<1>2. /\ req'[r].op = req[r].op /\ req'[r].sid = req[r].sid
      /\ req'[r].tenant = req[r].tenant /\ req'[r].user = req[r].user
      /\ req'[r].org = req[r].org /\ req'[r].item = req[r].item
      /\ req'[r].email = req[r].email /\ req'[r].grants = req[r].grants
      /\ req'[r].scopes = req[r].scopes /\ req'[r].status = req[r].status
      /\ req'[r].memberships = req[r].memberships
      /\ req'[r].existing = req[r].existing /\ req'[r].left = req[r].left
  BY DEF Carried
<1>3. Worded(r)'
  BY <1>1, <1>2 DEF Worded, OrgOf, Rows
<1>4. \A o : Known(o) => Known(o)'
  BY KnownIsOrg
<1>5. Knows(r)'
  <2>1. CASE AboutKnown(r)'
    <3>1. Known(OrgOf(r))'
      BY <1>1, <1>2, <1>4, <2>1 DEF Knows, OrgOf
    <3>2. QED
      BY <1>1, <1>2, <1>4, <3>1 DEF Knows, OrgOf
  <2>2. CASE ~AboutKnown(r)'
    BY <1>1, <1>2, <1>4, <2>2 DEF Knows, OrgOf
  <2>3. QED
    BY <2>1, <2>2
<1>6. \A u : \A o \in Orgs : Remains(u, o) => Remains(u, o)'
  BY RemainsStays
<1>7. \A n \in DOMAIN req[r].memberships : req[r].memberships[n].org \in Orgs
  BY <1>1, MembershipOrg DEF Worded
<1>8. \A m \in req[r].left : Known(m[2]) => m[2] \in Orgs
  BY DEF Known
<1>9. Belonging(r)'
  BY <1>1, <1>2, <1>4, <1>6, <1>7, <1>8 DEF Belonging, UserOf, OrgOf, Belongs
<1>10. QED
  BY <1>3, <1>5, <1>9 DEF Asks, Serves

LEMMA MovedFields ==
  ASSUME NEW old, NEW step, NEW now, RequestFields \subseteq DOMAIN old,
         now = [old EXCEPT !.at = step]
  PROVE  now.at = step /\ \A f \in RequestFields \ {"at"} : now[f] = old[f]
  BY DEF RequestFields

LEMMA AtAsks ==
  ASSUME IInv, OInv, NEW r \in Requests, Running(r), KnownStay, seen'.crossed \/ MembersStay,
         NEW step, req'[r] = [req[r] EXCEPT !.at = step], step \notin Unread,
         req[r].op = "acceptInvite" => req[r].at # "start",
         \/ AboutKnown(r) \/ Known(OrgOf(r)) \/ Known(OrgOf(r))'
         \/ /\ step \notin {"mint", "touch", "active", "member"}
            /\ req[r].op \notin {"useKey", "deleteOrg"},
         step = "active" => /\ Belongs(req[r].memberships, OrgOf(r))
                            /\ req[r].op \in {"switchOrg", "acceptInvite"},
         step = "serve" => req[r].op # "useKey" \/ orgs'[OrgOf(r)].status = "present"
  PROVE  Asks(r)'
<1>1. /\ req'[r].at = step
      /\ \A f \in RequestFields \ {"at"} : req'[r][f] = req[r][f]
  <2>1. RequestFields \subseteq DOMAIN req[r]
    BY DEF IInv, Ready, Typed
  <2>2. QED
    BY <2>1, MovedFields
<1>2. /\ \A f \in Carried : req'[r][f] = req[r][f]
      /\ req'[r].op = req[r].op /\ req'[r].org = req[r].org
  BY <1>1 DEF RequestFields, Carried
<1>3. At(r, "useKey", "serve")' => Exists(OrgOf(r))'
  BY <1>1, <1>2 DEF At, Exists, OrgOf
<1>4. AboutKnown(r)' => AboutKnown(r) \/ Known(OrgOf(r))'
  <2>1. CASE AboutKnown(r) \/ Known(OrgOf(r))'
    BY <2>1
  <2>2. CASE Known(OrgOf(r))
    BY <1>2, <2>2, KnownIsOrg DEF OrgOf
  <2>3. CASE /\ step \notin {"mint", "touch", "active", "member"}
             /\ req[r].op \notin {"useKey", "deleteOrg"} /\ ~AboutKnown(r)
    <3>1. AboutKnown(r)' => req[r].op = "acceptInvite"
      BY <1>1, <1>2, <2>3 DEF AboutKnown
    <3>2. QED
      BY <2>3, <3>1 DEF AboutKnown
  <2>4. QED
    BY <2>1, <2>2, <2>3
<1>5. QED
  BY <1>1, <1>2, <1>3, <1>4, Advance

-----------------------------------------------------------------------------
(* Steps that write no document.                                           *)
Unwritten == UNCHANGED <<users, orgs, sessions, invites, keys>> /\ UNCHANGED seen.crossed

LEMMA ReadingFits ==
  ASSUME IInv, OInv, NEW r \in Requests, Others(r), Unwritten, ~At(r, "signup", "admin")',
         KnownStay /\ MembersStay => Asks(r)'
  PROVE  Fits(r)
<1>1. UNCHANGED <<users, orgs, sessions, invites, keys>> /\ (seen.crossed => seen'.crossed)
  BY DEF Unwritten
<1>2. KnownStay /\ OpensOne' /\ ExistsStay(r)
  BY <1>1, QuietOrgs
<1>3. MembersStay /\ Uncrossed(r)
  BY <1>1, UsersUncrossed
<1>4. QED
  BY <1>1, <1>2, <1>3, FitsTogether

LEMMA EndsFits ==
  ASSUME IInv, OInv, NEW r \in Requests, Ends(r) \/ Finishes(r), Unwritten
  PROVE  Fits(r)
<1>1. Others(r) /\ req'[r] = Done
  BY GoesKeeps, WroteKeeps DEF Ends, Finishes
<1>2. QED
  BY <1>1, DoneAsks, ReadingFits

LEMMA MovesFits ==
  ASSUME IInv, OInv, NEW r \in Requests, Running(r), Unwritten,
         NEW step, Reads(r, step) \/ Writes(r, step), step \notin Unread, step # "admin",
         req[r].op = "acceptInvite" => req[r].at # "start",
         \/ AboutKnown(r) \/ Known(OrgOf(r))
         \/ /\ step \notin {"mint", "touch", "active", "member"}
            /\ req[r].op \notin {"useKey", "deleteOrg"},
         step = "active" => /\ Belongs(req[r].memberships, OrgOf(r))
                            /\ req[r].op \in {"switchOrg", "acceptInvite"},
         step = "serve" => req[r].op # "useKey" \/ Exists(OrgOf(r))
  PROVE  Fits(r)
<1>1. Others(r) /\ req'[r] = [req[r] EXCEPT !.at = step]
  BY GoesKeeps, WroteKeeps DEF Reads, Writes
<1>2. req'[r].at = step
  BY <1>1, AtStep
<1>3. ~At(r, "signup", "admin")'
  BY <1>2 DEF At
<1>4. orgs'[OrgOf(r)].status = orgs[OrgOf(r)].status
  BY DEF Unwritten
<1>5. KnownStay /\ MembersStay => Asks(r)'
  BY <1>1, <1>4, AtAsks DEF Exists
<1>6. QED
  BY <1>1, <1>3, <1>5, ReadingFits

LEMMA RequestAsks ==
  ASSUME OInv, NEW r \in Requests, NEW op, NEW s, NEW o, NEW body,
         req'[r] = Request(op, s, o, body), KnownStay,
         op \notin Anonymous => s \in Rows /\ Known(o),
         op \in {"signup", "createOrg", "switchOrg", "deleteOrg"} => body.org \in Orgs,
         op \in {"updateMe", "createInvite"} => body.email \in Emails,
         op = "createInvite" => body.item \in Invites /\ body.grants \in Grants,
         op \in {"issueKey", "updateKey", "revokeKey", "useKey"} => body.item \in Keys,
         op \in {"issueKey", "updateKey"} => body.scopes \subseteq Scopes,
         op = "updateKey" => body.status \in {"none", "active", "revoked"}
  PROVE  Asks(r)' /\ ~At(r, "signup", "admin")'
<1>1. /\ req'[r].op = op /\ req'[r].at = "start" /\ req'[r].sid = s /\ req'[r].tenant = o
      /\ req'[r].org = body.org /\ req'[r].item = body.item /\ req'[r].email = body.email
      /\ req'[r].grants = body.grants /\ req'[r].scopes = body.scopes
      /\ req'[r].status = body.status /\ req'[r].memberships = <<>>
      /\ req'[r].existing = {} /\ req'[r].left = {}
  BY DEF Request
<1>2. <<>> \in Seq(Membership) /\ DOMAIN <<>> = {}
  BY EmptySeq
<1>3. Worded(r)'
  BY <1>1, <1>2 DEF Worded, OrgOf, Rows
<1>4. op \notin Anonymous => Known(o)'
  BY KnownIsOrg
<1>5. Knows(r)'
  BY <1>1, <1>2, <1>4 DEF Knows, AboutKnown
<1>6. Belonging(r)'
  BY <1>1, <1>2 DEF Belonging
<1>7. QED
  BY <1>1, <1>3, <1>5, <1>6 DEF Asks, Serves, At

LEMMA BodyFields ==
  ASSUME NEW may, NEW body \in Bodies(may)
  PROVE  /\ body.org \in may.org /\ body.email \in may.email /\ body.item \in may.item
         /\ body.grants \in may.grants /\ body.scopes \in may.scopes
         /\ body.status \in may.status /\ body.user \in may.user
  BY DEF Bodies

LEMMA RouteFields ==
  ASSUME NEW op
  PROVE  /\ op \in {"signup", "createOrg", "switchOrg", "deleteOrg"} => Routes(op).org = Orgs
         /\ op = "updateMe" => Routes(op).email = Emails
         /\ op = "createInvite" => /\ Routes(op).email = Emails /\ Routes(op).item = Invites
                                   /\ Routes(op).grants = InviteOffers
         /\ op \in {"issueKey", "updateKey", "revokeKey", "useKey"} => Routes(op).item = Keys
         /\ op \in {"issueKey", "updateKey"} => Routes(op).scopes = KeyScopes
         /\ op = "updateKey" => Routes(op).status = {"none", "active", "revoked"}
<1> USE DEF Nothing
<1>1. Routes("signup").org = Orgs
  BY DEF Routes, SignupRoute
<1>2. op \in {"createOrg", "switchOrg", "deleteOrg"} => Routes(op).org = Orgs
  BY DEF Routes, OrganizationRoutes
<1>3. Routes("updateMe").email = Emails
  BY DEF Routes, AuthRoutes
<1>4. /\ Routes("createInvite").email = Emails /\ Routes("createInvite").item = Invites
      /\ Routes("createInvite").grants = InviteOffers
  BY DEF Routes, InviteRoutes
<1>5. /\ Routes("issueKey").item = Keys /\ Routes("updateKey").item = Keys
      /\ Routes("revokeKey").item = Keys
      /\ Routes("issueKey").scopes = KeyScopes /\ Routes("updateKey").scopes = KeyScopes
      /\ Routes("updateKey").status = {"none", "active", "revoked"}
  BY DEF Routes, ManagementKeyRoutes
<1>6. Routes("useKey").item = Keys
  BY DEF Routes, Elsewhere
<1>7. QED
  BY <1>1, <1>2, <1>3, <1>4, <1>5, <1>6

LEMMA ArriveFits ==
  ASSUME IInv, OInv, NEW r \in Requests, Arrive(r)
  PROVE  Fits(r)
<1>1. Unwritten
  BY DEF Arrive, Unwritten
<1>2. PICK op \in Operations : \E body \in Bodies(Routes(op)) :
        \/ op \in Anonymous /\ Goes(r, Request(op, NoItem, NoOrg, body))
        \/ /\ op \notin Anonymous
           /\ \E s \in DOMAIN sessions : \E o \in sessions[s].tokens :
                Goes(r, Request(op, s, o, body))
  BY DEF Arrive
<1>3. PICK body \in Bodies(Routes(op)) :
        \/ op \in Anonymous /\ Goes(r, Request(op, NoItem, NoOrg, body))
        \/ /\ op \notin Anonymous
           /\ \E s \in DOMAIN sessions : \E o \in sessions[s].tokens :
                Goes(r, Request(op, s, o, body))
  BY <1>2
<1>4. PICK s, o : /\ Goes(r, Request(op, s, o, body))
                  /\ op \notin Anonymous => s \in DOMAIN sessions /\ o \in sessions[s].tokens
  BY <1>3
<1>5. Others(r) /\ req'[r] = Request(op, s, o, body)
  BY <1>4, GoesKeeps
<1>6. op \notin Anonymous => s \in Rows /\ Known(o)
  BY <1>4 DEF IInv, Shaped, OInv, DocumentsFit, SessionFits
<1>7. /\ op \in {"signup", "createOrg", "switchOrg", "deleteOrg"} => body.org \in Orgs
      /\ op \in {"updateMe", "createInvite"} => body.email \in Emails
      /\ op = "createInvite" => body.item \in Invites /\ body.grants \in Grants
      /\ op \in {"issueKey", "updateKey", "revokeKey", "useKey"} => body.item \in Keys
      /\ op \in {"issueKey", "updateKey"} => body.scopes \subseteq Scopes
      /\ op = "updateKey" => body.status \in {"none", "active", "revoked"}
  <2>1. /\ body.org \in Routes(op).org /\ body.email \in Routes(op).email
        /\ body.item \in Routes(op).item /\ body.grants \in Routes(op).grants
        /\ body.scopes \in Routes(op).scopes /\ body.status \in Routes(op).status
    BY BodyFields
  <2>2. InviteOffers \subseteq Grants /\ KeyScopes \subseteq SUBSET Scopes
    BY AccessAssumption
  <2>3. QED
    BY <2>1, <2>2, RouteFields
<1>8. ~At(r, "signup", "admin")'
  BY <1>5 DEF Request, At
<1>9. KnownStay => Asks(r)'
  BY <1>5, <1>6, <1>7, RequestAsks
<1>10. QED
  BY <1>1, <1>5, <1>8, <1>9, ReadingFits

LEMMA StopFits ==
  ASSUME IInv, OInv, NEW r \in Requests, Stop(r)
  PROVE  Fits(r)
  BY EndsFits DEF Stop, Unwritten

LEMMA ReadSessionFits ==
  ASSUME IInv, OInv, NEW r \in Requests, ReadSession(r)
  PROVE  Fits(r)
<1>1. Unwritten
  BY DEF ReadSession, Unwritten
<1>2. CASE Ends(r)
  BY <1>1, <1>2, EndsFits
<1>3. ASSUME NEW u, Goes(r, [req[r] EXCEPT !.at = "user", !.user = u])
      PROVE  Fits(r)
  <2> DEFINE next == [req[r] EXCEPT !.at = "user", !.user = u]
  <2>1. Others(r) /\ req'[r] = next
    BY <1>3, GoesKeeps
  <2>2. req[r].at = "start" /\ req[r].op \notin Anonymous /\ Running(r)
    BY DEF ReadSession, Running
  <2>3. Worded(r) /\ Knows(r) /\ req[r].memberships = <<>>
    BY <2>2 DEF OInv, Asks, Worded, Unread
  <2>4. RequestFields \subseteq DOMAIN req[r]
    BY <2>2 DEF IInv, Ready, Typed
  <2>5. /\ req'[r].at = "user" /\ req'[r].op = req[r].op /\ req'[r].sid = req[r].sid
        /\ req'[r].tenant = req[r].tenant /\ req'[r].org = req[r].org
        /\ req'[r].item = req[r].item /\ req'[r].email = req[r].email
        /\ req'[r].grants = req[r].grants /\ req'[r].scopes = req[r].scopes
        /\ req'[r].status = req[r].status /\ req'[r].memberships = <<>>
        /\ req'[r].existing = req[r].existing /\ req'[r].left = req[r].left
    BY <2>1, <2>3, <2>4 DEF RequestFields
  <2> HIDE DEF next
  <2>6. Worded(r)'
    BY <2>2, <2>3, <2>5 DEF Worded, OrgOf, Rows, Unread, Anonymous
  <2>7. KnownStay => Knows(r)'
    BY <2>2, <2>3, <2>5, KnownIsOrg DEF Knows, AboutKnown, Anonymous
  <2>8. KnownStay /\ MembersStay => Belonging(r)'
    <3> SUFFICES ASSUME KnownStay, MembersStay PROVE Belonging(r)'
      OBVIOUS
    <3>1. req[r].op = "deleteOrg" =>
            \A m \in req[r].left : m[1] \in Users /\ Known(m[2]) /\ m[2] # OrgOf(r) /\ Remains(m[1], m[2])
      BY <2>2 DEF OInv, Asks, Belonging
    <3>2. \A m \in req[r].left : Known(m[2]) => m[2] \in Orgs
      BY DEF Known
    <3>3. QED
      BY <2>5, <3>1, <3>2, KnownIsOrg, RemainsStays DEF Belonging, OrgOf
  <2>9. ~At(r, "signup", "admin")' /\ Serves(r)'
    BY <2>5 DEF At, Serves
  <2>10. KnownStay /\ MembersStay => Asks(r)'
    BY <2>6, <2>7, <2>8, <2>9 DEF Asks
  <2>11. QED
    BY <1>1, <2>1, <2>9, <2>10, ReadingFits
<1>4. QED
  BY <1>2, <1>3 DEF ReadSession

(* A user is read with memberships that it has.                            *)
LEMMA ReadMemberships ==
  ASSUME OInv, KnownStay, MembersStay, NEW u \in Users, NEW ms, ms = users[u].memberships
  PROVE  /\ ms \in Seq(Membership)
         /\ \A n \in DOMAIN ms : \A o : o = ms[n].org => Known(o)' /\ Remains(u, o)'
<1>1. ms \in Seq(Membership) /\ \A n \in DOMAIN ms : Known(ms[n].org)
  BY DEF OInv, DocumentsFit, UserFits
<1>2. \A n \in DOMAIN ms : Belongs(ms, ms[n].org) /\ ms[n].org \in Orgs
  BY <1>1, MembershipOrg DEF Belongs
<1>3. \A n \in DOMAIN ms : Belongs(users'[u].memberships, ms[n].org)
  BY <1>2 DEF MembersStay
<1>4. QED
  BY <1>1, <1>3, KnownIsOrg DEF Remains

LEMMA ReadAsks ==
  ASSUME OInv, NEW r \in Requests, Running(r), KnownStay, MembersStay,
         \A f \in {"op", "sid", "tenant", "item", "scopes"} : req'[r][f] = req[r][f],
         req'[r].status = req[r].status \/ req[r].op # "updateKey",
         \/ /\ req'[r].memberships = req[r].memberships /\ req'[r].user = req[r].user
         \/ req'[r].memberships = <<>>
         \/ req'[r].user \in Users /\ req'[r].memberships = users[req'[r].user].memberships,
         req'[r].at \in Unread => req'[r].memberships = <<>>,
         \/ req'[r].org = req[r].org /\ (AboutKnown(r)' => AboutKnown(r))
         \/ Known(req'[r].org) /\ req[r].op # "deleteOrg",
         \/ req'[r].email = req[r].email /\ req'[r].grants = req[r].grants /\ req[r].at # "start"
         \/ req[r].op \notin {"updateMe", "createInvite", "acceptInvite"}
         \/ /\ req[r].op = "acceptInvite" /\ req'[r].email \in Emails
            /\ req'[r].grants \in Grants,
         req'[r].existing = req[r].existing \/ req'[r].existing \subseteq Scopes,
         \/ req'[r].left = req[r].left
         \/ \A m \in req'[r].left : /\ m[1] \in Users /\ Known(m[2]) /\ m[2] # OrgOf(r)
                                    /\ Remains(m[1], m[2]),
         req'[r].at \notin {"active", "serve"}
  PROVE  Asks(r)' /\ (req'[r].at # "admin" => ~At(r, "signup", "admin")')
<1>1. Worded(r) /\ Knows(r) /\ Belonging(r)
  BY DEF OInv, Asks
<1>2. /\ req'[r].op = req[r].op /\ req'[r].sid = req[r].sid /\ req'[r].tenant = req[r].tenant
      /\ req'[r].item = req[r].item /\ req'[r].scopes = req[r].scopes
      /\ req'[r].status = req[r].status \/ req[r].op # "updateKey"
  OBVIOUS
<1>3. \A o : Known(o) => Known(o)' /\ o \in Orgs
  BY KnownIsOrg DEF Known
<1>4. \A u : \A o \in Orgs : Remains(u, o) => Remains(u, o)'
  BY RemainsStays
<1> DEFINE ms == req'[r].memberships
<1>5. /\ ms \in Seq(Membership)
      /\ \A n \in DOMAIN ms : \A o : o = ms[n].org =>
            /\ Known(o)'
            /\ req[r].op # "deleteOrg" => \A u : u = req'[r].user => Remains(u, o)'
  <2>1. CASE ms = req[r].memberships /\ req'[r].user = req[r].user
    BY <1>1, <1>3, <1>4, <2>1 DEF Worded, Knows, Belonging, UserOf
  <2>2. CASE ms = <<>>
    <3>1. <<>> \in Seq(Membership) /\ DOMAIN <<>> = {}
      BY EmptySeq
    <3>2. QED
      BY <2>2, <3>1
  <2>3. CASE req'[r].user \in Users /\ ms = users[req'[r].user].memberships
    <3>1. PICK u \in Users : u = req'[r].user
      BY <2>3
    <3>2. /\ ms \in Seq(Membership)
          /\ \A n \in DOMAIN ms : \A o : o = ms[n].org => Known(o)' /\ Remains(u, o)'
      BY <2>3, <3>1, ReadMemberships
    <3>3. QED
      BY <3>1, <3>2
  <2>4. QED
    BY <2>1, <2>2, <2>3
<1>6. req[r].op \in {"signup", "createOrg", "switchOrg", "deleteOrg"} => req'[r].org \in Orgs
  BY <1>1, <1>3 DEF Worded, OrgOf
<1>7. Worded(r)'
  BY <1>1, <1>2, <1>5, <1>6 DEF Worded, OrgOf, Rows
<1>8. AboutKnown(r)' => \A o : o = req'[r].org => Known(o)'
  <2>1. CASE req'[r].org = req[r].org /\ (AboutKnown(r)' => AboutKnown(r))
    BY <1>1, <1>3, <2>1 DEF Knows, OrgOf
  <2>2. CASE Known(req'[r].org)
    BY <1>3, <2>2
  <2>3. QED
    BY <2>1, <2>2
<1>9. Knows(r)'
  BY <1>1, <1>2, <1>3, <1>5, <1>8 DEF Knows, OrgOf
<1>10. req[r].op = "deleteOrg" =>
         \A m \in req'[r].left : /\ m[1] \in Users /\ Known(m[2])' /\ m[2] # req'[r].org
                                 /\ Remains(m[1], m[2])'
  BY <1>1, <1>3, <1>4 DEF Belonging, OrgOf
<1>11. Belonging(r)'
  BY <1>2, <1>5, <1>10 DEF Belonging, UserOf, OrgOf
<1>12. Serves(r)'
  BY DEF Serves, At
<1>13. QED
  BY <1>7, <1>9, <1>11, <1>12 DEF Asks, At

LEMMA ReadUserFits ==
  ASSUME IInv, OInv, NEW r \in Requests, ReadUser(r)
  PROVE  Fits(r)
<1>1. Unwritten
  BY DEF ReadUser, Unwritten
<1>2. CASE Ends(r)
  BY <1>1, <1>2, EndsFits
<1>3. ASSUME NEW h, Goes(r, [req[r] EXCEPT !.at = "run", !.hash = h,
                                           !.memberships = users[UserOf(r)].memberships])
      PROVE  Fits(r)
  <2> DEFINE next == [req[r] EXCEPT !.at = "run", !.hash = h,
                                    !.memberships = users[UserOf(r)].memberships]
  <2>1. Others(r) /\ req'[r] = next
    BY <1>3, GoesKeeps
  <2>2. req[r].at = "user" /\ Running(r)
    BY DEF ReadUser, Running
  <2>3. RequestFields \subseteq DOMAIN req[r] /\ req[r].user \in Users /\ req[r].op \notin Anonymous
    BY <2>2 DEF IInv, Ready, Typed, UserOf
  <2>4. /\ req'[r].at = "run" /\ req'[r].memberships = users[req[r].user].memberships
        /\ \A f \in RequestFields \ {"at", "hash", "memberships"} : req'[r][f] = req[r][f]
    BY <2>1, <2>3 DEF RequestFields, UserOf
  <2> HIDE DEF next
  <2>5. /\ \A f \in {"op", "sid", "tenant", "item", "scopes"} : req'[r][f] = req[r][f]
        /\ req'[r].user = req[r].user /\ req'[r].org = req[r].org /\ req'[r].op = req[r].op
        /\ req'[r].email = req[r].email /\ req'[r].grants = req[r].grants
        /\ req'[r].existing = req[r].existing /\ req'[r].left = req[r].left
        /\ req'[r].status = req[r].status
    BY <2>4 DEF RequestFields
  <2>6. AboutKnown(r)' => AboutKnown(r)
    BY <2>3, <2>4, <2>5 DEF AboutKnown, Anonymous
  <2>7. KnownStay /\ MembersStay => Asks(r)'
    BY <2>2, <2>3, <2>4, <2>5, <2>6, ReadAsks DEF Unread
  <2>8. QED
    BY <1>1, <2>1, <2>4, <2>7, ReadingFits DEF At
<1>4. QED
  BY <1>2, <1>3 DEF ReadUser

LEMMA LoginFits ==
  ASSUME IInv, OInv, NEW r \in Requests, Login(r)
  PROVE  Fits(r)
<1>1. Unwritten
  BY DEF Login, Unwritten
<1>2. CASE Ends(r)
  BY <1>1, <1>2, EndsFits
<1>3. ASSUME NEW h, users[UserOf(r)].status = "active",
             Goes(r, [req[r] EXCEPT !.at = "mint", !.org = users[UserOf(r)].active, !.hash = h])
      PROVE  Fits(r)
  <2> DEFINE next == [req[r] EXCEPT !.at = "mint", !.org = users[UserOf(r)].active, !.hash = h]
  <2>1. Others(r) /\ req'[r] = next
    BY <1>3, GoesKeeps
  <2>2. req[r].at = "start" /\ req[r].op = "login" /\ Running(r)
    BY DEF Login, At, Running
  <2>3. RequestFields \subseteq DOMAIN req[r] /\ UserOf(r) \in Users
    BY <2>2 DEF IInv, Ready, Typed
  <2>4. /\ req'[r].at = "mint" /\ req'[r].org = users[UserOf(r)].active
        /\ \A f \in RequestFields \ {"at", "hash", "org"} : req'[r][f] = req[r][f]
    BY <2>1, <2>3 DEF RequestFields
  <2> HIDE DEF next
  <2>5. /\ \A f \in {"op", "sid", "tenant", "item", "scopes"} : req'[r][f] = req[r][f]
        /\ req'[r].memberships = req[r].memberships /\ req'[r].user = req[r].user
        /\ req'[r].existing = req[r].existing /\ req'[r].left = req[r].left
        /\ req'[r].status = req[r].status
    BY <2>4 DEF RequestFields
  <2>6. Known(req'[r].org)
    BY <1>3, <2>3, <2>4 DEF OInv, DocumentsFit, UserFits, Present
  <2>7. KnownStay /\ MembersStay => Asks(r)'
    BY <2>2, <2>4, <2>5, <2>6, ReadAsks DEF Unread
  <2>8. QED
    BY <1>1, <2>1, <2>4, <2>7, ReadingFits DEF At
<1>4. QED
  BY <1>2, <1>3 DEF Login

LEMMA FindPendingFits ==
  ASSUME IInv, OInv, NEW r \in Requests, FindPending(r)
  PROVE  Fits(r)
<1> DEFINE i == invites[req[r].item]
           next == [req[r] EXCEPT !.at = "inviter", !.org = i.org, !.by = i.by,
                                  !.grants = i.grants, !.email = i.email]
<1>1. Unwritten
  BY DEF FindPending, Unwritten
<1>2. CASE Ends(r)
  BY <1>1, <1>2, EndsFits
<1>3. CASE i.status = "pending" /\ Goes(r, next)
  <2>1. Others(r) /\ req'[r] = next
    BY <1>3, GoesKeeps
  <2>2. req[r].at = "start" /\ req[r].op = "acceptInvite" /\ Running(r)
    BY DEF FindPending, At, Running
  <2>3. RequestFields \subseteq DOMAIN req[r] /\ req[r].item \in Invites
    BY <2>2 DEF IInv, Ready, Typed
  <2>4. Known(i.org) /\ i.email \in Emails /\ i.grants \in Grants
    BY <1>3, <2>3 DEF OInv, DocumentsFit, InviteFits
  <2>5. /\ req'[r].at = "inviter" /\ req'[r].org = i.org
        /\ req'[r].grants = i.grants /\ req'[r].email = i.email
        /\ \A f \in RequestFields \ {"at", "org", "by", "grants", "email"} :
              req'[r][f] = req[r][f]
    BY <2>1, <2>3 DEF RequestFields
  <2> HIDE DEF next, i
  <2>6. /\ \A f \in {"op", "sid", "tenant", "item", "scopes"} : req'[r][f] = req[r][f]
        /\ req'[r].memberships = req[r].memberships /\ req'[r].user = req[r].user
        /\ req'[r].existing = req[r].existing /\ req'[r].left = req[r].left
        /\ req'[r].status = req[r].status
    BY <2>5 DEF RequestFields
  <2>7. req[r].memberships = <<>>
    BY <2>2 DEF OInv, Asks, Worded, Unread
  <2>8. KnownStay /\ MembersStay => Asks(r)'
    BY <2>2, <2>4, <2>5, <2>6, <2>7, ReadAsks
  <2>9. QED
    BY <1>1, <2>1, <2>5, <2>8, ReadingFits DEF At
<1>4. QED
  BY <1>2, <1>3 DEF FindPending

LEMMA FindAccountFits ==
  ASSUME IInv, OInv, NEW r \in Requests, FindAccount(r)
  PROVE  Fits(r)
<1>1. Unwritten
  BY DEF FindAccount, Unwritten
<1>2. CASE Ends(r)
  BY <1>1, <1>2, EndsFits
<1>3. /\ req[r].at = "account" /\ req[r].op = "acceptInvite" /\ Running(r)
      /\ RequestFields \subseteq DOMAIN req[r] /\ req[r].memberships = <<>> /\ AboutKnown(r)
  <2>1. req[r].at = "account" /\ req[r].op = "acceptInvite" /\ Running(r)
    BY DEF FindAccount, At, Running
  <2>2. QED
    BY <2>1 DEF IInv, Ready, Typed, OInv, Asks, Worded, Unread, AboutKnown
<1>4. ASSUME NEW u \in Users, NEW ms, ms = users[u].memberships, NEW h,
             Goes(r, [req[r] EXCEPT !.at = "claim", !.user = u, !.hash = h, !.memberships = ms])
      PROVE  Fits(r)
  <2>1. /\ Others(r)
        /\ req'[r] = [req[r] EXCEPT !.at = "claim", !.user = u, !.hash = h, !.memberships = ms]
    BY <1>4, GoesKeeps
  <2>2. /\ req'[r].at = "claim" /\ req'[r].user = u /\ req'[r].memberships = ms
        /\ \A f \in RequestFields \ {"at", "user", "hash", "memberships"} : req'[r][f] = req[r][f]
    BY <1>3, <2>1 DEF RequestFields
  <2>3. /\ \A f \in {"op", "sid", "tenant", "item", "scopes"} : req'[r][f] = req[r][f]
        /\ req'[r].org = req[r].org /\ req'[r].email = req[r].email
        /\ req'[r].grants = req[r].grants
        /\ req'[r].existing = req[r].existing /\ req'[r].left = req[r].left
        /\ req'[r].status = req[r].status
    BY <2>2 DEF RequestFields
  <2>4. KnownStay /\ MembersStay => Asks(r)'
    BY <1>3, <1>4, <2>2, <2>3, ReadAsks DEF Unread
  <2>5. QED
    BY <1>1, <2>1, <2>2, <2>4, ReadingFits DEF At
<1>5. ASSUME NEW next, next = [req[r] EXCEPT !.at = "claim", !.status = "new"], Goes(r, next)
      PROVE  Fits(r)
  <2>1. Others(r) /\ req'[r] = next
    BY <1>5, GoesKeeps
  <2>2. /\ req'[r].at = "claim"
        /\ \A f \in RequestFields \ {"at", "status"} : req'[r][f] = req[r][f]
    <3>1. req'[r] = [req[r] EXCEPT !.at = "claim", !.status = "new"]
      BY <1>5, <2>1
    <3>2. QED
      BY <1>3, <3>1 DEF RequestFields
  <2>3. /\ \A f \in {"op", "sid", "tenant", "item", "scopes"} : req'[r][f] = req[r][f]
        /\ req'[r].org = req[r].org /\ req'[r].email = req[r].email
        /\ req'[r].grants = req[r].grants /\ req'[r].memberships = req[r].memberships
        /\ req'[r].user = req[r].user
        /\ req'[r].existing = req[r].existing /\ req'[r].left = req[r].left
    BY <2>2 DEF RequestFields
  <2>4. ~At(r, "signup", "admin")'
    BY <2>2 DEF At
  <2>5. KnownStay /\ MembersStay => Asks(r)'
    BY <1>3, <2>2, <2>3, ReadAsks DEF Unread
  <2>6. QED
    BY <1>1, <2>1, <2>4, <2>5, ReadingFits
<1>6. QED
  BY <1>2, <1>4, <1>5 DEF FindAccount, Account

LEMMA ReadKeyFits ==
  ASSUME IInv, OInv, NEW r \in Requests, ReadKey(r)
  PROVE  Fits(r)
<1>1. Unwritten
  BY DEF ReadKey, Unwritten
<1>2. CASE Ends(r)
  BY <1>1, <1>2, EndsFits
<1>3. CASE Goes(r, [req[r] EXCEPT !.at = "write", !.existing = KeyOf(r).scopes])
  <2> DEFINE next == [req[r] EXCEPT !.at = "write", !.existing = KeyOf(r).scopes]
  <2>1. Others(r) /\ req'[r] = next
    BY <1>3, GoesKeeps
  <2>2. req[r].at = "run" /\ req[r].op = "updateKey" /\ Running(r)
    BY DEF ReadKey, At, Running
  <2>3. RequestFields \subseteq DOMAIN req[r] /\ req[r].item \in Keys
    BY <2>2 DEF IInv, Ready, Typed, OInv, Asks, Worded
  <2>4. KeyOf(r).scopes \subseteq Scopes
    BY <2>3 DEF OInv, DocumentsFit, KeyFits, KeyOf
  <2>5. /\ req'[r].at = "write" /\ req'[r].existing \subseteq Scopes
        /\ \A f \in RequestFields \ {"at", "existing"} : req'[r][f] = req[r][f]
    BY <2>1, <2>3, <2>4 DEF RequestFields
  <2> HIDE DEF next
  <2>6. /\ \A f \in {"op", "sid", "tenant", "item", "scopes"} : req'[r][f] = req[r][f]
        /\ req'[r].memberships = req[r].memberships /\ req'[r].user = req[r].user
        /\ req'[r].org = req[r].org /\ req'[r].email = req[r].email
        /\ req'[r].grants = req[r].grants /\ req'[r].status = req[r].status
        /\ req'[r].left = req[r].left /\ req'[r].op = req[r].op
    BY <2>5 DEF RequestFields
  <2>7. AboutKnown(r)' => AboutKnown(r)
    BY <2>2, <2>5, <2>6 DEF AboutKnown
  <2>8. KnownStay /\ MembersStay => Asks(r)'
    BY <2>2, <2>5, <2>6, <2>7, ReadAsks DEF Unread
  <2>9. QED
    BY <1>1, <2>1, <2>5, <2>8, ReadingFits DEF At
<1>4. QED
  BY <1>2, <1>3 DEF ReadKey

LEMMA UseKeyFits ==
  ASSUME IInv, OInv, NEW r \in Requests, UsesKey(r)
  PROVE  Fits(r)
<1>1. Unwritten
  BY DEF UsesKey, Unwritten
<1>2. CASE Ends(r)
  BY <1>1, <1>2, EndsFits
<1>3. CASE At(r, "useKey", "tenant") /\ Exists(OrgOf(r)) /\ Reads(r, "serve")
  <2>1. Running(r) /\ AboutKnown(r) /\ req[r].op = "useKey"
    BY <1>3 DEF At, Running, AboutKnown
  <2>2. QED
    BY <1>1, <1>3, <2>1, MovesFits DEF Unread
<1>4. CASE /\ At(r, "useKey", "start") /\ KeyOf(r).status = "active"
           /\ Goes(r, [req[r] EXCEPT !.at = "tenant", !.org = KeyOf(r).org])
  <2> DEFINE next == [req[r] EXCEPT !.at = "tenant", !.org = KeyOf(r).org]
  <2>1. Others(r) /\ req'[r] = next
    BY <1>4, GoesKeeps
  <2>2. req[r].at = "start" /\ req[r].op = "useKey" /\ Running(r)
    BY <1>4 DEF At, Running
  <2>3. RequestFields \subseteq DOMAIN req[r] /\ req[r].item \in Keys
    BY <2>2 DEF IInv, Ready, Typed, OInv, Asks, Worded
  <2>4. Known(KeyOf(r).org)
    BY <1>4, <2>3 DEF OInv, DocumentsFit, KeyFits, KeyOf
  <2>5. /\ req'[r].at = "tenant" /\ req'[r].org = KeyOf(r).org
        /\ \A f \in RequestFields \ {"at", "org"} : req'[r][f] = req[r][f]
    BY <2>1, <2>3 DEF RequestFields
  <2> HIDE DEF next
  <2>6. /\ \A f \in {"op", "sid", "tenant", "item", "scopes"} : req'[r][f] = req[r][f]
        /\ req'[r].memberships = req[r].memberships /\ req'[r].user = req[r].user
        /\ req'[r].status = req[r].status /\ req'[r].existing = req[r].existing
        /\ req'[r].left = req[r].left
    BY <2>5 DEF RequestFields
  <2>7. KnownStay /\ MembersStay => Asks(r)'
    BY <2>2, <2>4, <2>5, <2>6, ReadAsks DEF Unread
  <2>8. QED
    BY <1>1, <2>1, <2>5, <2>7, ReadingFits DEF At
<1>5. QED
  BY <1>2, <1>3, <1>4 DEF UsesKey, UseKey

(* What is left of a list of memberships without an organization.          *)
LEMMA WithoutKeeps ==
  ASSUME NEW ms \in Seq(Membership), NEW o
  PROVE  /\ Without(ms, o) \in Seq(Membership)
         /\ \A k \in DOMAIN Without(ms, o) :
               \E n \in DOMAIN ms : Without(ms, o)[k] = ms[n] /\ ms[n].org # o
         /\ \A p : p # o /\ Belongs(ms, p) => Belongs(Without(ms, o), p)
<1> DEFINE S == {n \in DOMAIN ms : ms[n].org # o}
<1>1. S \in SUBSET DOMAIN ms
  OBVIOUS
<1>2. /\ AtPlaces(ms, S) \in Seq(Membership)
      /\ \A k \in DOMAIN AtPlaces(ms, S) : \E n \in S : AtPlaces(ms, S)[k] = ms[n]
      /\ \A n \in S : \E k \in DOMAIN AtPlaces(ms, S) : AtPlaces(ms, S)[k] = ms[n]
  BY <1>1, AtPlacesKeeps
<1>3. \A n \in S : n \in DOMAIN ms /\ ms[n].org # o
  OBVIOUS
<1>4. \A n \in DOMAIN ms : ms[n].org # o => n \in S
  OBVIOUS
<1>5. Without(ms, o) = AtPlaces(ms, S)
  BY DEF Without
<1> HIDE DEF S
<1>6. QED
  BY <1>2, <1>3, <1>4, <1>5 DEF Belongs

LEMMA LeaversFit ==
  ASSUME OInv, NEW o, NEW m \in Leavers(o)
  PROVE  m[1] \in Users /\ Known(m[2]) /\ m[2] # o /\ Remains(m[1], m[2])
<1>1. PICK u \in Users : m = <<u, NextActive(u, o)>> /\ Remaining(u, o) # <<>>
  BY DEF Leavers
<1> DEFINE ms == users[u].memberships
<1>2. ms \in Seq(Membership) /\ \A n \in DOMAIN ms : Known(ms[n].org)
  BY DEF OInv, DocumentsFit, UserFits
<1>3. /\ Remaining(u, o) \in Seq(Membership)
      /\ \A k \in DOMAIN Remaining(u, o) :
            \E n \in DOMAIN ms : Remaining(u, o)[k] = ms[n] /\ ms[n].org # o
  BY <1>2, WithoutKeeps DEF Remaining
<1>4. 1 \in DOMAIN Remaining(u, o)
  BY <1>1, <1>3, EmptySeq, LenProperties
<1>5. \E k \in DOMAIN Remaining(u, o) : NextActive(u, o) = Remaining(u, o)[k].org
  BY <1>4 DEF NextActive
<1>6. PICK n \in DOMAIN ms : NextActive(u, o) = ms[n].org /\ ms[n].org # o
  BY <1>3, <1>5
<1>7. Belongs(ms, ms[n].org)
  BY DEF Belongs
<1>8. QED
  BY <1>1, <1>2, <1>6, <1>7 DEF Remains

LEMMA CheckDeleteFits ==
  ASSUME IInv, OInv, NEW r \in Requests, ChecksDelete(r)
  PROVE  Fits(r)
<1>1. Unwritten
  BY DEF ChecksDelete, Unwritten
<1>2. CASE Ends(r)
  BY <1>1, <1>2, EndsFits
<1>3. CASE At(r, "deleteOrg", "run") /\ MayDelete(r) /\ Reads(r, "count")
  <2>1. Running(r) /\ req[r].op = "deleteOrg"
    BY <1>3 DEF At, Running
  <2>2. Knows(r)
    BY <2>1 DEF OInv, Asks
  <2>3. Known(OrgOf(r))
    BY <1>3, <2>2 DEF MayDelete, Belongs, Knows
  <2>4. QED
    BY <1>1, <1>3, <2>1, <2>3, MovesFits DEF Unread
<1>4. CASE At(r, "deleteOrg", "count") /\ Reads(r, "members")
  <2>1. Running(r) /\ req[r].op = "deleteOrg" /\ AboutKnown(r)
    BY <1>4 DEF At, Running, AboutKnown
  <2>2. QED
    BY <1>1, <1>4, <2>1, MovesFits DEF Unread
<1>5. CASE /\ At(r, "deleteOrg", "members")
           /\ Goes(r, [req[r] EXCEPT !.at = "pull", !.left = Leavers(OrgOf(r))])
  <2>1. Others(r) /\ req'[r] = [req[r] EXCEPT !.at = "pull", !.left = Leavers(OrgOf(r))]
    BY <1>5, GoesKeeps
  <2>2. req[r].at = "members" /\ req[r].op = "deleteOrg" /\ Running(r) /\ AboutKnown(r)
    BY <1>5 DEF At, Running, AboutKnown
  <2>3. RequestFields \subseteq DOMAIN req[r]
    BY <2>2 DEF IInv, Ready, Typed
  <2>4. /\ req'[r].at = "pull" /\ req'[r].left = Leavers(OrgOf(r))
        /\ \A f \in RequestFields \ {"at", "left"} : req'[r][f] = req[r][f]
    BY <2>1, <2>3 DEF RequestFields
  <2>5. /\ \A f \in {"op", "sid", "tenant", "item", "scopes"} : req'[r][f] = req[r][f]
        /\ req'[r].memberships = req[r].memberships /\ req'[r].user = req[r].user
        /\ req'[r].org = req[r].org /\ req'[r].email = req[r].email
        /\ req'[r].grants = req[r].grants /\ req'[r].status = req[r].status
        /\ req'[r].existing = req[r].existing
    BY <2>4 DEF RequestFields
  <2>6. \A m \in req'[r].left : /\ m[1] \in Users /\ Known(m[2]) /\ m[2] # OrgOf(r)
                                /\ Remains(m[1], m[2])
    BY <2>4, LeaversFit
  <2>7. KnownStay /\ MembersStay => Asks(r)'
    BY <2>2, <2>4, <2>5, <2>6, ReadAsks DEF Unread
  <2>8. QED
    BY <1>1, <2>1, <2>4, <2>7, ReadingFits DEF At
<1>6. QED
  BY <1>2, <1>3, <1>4, <1>5 DEF ChecksDelete, CheckDelete

LEMMA SignupReadsFit ==
  ASSUME IInv, OInv, NEW r \in Requests,
         CountUsers(r) \/ ClaimsLock(r) \/ TokenFails(r) \/ ReleaseLock(r)
  PROVE  Fits(r)
<1>1. UNCHANGED <<users, orgs, sessions, invites, keys>>
  BY DEF CountUsers, ClaimsLock, TokenFails, ReleaseLock
<1>2. seen'.crossed = seen.crossed
  <2>1. \A b : [seen EXCEPT !.doubted = b].crossed = seen.crossed
    BY DEF IInv, Shaped
  <2>2. QED
    BY <2>1 DEF CountUsers, ClaimsLock, ClaimLock, TokenFails, ReleaseLock
<1>3. Unwritten
  BY <1>1, <1>2 DEF Unwritten
<1>4. Running(r) /\ req[r].op = "signup"
  BY DEF CountUsers, ClaimsLock, ClaimLock, TokenFails, ReleaseLock, At, Running
<1> DEFINE steps == {"claim", "org", "taken", "look", "again", "clear", "release"}
           moves == \E step \in steps : Reads(r, step) \/ Writes(r, step)
<1>5. Ends(r) \/ Finishes(r) \/ moves
  <2>1. CASE CountUsers(r)
    <3>1. Reads(r, "claim") \/ Ends(r)
      BY <2>1 DEF CountUsers
    <3>2. QED
      BY <3>1
  <2>2. CASE ClaimLock(r)
    <3>1. lock \in {"free", "fresh", "stale"}
      BY DEF IInv, Shaped
    <3>2. \/ Ends(r) \/ Writes(r, "org") \/ Reads(r, "taken") \/ Reads(r, "look")
          \/ Reads(r, "again") \/ Reads(r, "clear") \/ Writes(r, "again")
      BY <2>2, <3>1 DEF ClaimLock
    <3>3. QED
      BY <3>2
  <2>3. CASE TokenFails(r)
    <3>1. Reads(r, "release")
      BY <2>3 DEF TokenFails
    <3>2. QED
      BY <3>1
  <2>4. CASE ReleaseLock(r)
    BY <2>4 DEF ReleaseLock
  <2>5. QED
    BY <2>1, <2>2, <2>3, <2>4 DEF ClaimsLock
<1>6. ASSUME NEW step \in steps, Reads(r, step) \/ Writes(r, step)
      PROVE  Fits(r)
  BY <1>3, <1>4, <1>6, MovesFits DEF Unread
<1>7. QED
  BY <1>3, <1>5, <1>6, EndsFits

-----------------------------------------------------------------------------
(* Steps that write sessions, invites or keys.                             *)
LEMMA WritingFits ==
  ASSUME IInv, OInv, NEW r \in Requests, Others(r), UNCHANGED orgs, UNCHANGED seen.crossed,
         ~At(r, "signup", "admin")', MembersStay,
         KnownStay => /\ Asks(r)' /\ (UNCHANGED users \/ UsersFit')
                      /\ UNCHANGED sessions \/ SessionsFit'
                      /\ UNCHANGED invites \/ InvitesFit'
                      /\ UNCHANGED keys \/ KeysFit'
  PROVE  Fits(r)
<1>1. KnownStay /\ OpensOne' /\ ExistsStay(r)
  BY QuietOrgs
<1>2. Uncrossed(r)
  BY DEF Uncrossed
<1>3. QED
  BY <1>1, <1>2, FitsTogether

LEMMA FinishesFit ==
  ASSUME IInv, OInv, NEW r \in Requests, Finishes(r) \/ Ends(r) \/ Overtakes(r),
         UNCHANGED <<users, orgs>>, UNCHANGED seen.crossed,
         KnownStay => /\ UNCHANGED sessions \/ SessionsFit'
                      /\ UNCHANGED invites \/ InvitesFit'
                      /\ UNCHANGED keys \/ KeysFit'
  PROVE  Fits(r)
<1>1. Others(r) /\ req'[r] = Done
  BY GoesKeeps, WroteKeeps, OvertakesKeeps DEF Ends, Finishes
<1>2. Asks(r)' /\ ~At(r, "signup", "admin")'
  BY <1>1, DoneAsks
<1>3. MembersStay
  BY UsersUncrossed
<1>4. QED
  BY <1>1, <1>2, <1>3, WritingFits

LEMMA WritesFit ==
  ASSUME IInv, OInv, NEW r \in Requests, Running(r), NEW step, Writes(r, step),
         step \notin Unread \cup {"active", "serve", "admin"},
         req[r].op = "acceptInvite" => req[r].at # "start",
         \/ AboutKnown(r)
         \/ /\ step \notin {"mint", "touch", "active", "member"}
            /\ req[r].op \notin {"useKey", "deleteOrg"},
         UNCHANGED <<users, orgs>>, UNCHANGED seen.crossed,
         KnownStay => /\ UNCHANGED sessions \/ SessionsFit'
                      /\ UNCHANGED invites \/ InvitesFit'
                      /\ UNCHANGED keys \/ KeysFit'
  PROVE  Fits(r)
<1>1. Others(r) /\ req'[r] = [req[r] EXCEPT !.at = step]
  BY WroteKeeps DEF Writes
<1>2. req'[r].at = step
  BY <1>1, AtStep
<1>3. ~At(r, "signup", "admin")'
  BY <1>2 DEF At
<1>4. MembersStay
  BY UsersUncrossed
<1>5. KnownStay => Asks(r)'
  BY <1>1, <1>4, AtAsks
<1>6. QED
  BY <1>1, <1>3, <1>4, <1>5, WritingFits

LEMMA DeletedFit ==
  ASSUME IInv, OInv, NEW gone, DeleteSessions(gone), KnownStay
  PROVE  SessionsFit'
<1> SUFFICES ASSUME NEW s \in Rows PROVE SessionFits(s)'
  BY DEF SessionsFit, Rows
<1>1. sessions = [t \in Rows |-> sessions[t]] /\ SessionFields \subseteq DOMAIN sessions[s]
  BY DEF IInv, Shaped
<1>2. sessions'[s] = sessions[s] \/ sessions'[s] = [sessions[s] EXCEPT !.live = FALSE]
  BY <1>1 DEF DeleteSessions
<1>3. /\ sessions'[s].tokens = sessions[s].tokens /\ sessions'[s].org = sessions[s].org
      /\ sessions'[s].live => sessions[s].live
  BY <1>1, <1>2 DEF SessionFields
<1>4. SessionFits(s)
  BY DEF OInv, DocumentsFit
<1>5. QED
  BY <1>3, <1>4, KnownIsOrg DEF SessionFits

LEMMA MintsFits ==
  ASSUME IInv, OInv, NEW r \in Requests, MintsSession(r)
  PROVE  Fits(r)
<1>1. /\ UNCHANGED <<users, orgs, invites, keys, seen>> /\ Finishes(r)
      /\ InsertSession(r, UserOf(r), OrgOf(r), req[r].hash)
  BY DEF MintsSession
<1>2. Known(OrgOf(r))
  BY DEF MintsSession, OInv, Asks, Running, Knows, AboutKnown
<1>3. ASSUME KnownStay PROVE SessionsFit'
  <2> SUFFICES ASSUME NEW s \in Rows PROVE SessionFits(s)'
    BY DEF SessionsFit, Rows
  <2>1. sessions = [t \in Rows |-> sessions[t]] /\ SessionFits(s)
    BY DEF IInv, Shaped, OInv, DocumentsFit
  <2>2. CASE s = r
    <3>1. sessions'[s].tokens = {OrgOf(r)} /\ sessions'[s].org = OrgOf(r)
      BY <1>1, <2>1, <2>2 DEF InsertSession
    <3>2. \A o : o = OrgOf(r) => Known(o)'
      BY <1>2, <1>3, KnownIsOrg
    <3>3. QED
      BY <3>1, <3>2 DEF SessionFits
  <2>3. CASE s # r
    <3>1. sessions'[s] = sessions[s]
      BY <1>1, <2>1, <2>3 DEF InsertSession
    <3>2. QED
      BY <1>3, <2>1, <3>1, KnownIsOrg DEF SessionFits
  <2>4. QED
    BY <2>2, <2>3
<1>4. QED
  BY <1>1, <1>3, FinishesFit

LEMMA TouchFits ==
  ASSUME IInv, OInv, NEW r \in Requests, TouchExpiry(r)
  PROVE  Fits(r)
<1>1. UNCHANGED <<users, orgs, invites, keys, seen>> /\ req[r].at = "touch" /\ Running(r)
  BY DEF TouchExpiry, Running
<1>2. Worded(r) /\ Knows(r) /\ AboutKnown(r) /\ req[r].op \notin Anonymous
  BY <1>1 DEF OInv, Asks, AboutKnown, IInv, Ready, Typed
<1>3. CASE Reads(r, "mint") /\ UNCHANGED sessions
  <2>1. Unwritten
    BY <1>1, <1>3 DEF Unwritten
  <2>2. QED
    BY <1>1, <1>2, <1>3, <2>1, MovesFits DEF Unread
<1>4. CASE /\ Finishes(r)
           /\ sessions' = [sessions EXCEPT ![req[r].sid].org = OrgOf(r),
                                          ![req[r].sid].tokens = @ \cup {OrgOf(r)}]
  <2>1. ASSUME KnownStay PROVE SessionsFit'
    <3> SUFFICES ASSUME NEW s \in Rows PROVE SessionFits(s)'
      BY DEF SessionsFit, Rows
    <3>1. /\ sessions = [t \in Rows |-> sessions[t]] /\ SessionFits(s)
          /\ SessionFields \subseteq DOMAIN sessions[s]
      BY DEF IInv, Shaped, OInv, DocumentsFit
    <3>2. CASE s = req[r].sid
      <4>1. /\ sessions'[s].tokens = sessions[s].tokens \cup {OrgOf(r)}
            /\ sessions'[s].org = OrgOf(r)
        BY <1>4, <3>1, <3>2 DEF SessionFields
      <4>2. \A o : o = OrgOf(r) => Known(o)'
        BY <1>2, <2>1, KnownIsOrg DEF Knows
      <4>3. QED
        BY <2>1, <3>1, <4>1, <4>2, KnownIsOrg DEF SessionFits
    <3>3. CASE s # req[r].sid
      <4>1. sessions'[s] = sessions[s]
        BY <1>4, <3>1, <3>3
      <4>2. QED
        BY <2>1, <3>1, <4>1, KnownIsOrg DEF SessionFits
    <3>4. QED
      BY <3>2, <3>3
  <2>2. QED
    BY <1>1, <1>4, <2>1, FinishesFit
<1>5. QED
  BY <1>3, <1>4 DEF TouchExpiry

LEMMA SessionWritesFit ==
  ASSUME IInv, OInv, NEW r \in Requests, Logout(r) \/ RevokeSessions(r)
  PROVE  Fits(r)
<1>1. UNCHANGED <<users, orgs, invites, keys>>
  BY DEF Logout, RevokeSessions
<1>2. seen'.crossed = seen.crossed
  <2>1. \A f : [seen EXCEPT !.revoked = f].crossed = seen.crossed
    BY DEF IInv, Shaped
  <2>2. CASE RevokeSessions(r)
    <3>1. \E f : seen' = [seen EXCEPT !.revoked = f]
      BY <2>2 DEF RevokeSessions
    <3>2. QED
      BY <2>1, <3>1
  <2>3. CASE Logout(r)
    BY <2>3 DEF Logout
  <2>4. QED
    BY <2>2, <2>3
<1>3. Finishes(r) \/ Overtakes(r)
  BY DEF Logout, RevokeSessions
<1>4. KnownStay => SessionsFit'
  BY DeletedFit DEF Logout, RevokeSessions, DeleteAllForUser
<1>5. QED
  BY <1>1, <1>2, <1>3, <1>4, FinishesFit

LEMMA RevokesInvite ==
  ASSUME IInv, OInv, NEW i, NEW o, RevokePending(i, o), KnownStay
  PROVE  InvitesFit'
<1> SUFFICES ASSUME NEW j \in Invites PROVE InviteFits(j)'
  BY DEF InvitesFit
<1>1. /\ invites = [k \in Invites |-> invites[k]] /\ InviteFits(j)
      /\ {"status", "expired"} \subseteq DOMAIN invites[j]
  BY DEF IInv, Shaped, OInv, DocumentsFit
<1>2. invites'[j] = invites[j] \/ invites'[j] = [invites[j] EXCEPT !.status = "revoked"]
  BY <1>1 DEF RevokePending
<1>3. /\ invites'[j].grants = invites[j].grants
      /\ DOMAIN invites'[j] = DOMAIN invites[j]
      /\ invites'[j] = invites[j] \/ invites'[j].status = "revoked"
  BY <1>1, <1>2 DEF InviteFits
<1>4. QED
  BY <1>1, <1>3, KnownIsOrg DEF InviteFits

LEMMA InviteStepsFit ==
  ASSUME IInv, OInv, NEW r \in Requests,
         CreateInvite(r) \/ RevokeInvite(r) \/ CheckInviter(r) \/ ClaimInvite(r)
  PROVE  Fits(r)
<1>1. UNCHANGED <<users, orgs, sessions, keys, seen>>
  BY DEF CreateInvite, RevokeInvite, CheckInviter, ClaimInvite
<1>2. CASE CreateInvite(r)
  <2>1. CASE Ends(r) /\ UNCHANGED invites
    BY <1>1, <2>1, FinishesFit
  <2>2. CASE /\ Finishes(r)
             /\ invites' = [invites EXCEPT ![req[r].item] =
                  [status |-> "pending", org |-> req[r].tenant, by |-> UserOf(r),
                   email |-> req[r].email, grants |-> req[r].grants, expired |-> FALSE]]
    <3>1. At(r, "createInvite", "run") /\ Running(r)
      BY <1>2 DEF CreateInvite, At, Running
    <3>2. /\ Known(req[r].tenant) /\ req[r].email \in Emails /\ req[r].grants \in Grants
          /\ req[r].item \in Invites
      BY <3>1 DEF OInv, Asks, Worded, Knows, At, Anonymous
    <3>3. ASSUME KnownStay PROVE InvitesFit'
      <4> SUFFICES ASSUME NEW j \in Invites PROVE InviteFits(j)'
        BY DEF InvitesFit
      <4>1. invites = [k \in Invites |-> invites[k]] /\ InviteFits(j)
        BY DEF IInv, Shaped, OInv, DocumentsFit
      <4>2. CASE j = req[r].item
        <5>1. /\ {"status", "org", "email", "grants"} \subseteq DOMAIN invites'[j]
              /\ invites'[j].status = "pending" /\ invites'[j].org = req[r].tenant
              /\ invites'[j].email = req[r].email /\ invites'[j].grants = req[r].grants
          BY <2>2, <4>1, <4>2
        <5>2. \A o : o = req[r].tenant => Known(o)'
          BY <3>2, <3>3, KnownIsOrg
        <5>3. QED
          BY <3>2, <5>1, <5>2 DEF InviteFits
      <4>3. CASE j # req[r].item
        <5>1. invites'[j] = invites[j]
          BY <2>2, <4>1, <4>3
        <5>2. QED
          BY <3>3, <4>1, <5>1, KnownIsOrg DEF InviteFits
      <4>4. QED
        BY <4>2, <4>3
    <3>4. QED
      BY <1>1, <2>2, <3>3, FinishesFit
  <2>3. QED
    BY <1>2, <2>1, <2>2 DEF CreateInvite
<1>3. CASE RevokeInvite(r)
  BY <1>1, <1>3, RevokesInvite, FinishesFit DEF RevokeInvite
<1>4. CASE CheckInviter(r)
  <2>1. CASE RevokePending(req[r].item, OrgOf(r)) /\ Finishes(r)
    BY <1>1, <2>1, RevokesInvite, FinishesFit
  <2>2. CASE Reads(r, "account") /\ UNCHANGED invites
    <3>1. /\ Unwritten /\ Running(r) /\ req[r].at = "inviter" /\ req[r].op = "acceptInvite"
      BY <1>1, <1>4, <2>2 DEF Unwritten, CheckInviter, At, Running
    <3>2. Others(r) /\ req'[r] = [req[r] EXCEPT !.at = "account"]
      BY <2>2, GoesKeeps DEF Reads
    <3>3. /\ req'[r].at = "account" /\ \A f \in RequestFields \ {"at"} : req'[r][f] = req[r][f]
      BY <3>1, <3>2, AtStep
    <3>4. /\ \A f \in Carried : req'[r][f] = req[r][f]
      BY <3>3 DEF RequestFields, Carried
    <3>5. AboutKnown(r)
      BY <3>1 DEF AboutKnown
    <3>6. KnownStay /\ MembersStay => Asks(r)'
      BY <3>1, <3>3, <3>4, <3>5, Advance DEF Unread, At
    <3>7. QED
      BY <3>1, <3>2, <3>3, <3>6, ReadingFits DEF At
  <2>3. QED
    BY <1>4, <2>1, <2>2 DEF CheckInviter
<1>5. CASE ClaimInvite(r)
  <2>1. CASE Ends(r) /\ UNCHANGED invites
    BY <1>1, <2>1, FinishesFit
  <2>2. CASE Writes(r, "grant") /\ invites' = [invites EXCEPT ![req[r].item].status = "accepted"]
    <3>1. Running(r) /\ req[r].at = "claim" /\ req[r].op = "acceptInvite" /\ AboutKnown(r)
      BY <1>5 DEF ClaimInvite, At, Running, AboutKnown
    <3>2. ASSUME KnownStay PROVE InvitesFit'
      <4> SUFFICES ASSUME NEW j \in Invites PROVE InviteFits(j)'
        BY DEF InvitesFit
      <4>1. /\ invites = [k \in Invites |-> invites[k]] /\ InviteFits(j)
            /\ {"status", "expired"} \subseteq DOMAIN invites[j]
        BY DEF IInv, Shaped, OInv, DocumentsFit
      <4>2. invites'[j] = invites[j] \/ invites'[j] = [invites[j] EXCEPT !.status = "accepted"]
        BY <2>2, <4>1
      <4>3. /\ invites'[j].grants = invites[j].grants
            /\ DOMAIN invites'[j] = DOMAIN invites[j]
            /\ invites'[j] = invites[j] \/ invites'[j].status = "accepted"
        BY <4>1, <4>2 DEF InviteFits
      <4>4. QED
        BY <3>2, <4>1, <4>3, KnownIsOrg DEF InviteFits
    <3>3. QED
      BY <1>1, <2>2, <3>1, <3>2, WritesFit DEF Unread
  <2>3. QED
    BY <1>5, <2>1, <2>2 DEF ClaimInvite, ClaimPending
<1>6. QED
  BY <1>2, <1>3, <1>4, <1>5

-----------------------------------------------------------------------------
(* Steps that write one user.                                              *)
LEMMA OneUserFits ==
  ASSUME OInv, KnownStay, NEW u, \A v \in Users : v # u => users'[v] = users[v],
         u \in Users => UserFits(u)'
  PROVE  UsersFit'
<1> SUFFICES ASSUME NEW v \in Users, v # u PROVE UserFits(v)'
  BY DEF UsersFit
<1>1. UserFits(v) /\ users'[v] = users[v]
  BY DEF OInv, DocumentsFit
<1>2. \A o : Known(o) => Known(o)'
  BY KnownIsOrg
<1>3. QED
  BY <1>1, <1>2 DEF UserFits, KnownStay, Present, Belongs

LEMMA OneUserStays ==
  ASSUME NEW u, \A v \in Users : v # u => users'[v] = users[v],
         \A o : Belongs(users[u].memberships, o) => Belongs(users'[u].memberships, o)
  PROVE  MembersStay
  BY DEF MembersStay

(* A user whose memberships stay, and whose next organization is one.      *)
LEMMA UserStillFits ==
  ASSUME IInv, OInv, KnownStay, NEW u \in Users, NEW doc, users'[u] = doc,
         doc.status = users[u].status, doc.email \in Emails \cup {NoEmail},
         doc.memberships = users[u].memberships,
         \/ doc.active = users[u].active
         \/ Known(doc.active) /\ Remains(u, doc.active)
  PROVE  UserFits(u)'
<1>1. UserFits(u)
  BY DEF OInv, DocumentsFit
<1>2. \A o : Known(o) => Known(o)' /\ o \in Orgs
  BY KnownIsOrg DEF Known
<1>3. seen.crossed => seen'.crossed
  BY DEF KnownStay
<1>4. /\ users'[u].status \in {"none", "active"} /\ users'[u].email \in Emails \cup {NoEmail}
      /\ users'[u].memberships \in Seq(Membership)
      /\ \A n \in DOMAIN users'[u].memberships : Known(users[u].memberships[n].org)
      /\ ~Present(u)' => users'[u].memberships = <<>>
  BY <1>1 DEF UserFits, Present
<1>5. CASE doc.active = users[u].active
  BY <1>1, <1>2, <1>3, <1>4, <1>5 DEF UserFits, Present
<1>6. CASE Known(doc.active) /\ Remains(u, doc.active)
  BY <1>1, <1>2, <1>3, <1>4, <1>6 DEF UserFits, Present, Remains
<1>7. QED
  BY <1>5, <1>6

LEMMA UpdatesMeFits ==
  ASSUME IInv, OInv, NEW r \in Requests, UpdatesMe(r)
  PROVE  Fits(r)
<1>1. UNCHANGED <<orgs, invites, keys, seen>>
  BY DEF UpdatesMe
<1>2. Running(r) /\ req[r].op = "updateMe"
  BY DEF UpdatesMe, UpdateMe, At, Running
<1>3. CASE Ends(r) /\ UNCHANGED <<users, sessions>>
  BY <1>1, <1>3, FinishesFit
<1>4. CASE Reads(r, "others") /\ UNCHANGED <<users, sessions>>
  <2>1. Unwritten
    BY <1>1, <1>4 DEF Unwritten
  <2>2. QED
    BY <1>2, <1>4, <2>1, MovesFits DEF Unread
<1>5. ASSUME NEW gone, DeleteSessions(gone), Writes(r, "email"), UNCHANGED users
      PROVE  Fits(r)
  <2>1. KnownStay => SessionsFit'
    BY <1>5, DeletedFit
  <2>2. QED
    BY <1>1, <1>2, <1>5, <2>1, WritesFit DEF Unread
<1>6. CASE UpdateEmail(UserOf(r), req[r].email) /\ Finishes(r) /\ UNCHANGED sessions
  <2>1. req[r].email \in Emails
    BY <1>2 DEF OInv, Asks, Worded
  <2>2. \/ UNCHANGED users
        \/ users' = [users EXCEPT ![UserOf(r)].email = req[r].email]
    BY <1>6 DEF UpdateEmail
  <2>3. CASE UNCHANGED users
    BY <1>1, <1>6, <2>3, FinishesFit
  <2>4. CASE users' = [users EXCEPT ![UserOf(r)].email = req[r].email]
    <3> DEFINE u == UserOf(r)
    <3>1. /\ users = [v \in Users |-> users[v]]
          /\ \A v \in Users : UserFields \subseteq DOMAIN users[v]
      BY DEF IInv, Shaped
    <3>2. \A v \in Users : v # u => users'[v] = users[v]
      BY <2>4, <3>1
    <3>3. u \in Users => users'[u] = [users[u] EXCEPT !.email = req[r].email]
      BY <2>4, <3>1
    <3>4. u \notin Users => users' = users
      BY <2>4, <3>1
    <3>5. u \in Users => /\ users'[u].status = users[u].status
                         /\ users'[u].email = req[r].email
                         /\ users'[u].memberships = users[u].memberships
                         /\ users'[u].active = users[u].active
      BY <3>1, <3>3 DEF UserFields
    <3> HIDE DEF u
    <3>6. MembersStay
      BY <3>2, <3>5 DEF MembersStay
    <3>7. KnownStay => UsersFit'
      BY <2>1, <3>2, <3>5, UserStillFits, OneUserFits
    <3>8. Others(r) /\ req'[r] = Done
      BY <1>6, WroteKeeps DEF Finishes
    <3>9. QED
      BY <1>1, <1>6, <3>6, <3>7, <3>8, DoneAsks, WritingFits
  <2>5. QED
    BY <2>2, <2>3, <2>4
<1>7. QED
  BY <1>3, <1>4, <1>5, <1>6 DEF UpdatesMe, UpdateMe

LEMMA NewHashFits ==
  ASSUME IInv, OInv, NEW r \in Requests, NewHash(r)
  PROVE  Fits(r)
<1> DEFINE u == UserOf(r)
<1>1. /\ UNCHANGED <<orgs, sessions, invites, keys, seen>> /\ Writes(r, "revoke")
      /\ users' = [users EXCEPT ![u].hash = @ + 1]
      /\ Running(r) /\ req[r].op = "changePassword" /\ req[r].at = "run"
  BY DEF NewHash, At, Running
<1>2. u \in Users
  BY <1>1 DEF IInv, Ready, Current, HasRead, Anonymous
<1>3. /\ users = [v \in Users |-> users[v]]
      /\ \A v \in Users : UserFields \subseteq DOMAIN users[v]
  BY DEF IInv, Shaped
<1>4. \A v \in Users : v # u => users'[v] = users[v]
  BY <1>1, <1>3
<1>5. users'[u] = [users[u] EXCEPT !.hash = @ + 1]
  BY <1>1, <1>2, <1>3
<1>6. /\ users'[u].status = users[u].status /\ users'[u].email = users[u].email
      /\ users'[u].memberships = users[u].memberships /\ users'[u].active = users[u].active
  BY <1>2, <1>3, <1>5 DEF UserFields
<1> HIDE DEF u
<1>7. users[u].email \in Emails \cup {NoEmail}
  BY <1>2 DEF OInv, DocumentsFit, UserFits
<1>8. KnownStay => UsersFit'
  BY <1>2, <1>4, <1>6, <1>7, UserStillFits, OneUserFits
<1>9. MembersStay
  BY <1>4, <1>6, OneUserStays
<1>10. Others(r) /\ req'[r] = [req[r] EXCEPT !.at = "revoke"]
  BY <1>1, WroteKeeps DEF Writes
<1>11. KnownStay => Asks(r)'
  BY <1>1, <1>9, <1>10, AtAsks DEF Unread
<1>12. ~At(r, "signup", "admin")'
  BY <1>1, <1>10, AtStep DEF At
<1>13. QED
  BY <1>1, <1>8, <1>9, <1>10, <1>11, <1>12, WritingFits

(* The organization that a user is pointed at is one of theirs.            *)
LEMMA PointsAtMembership ==
  ASSUME IInv, OInv, KnownStay, NEW u \in Users, NEW o, SetActiveOrganization(u, o),
         Known(o), Remains(u, o)
  PROVE  UsersFit'
<1>1. /\ users = [v \in Users |-> users[v]]
      /\ \A v \in Users : UserFields \subseteq DOMAIN users[v]
  BY DEF IInv, Shaped
<1>2. \A v \in Users : v # u => users'[v] = users[v]
  BY <1>1 DEF SetActiveOrganization
<1>3. users'[u] = [users[u] EXCEPT !.active = IF Present(u) THEN o ELSE users[u].active]
  BY <1>1 DEF SetActiveOrganization
<1>4. /\ users'[u].status = users[u].status /\ users'[u].email = users[u].email
      /\ users'[u].memberships = users[u].memberships
      /\ users'[u].active = o \/ users'[u].active = users[u].active
  BY <1>1, <1>3 DEF UserFields
<1>5. users[u].email \in Emails \cup {NoEmail}
  BY DEF OInv, DocumentsFit, UserFits
<1>6. UserFits(u)'
  BY <1>4, <1>5, UserStillFits
<1>7. QED
  BY <1>2, <1>6, OneUserFits

LEMMA SetActiveStays ==
  ASSUME IInv, NEW u, NEW o, SetActiveOrganization(u, o)
  PROVE  MembersStay
<1>1. /\ users = [v \in Users |-> users[v]]
      /\ \A v \in Users : UserFields \subseteq DOMAIN users[v]
  BY DEF IInv, Shaped
<1>2. \A v \in Users : \/ users'[v] = users[v]
                       \/ \E a : users'[v] = [users[v] EXCEPT !.active = a]
  BY <1>1 DEF SetActiveOrganization
<1>3. \A v \in Users : users'[v].memberships = users[v].memberships
  BY <1>1, <1>2 DEF UserFields
<1>4. QED
  BY <1>3 DEF MembersStay

LEMMA ActiveFits ==
  ASSUME IInv, OInv, NEW r \in Requests, req[r].at = "active",
         SetActiveOrganization(UserOf(r), OrgOf(r)), NEW step \in {"touch", "mint"},
         Writes(r, step), UNCHANGED <<orgs, sessions, invites, keys, seen>>
  PROVE  Fits(r)
<1>1. Running(r) /\ AboutKnown(r)
  BY DEF Running, AboutKnown
<1>2. Knows(r) /\ Belonging(r) /\ Worded(r)
  BY <1>1 DEF OInv, Asks
<1>3. /\ Belongs(req[r].memberships, OrgOf(r)) /\ req[r].op \in {"switchOrg", "acceptInvite"}
      /\ Known(OrgOf(r))
  BY <1>1, <1>2 DEF Belonging, Knows
<1>4. Remains(UserOf(r), OrgOf(r))
  BY <1>2, <1>3 DEF Belonging, Belongs
<1>5. UserOf(r) \in Users
  BY <1>4 DEF Remains
<1>6. KnownStay => UsersFit'
  BY <1>3, <1>4, <1>5, PointsAtMembership
<1>7. MembersStay
  BY SetActiveStays
<1>8. Others(r) /\ req'[r] = [req[r] EXCEPT !.at = step]
  BY WroteKeeps DEF Writes
<1>9. KnownStay => Asks(r)'
  BY <1>1, <1>7, <1>8, AtAsks DEF Unread
<1>10. ~At(r, "signup", "admin")'
  BY <1>1, <1>8, AtStep DEF At
<1>11. QED
  BY <1>6, <1>7, <1>8, <1>9, <1>10, WritingFits

LEMMA SwitchFits ==
  ASSUME IInv, OInv, NEW r \in Requests, SwitchesOrg(r)
  PROVE  Fits(r)
<1>1. UNCHANGED <<orgs, sessions, invites, keys, seen>>
  BY DEF SwitchesOrg
<1>2. CASE Ends(r) /\ UNCHANGED users
  BY <1>1, <1>2, FinishesFit
<1>3. CASE /\ At(r, "switchOrg", "run") /\ Belongs(req[r].memberships, OrgOf(r))
           /\ Reads(r, "active") /\ UNCHANGED users
  <2>1. Unwritten
    BY <1>1, <1>3 DEF Unwritten
  <2>2. Running(r) /\ req[r].op = "switchOrg"
    BY <1>3 DEF At, Running
  <2>3. Known(OrgOf(r))
    BY <1>3, <2>2 DEF OInv, Asks, Knows, Belongs
  <2>4. QED
    BY <1>3, <2>1, <2>2, <2>3, MovesFits DEF Unread
<1>4. CASE /\ At(r, "switchOrg", "active") /\ Writes(r, "touch")
           /\ SetActiveOrganization(UserOf(r), OrgOf(r))
  BY <1>1, <1>4, ActiveFits DEF At
<1>5. QED
  BY <1>2, <1>3, <1>4 DEF SwitchesOrg, SwitchOrg

LEMMA GrantActiveFits ==
  ASSUME IInv, OInv, NEW r \in Requests, GrantActive(r)
  PROVE  Fits(r)
<1>1. UNCHANGED <<orgs, sessions, invites, keys, seen>>
  BY DEF GrantActive
<1>2. QED
  BY <1>1, ActiveFits DEF GrantActive, At

(* A membership more, or other grants of one.                              *)
LEMMA AppendBelongs ==
  ASSUME NEW ms \in Seq(Membership), NEW m \in Membership
  PROVE  /\ Append(ms, m) \in Seq(Membership)
         /\ \A n \in DOMAIN Append(ms, m) :
               Append(ms, m)[n] = m \/ \E k \in DOMAIN ms : Append(ms, m)[n] = ms[k]
         /\ Belongs(Append(ms, m), m.org)
         /\ \A o : Belongs(ms, o) => Belongs(Append(ms, m), o)
<1> DEFINE longer == Append(ms, m)
<1>1. /\ longer \in Seq(Membership) /\ Len(longer) = Len(ms) + 1
      /\ \A i \in 1 .. Len(ms) : longer[i] = ms[i]
      /\ longer[Len(ms) + 1] = m
  BY AppendProperties
<1>2. DOMAIN ms = 1 .. Len(ms) /\ DOMAIN longer = 1 .. Len(longer) /\ Len(ms) \in Nat
  BY <1>1, LenProperties
<1> HIDE DEF longer
<1>3. DOMAIN longer = 1 .. (Len(ms) + 1)
  BY <1>1, <1>2
<1>4. \A n \in DOMAIN longer : n \in DOMAIN ms \/ n = Len(ms) + 1
  BY <1>2, <1>3
<1>5. Len(ms) + 1 \in DOMAIN longer /\ \A n \in DOMAIN ms : n \in DOMAIN longer
  BY <1>2, <1>3
<1>6. Belongs(longer, m.org)
  BY <1>1, <1>5 DEF Belongs
<1>7. \A o : Belongs(ms, o) => Belongs(longer, o)
  BY <1>1, <1>2, <1>5 DEF Belongs
<1>8. QED
  BY <1>1, <1>2, <1>4, <1>6, <1>7 DEF longer

LEMMA Regranted ==
  ASSUME NEW ms \in Seq(Membership), NEW n, NEW g \in Grants, NEW changed,
         changed = [ms EXCEPT ![n].grants = g]
  PROVE  /\ changed \in Seq(Membership) /\ DOMAIN changed = DOMAIN ms
         /\ \A k \in DOMAIN ms : changed[k].org = ms[k].org
<1>1. ms \in [1 .. Len(ms) -> Membership] /\ Len(ms) \in Nat
  BY LenProperties, SeqDef
<1>2. ASSUME NEW k \in 1 .. Len(ms)
      PROVE  changed[k] \in Membership /\ changed[k].org = ms[k].org
  <2>1. ms[k] \in Membership
    BY <1>1
  <2>2. changed[k] = ms[k] \/ changed[k] = [ms[k] EXCEPT !.grants = g]
    BY <1>1
  <2>3. QED
    BY <2>1, <2>2 DEF Membership
<1>3. DOMAIN changed = DOMAIN ms /\ changed = [k \in 1 .. Len(ms) |-> changed[k]]
  BY <1>1
<1>4. changed \in [1 .. Len(ms) -> Membership]
  BY <1>2, <1>3
<1>5. QED
  BY <1>1, <1>2, <1>3, <1>4, SeqDef

LEMMA AddsFit ==
  ASSUME IInv, OInv, NEW u \in Users, Present(u), NEW o \in Orgs, NEW g \in Grants,
         AddMembership(u, o, g)
  PROVE  MembersStay /\ (KnownStay /\ (\A p : p = o => Known(p)') => UsersFit')
<1> DEFINE ms == users[u].memberships
           m == [org |-> o, grants |-> g]
<1>1. /\ users = [v \in Users |-> users[v]]
      /\ \A v \in Users : UserFields \subseteq DOMAIN users[v]
  BY DEF IInv, Shaped
<1>2. UserFits(u)
  BY DEF OInv, DocumentsFit
<1>3. ms \in Seq(Membership) /\ m \in Membership /\ m.org = o
  BY <1>2 DEF UserFits, Membership
<1>4. \A v \in Users : v # u => users'[v] = users[v]
  BY <1>1 DEF AddMembership
<1>5. /\ users'[u].status = users[u].status /\ users'[u].email = users[u].email
      /\ users'[u].memberships = Append(ms, m) /\ users'[u].active = o
  BY <1>1 DEF AddMembership, UserFields
<1>6. /\ Append(ms, m) \in Seq(Membership)
      /\ \A n \in DOMAIN Append(ms, m) :
            Append(ms, m)[n] = m \/ \E k \in DOMAIN ms : Append(ms, m)[n] = ms[k]
      /\ Belongs(Append(ms, m), o)
      /\ \A p : Belongs(ms, p) => Belongs(Append(ms, m), p)
  BY <1>3, AppendBelongs
<1>7. \A n \in DOMAIN Append(ms, m) :
        Append(ms, m)[n].org = o \/ \E k \in DOMAIN ms : Append(ms, m)[n].org = ms[k].org
  BY <1>3, <1>6
<1> HIDE DEF m
<1>8. MembersStay
  BY <1>4, <1>5, <1>6, OneUserStays
<1>9. ASSUME KnownStay, \A p : p = o => Known(p)' PROVE UsersFit'
  <2>1. \A p : Known(p) => Known(p)'
    BY <1>9, KnownIsOrg
  <2>2. \A k \in DOMAIN ms : Known(ms[k].org)
    BY <1>2 DEF UserFits
  <2>3. \A n \in DOMAIN users'[u].memberships :
          \A p : p = users'[u].memberships[n].org => Known(p)'
    BY <1>5, <1>7, <1>9, <2>1, <2>2
  <2>4. UserFits(u)'
    BY <1>2, <1>5, <1>6, <1>9, <2>3 DEF UserFits, Present
  <2>5. QED
    BY <1>4, <1>9, <2>4, OneUserFits
<1>10. QED
  BY <1>8, <1>9

LEMMA UpdatesMembership ==
  ASSUME IInv, OInv, NEW u \in Users, NEW o, NEW g \in Grants, UpdateMembership(u, o, g)
  PROVE  MembersStay /\ (KnownStay => UsersFit')
<1> DEFINE ms == users[u].memberships
<1>1. /\ users = [v \in Users |-> users[v]]
      /\ \A v \in Users : UserFields \subseteq DOMAIN users[v]
  BY DEF IInv, Shaped
<1>2. UserFits(u)
  BY DEF OInv, DocumentsFit
<1>3. PICK now : /\ users' = [users EXCEPT ![u].memberships = now]
                 /\ now = ms \/ now = [ms EXCEPT ![Find(ms, o)].grants = g]
  BY DEF UpdateMembership
<1>4. /\ now \in Seq(Membership) /\ DOMAIN now = DOMAIN ms
      /\ \A k \in DOMAIN ms : now[k].org = ms[k].org
  BY <1>2, <1>3, Regranted DEF UserFits
<1>5. \A v \in Users : v # u => users'[v] = users[v]
  BY <1>1, <1>3
<1>6. /\ users'[u].status = users[u].status /\ users'[u].email = users[u].email
      /\ users'[u].memberships = now /\ users'[u].active = users[u].active
  BY <1>1, <1>3 DEF UserFields
<1>7. \A p : Belongs(ms, p) <=> Belongs(now, p)
  BY <1>4 DEF Belongs
<1>8. MembersStay
  BY <1>5, <1>6, <1>7, OneUserStays
<1>9. ASSUME KnownStay PROVE UsersFit'
  <2>1. \A p : Known(p) => Known(p)'
    BY <1>9, KnownIsOrg
  <2>2. \A n \in DOMAIN now : \A p : p = now[n].org => Known(p)'
    BY <1>2, <1>4, <2>1 DEF UserFits
  <2>3. now = <<>> <=> ms = <<>>
    <3>1. now = <<>> <=> DOMAIN now = {}
      BY <1>4, EmptySeq, LenProperties
    <3>2. ms = <<>> <=> DOMAIN ms = {}
      BY <1>2, EmptySeq, LenProperties DEF UserFits
    <3>3. QED
      BY <1>4, <3>1, <3>2
  <2>4. UserFits(u)'
    BY <1>2, <1>4, <1>6, <1>7, <1>9, <2>1, <2>2, <2>3 DEF UserFits, Present, KnownStay
  <2>5. QED
    BY <1>5, <1>9, <2>4, OneUserFits
<1>10. QED
  BY <1>8, <1>9

(* A new user, of one organization.                                        *)
LEMMA NewUserFits ==
  ASSUME IInv, OInv, NEW u \in Users, ~Present(u), NEW o \in Orgs, NEW g \in Grants,
         NEW e \in Emails, NEW h,
         users' = [users EXCEPT ![u] =
            [status |-> "active", email |-> e, hash |-> h,
             memberships |-> <<[org |-> o, grants |-> g]>>, active |-> o]]
  PROVE  MembersStay /\ (KnownStay /\ (\A p : p = o => Known(p)') => UsersFit')
<1> DEFINE m == [org |-> o, grants |-> g]
<1>1. users = [v \in Users |-> users[v]]
  BY DEF IInv, Shaped
<1>2. users[u].memberships = <<>>
  BY DEF OInv, DocumentsFit, UserFits
<1>3. \A v \in Users : v # u => users'[v] = users[v]
  BY <1>1
<1>4. /\ users'[u].status = "active" /\ users'[u].email = e
      /\ users'[u].memberships = <<m>> /\ users'[u].active = o
  BY <1>1
<1>5. m \in Membership /\ m.org = o
  BY DEF Membership
<1> HIDE DEF m
<1>6. <<m>> \in Seq(Membership) /\ DOMAIN <<m>> = {1} /\ <<m>>[1] = m
  BY <1>5
<1>7. Belongs(<<m>>, o)
  BY <1>5, <1>6 DEF Belongs
<1>8. MembersStay
  <2>1. \A p : ~Belongs(users[u].memberships, p)
    BY <1>2 DEF Belongs
  <2>2. QED
    BY <1>3, <2>1, OneUserStays
<1>9. ASSUME KnownStay, \A p : p = o => Known(p)' PROVE UsersFit'
  <2>1. \A n \in DOMAIN users'[u].memberships :
          \A p : p = users'[u].memberships[n].org => Known(p)'
    BY <1>4, <1>5, <1>6, <1>9
  <2>2. UserFits(u)'
    BY <1>4, <1>6, <1>7, <1>9, <2>1 DEF UserFits, Present
  <2>3. QED
    BY <1>3, <1>9, <2>2, OneUserFits
<1>10. QED
  BY <1>8, <1>9

LEMMA GrantFits ==
  ASSUME IInv, OInv, NEW r \in Requests, Grant(r)
  PROVE  Fits(r)
<1> DEFINE u == UserOf(r)
           o == OrgOf(r)
           g == req[r].grants
<1>1. UNCHANGED <<orgs, sessions, invites, keys>>
  BY DEF Grant
<1>2. /\ Running(r) /\ req[r].op = "acceptInvite" /\ req[r].at = "grant" /\ AboutKnown(r)
  BY DEF Grant, At, Running, AboutKnown
<1>3. Worded(r) /\ Knows(r) /\ Typed(r) /\ Current(r)
  BY <1>2 DEF OInv, Asks, IInv, Ready
<1>4. /\ u \in Users /\ o \in Orgs /\ Known(o) /\ g \in Grants /\ req[r].email \in Emails
  BY <1>2, <1>3 DEF Worded, Knows, Known, Typed
<1>5. seen'.crossed = seen.crossed
  <2>1. \A f : [seen EXCEPT !.granted = f].crossed = seen.crossed
    BY DEF IInv, Shaped
  <2>2. UNCHANGED seen \/ \E f : seen' = [seen EXCEPT !.granted = f]
    BY DEF Grant
  <2>3. QED
    BY <2>1, <2>2
<1>6. ASSUME NEW step \in {"active", "mint"}, Writes(r, step), MembersStay,
             step = "active" => Belongs(req[r].memberships, o),
             KnownStay /\ (\A p : p = o => Known(p)') => UsersFit'
      PROVE  Fits(r)
  <2>1. Others(r) /\ req'[r] = [req[r] EXCEPT !.at = step]
    BY <1>6, WroteKeeps DEF Writes
  <2>2. KnownStay => Asks(r)' /\ UsersFit'
    BY <1>2, <1>4, <1>6, <2>1, AtAsks, KnownIsOrg DEF Unread
  <2>3. ~At(r, "signup", "admin")'
    BY <1>2, <1>6, <2>1, AtStep DEF At
  <2>4. QED
    BY <1>1, <1>5, <1>6, <2>1, <2>2, <2>3, WritingFits
<1>7. CASE Ends(r) /\ UNCHANGED users
  BY <1>1, <1>5, <1>7, FinishesFit
<1>8. CASE /\ ~Present(u) /\ Writes(r, "mint")
           /\ users' = [users EXCEPT ![u] =
                [status |-> "active", email |-> req[r].email, hash |-> 0,
                 memberships |-> <<[org |-> o, grants |-> g]>>, active |-> o]]
  <2>1. MembersStay /\ (KnownStay /\ (\A p : p = o => Known(p)') => UsersFit')
    BY <1>4, <1>8, NewUserFits
  <2>2. QED
    BY <1>6, <1>8, <2>1
<1>9. CASE req[r].status # "new"
  <2>1. Present(u)
    BY <1>2, <1>3, <1>9 DEF Current, HasRead
  <2>2. CASE Belongs(req[r].memberships, o) /\ UpdateMembership(u, o, g) /\ Writes(r, "active")
    <3>1. MembersStay /\ (KnownStay => UsersFit')
      BY <1>4, <2>2, UpdatesMembership
    <3>2. QED
      BY <1>6, <2>2, <3>1
  <2>3. CASE AddMembership(u, o, g) /\ Writes(r, "mint")
    <3>1. MembersStay /\ (KnownStay /\ (\A p : p = o => Known(p)') => UsersFit')
      BY <1>4, <2>1, <2>3, AddsFit
    <3>2. QED
      BY <1>6, <2>3, <3>1
  <2>4. QED
    BY <1>9, <2>2, <2>3 DEF Grant
<1>10. CASE req[r].status = "new"
  BY <1>7, <1>8, <1>10 DEF Grant
<1>11. QED
  BY <1>9, <1>10

-----------------------------------------------------------------------------
(* Steps that write an organization.                                       *)
(* A new one is known when no sign-up is about to undo it.                 *)
LEMMA InsertedOrg ==
  ASSUME IInv, OInv, NEW o \in Orgs, orgs[o].status = "none", NEW u \in Users, InsertOrg(o, u)
  PROVE  /\ orgs'[o].status = "present" /\ OrgsFit'
         /\ \A p \in Orgs : /\ orgs[p].status # "none" => orgs'[p].status # "none"
                            /\ Exists(p) => Exists(p)'
<1>1. orgs = [p \in Orgs |-> orgs[p]] /\ \A p \in Orgs : OrgFits(p)
  BY DEF OInv, DocumentsFit
<1>2. /\ orgs' = [p \in Orgs |-> orgs'[p]]
      /\ \A p \in Orgs : orgs'[p] = IF p = o
                                    THEN [status |-> "present", owner |-> u, data |-> FALSE]
                                    ELSE orgs[p]
  BY <1>1 DEF InsertOrg
<1>3. /\ orgs'[o].status = "present" /\ OrgFits(o)'
      /\ \A p \in Orgs : p # o => orgs'[p] = orgs[p]
  <2>1. orgs'[o] = [status |-> "present", owner |-> u, data |-> FALSE]
    BY <1>2
  <2>2. orgs'[o].status = "present" /\ OrgFits(o)'
    BY <2>1 DEF OrgFits
  <2>3. QED
    BY <1>2, <2>2
<1>4. ASSUME NEW p \in Orgs
      PROVE  OrgFits(p)' /\ (orgs[p].status # "none" => orgs'[p].status # "none")
                         /\ (orgs[p].status = "present" => orgs'[p].status = "present")
  BY <1>1, <1>3 DEF OrgFits
<1>5. QED
  BY <1>2, <1>3, <1>4 DEF OrgsFit, Exists

LEMMA ChangedOrg ==
  ASSUME IInv, OInv, NEW o \in Orgs, orgs[o].status # "none",
         \/ orgs' = [orgs EXCEPT ![o].status = "deleted"]
         \/ orgs' = [orgs EXCEPT ![o].data = TRUE]
  PROVE  /\ OrgsFit'
         /\ \A p \in Orgs : /\ orgs[p].status # "none" => orgs'[p].status # "none"
                            /\ p # o \/ orgs' = [orgs EXCEPT ![o].data = TRUE]
                               => (Exists(p) => Exists(p)')
<1>1. orgs = [p \in Orgs |-> orgs[p]] /\ \A p \in Orgs : OrgFits(p)
  BY DEF OInv, DocumentsFit
<1>2. /\ orgs' = [p \in Orgs |-> orgs'[p]]
      /\ \A p \in Orgs : \/ orgs'[p] = orgs[p]
                         \/ p = o /\ orgs'[p] = [orgs[p] EXCEPT !.status = "deleted"]
                         \/ p = o /\ orgs'[p] = [orgs[p] EXCEPT !.data = TRUE]
  BY <1>1
<1>3. ASSUME NEW p \in Orgs
      PROVE  OrgFits(p)' /\ (orgs[p].status # "none" => orgs'[p].status # "none")
  <2>1. OrgFits(p)
    BY <1>1
  <2>2. CASE orgs'[p] = orgs[p]
    BY <2>1, <2>2 DEF OrgFits
  <2>3. CASE orgs'[p] = [orgs[p] EXCEPT !.status = "deleted"]
    BY <2>1, <2>3 DEF OrgFits
  <2>4. CASE orgs'[p] = [orgs[p] EXCEPT !.data = TRUE]
    BY <2>1, <2>4 DEF OrgFits
  <2>5. QED
    BY <1>2, <2>2, <2>3, <2>4
<1>4. ASSUME NEW p \in Orgs, p # o
      PROVE  orgs'[p] = orgs[p]
  BY <1>2, <1>4
<1>5. ASSUME orgs' = [orgs EXCEPT ![o].data = TRUE]
      PROVE  orgs'[o].status = orgs[o].status
  <2>1. orgs'[o] = [orgs[o] EXCEPT !.data = TRUE]
    BY <1>1, <1>5
  <2>2. QED
    BY <1>1, <2>1 DEF OrgFits
<1>6. QED
  BY <1>2, <1>3, <1>4, <1>5 DEF OrgsFit, Exists

LEMMA CreatesOrgFits ==
  ASSUME IInv, OInv, NEW r \in Requests, CreatesOrg(r)
  PROVE  Fits(r)
<1> DEFINE u == UserOf(r)
           o == OrgOf(r)
<1>1. UNCHANGED <<sessions, invites, keys, seen>>
  BY DEF CreatesOrg
<1>2. Running(r) /\ req[r].op = "createOrg" /\ req[r].at \in {"run", "member"}
  BY DEF CreatesOrg, CreateOrg, At, Running
<1>3. Worded(r) /\ Knows(r) /\ Typed(r) /\ Current(r)
  BY <1>2 DEF OInv, Asks, IInv, Ready
<1>4. u \in Users /\ Present(u) /\ o \in Orgs
  BY <1>2, <1>3 DEF Current, HasRead, Anonymous, Worded
<1>5. CASE /\ orgs[o].status = "none" /\ InsertOrg(o, u) /\ Writes(r, "member")
           /\ UNCHANGED users
  <2>1. Others(r) /\ req'[r] = [req[r] EXCEPT !.at = "member"]
    BY <1>5, WroteKeeps DEF Writes
  <2>2. /\ req'[r].at = "member"
        /\ \A f \in RequestFields \ {"at"} : req'[r][f] = req[r][f]
    BY <1>2, <2>1, AtStep
  <2>3. req'[r].org = req[r].org /\ ~At(r, "signup", "admin")'
    BY <2>2 DEF RequestFields, At
  <2>4. /\ orgs'[o].status = "present" /\ OrgsFit'
        /\ \A p \in Orgs : /\ orgs[p].status # "none" => orgs'[p].status # "none"
                           /\ Exists(p) => Exists(p)'
    BY <1>4, <1>5, InsertedOrg
  <2>5. KnownStay /\ OpensOne'
    BY <1>1, <2>1, <2>3, <2>4, KnownGrows
  <2>6. \A q \in Requests : \A p : p = o => ~Opens(q, p)'
    <3>1. \A q \in Requests : ~Opens(q, o)
      BY <1>5 DEF OInv, OpensOne, Opens
    <3>2. \A p : ~Opens(r, p)'
      BY <2>3 DEF Opens
    <3>3. QED
      BY <2>1, <3>1, <3>2, OpensKept
  <2>7. \A p : p = req'[r].org => Known(p)'
    BY <1>4, <2>3, <2>4, <2>6 DEF Known, OrgOf
  <2>8. Known(OrgOf(r))'
    BY <2>7 DEF OrgOf
  <2>9. MembersStay /\ Uncrossed(r)
    BY <1>5, UsersUncrossed
  <2>10. Asks(r)'
    BY <1>2, <2>1, <2>5, <2>8, <2>9, AtAsks DEF Unread
  <2>11. ExistsStay(r)
    BY <2>4 DEF ExistsStay
  <2>12. QED
    BY <1>1, <1>5, <2>1, <2>4, <2>5, <2>9, <2>10, <2>11, FitsTogether
<1>6. CASE /\ req[r].at = "member" /\ AddMembership(u, o, Admin) /\ Writes(r, "touch")
           /\ UNCHANGED orgs
  <2>1. AboutKnown(r) /\ Known(o)
    BY <1>3, <1>6 DEF AboutKnown, Knows
  <2>2. Admin \in Grants
    BY DEF Admin, Grants
  <2>3. MembersStay /\ (KnownStay /\ (\A p : p = o => Known(p)') => UsersFit')
    BY <1>4, <1>6, <2>2, AddsFit
  <2>4. Others(r) /\ req'[r] = [req[r] EXCEPT !.at = "touch"]
    BY <1>6, WroteKeeps DEF Writes
  <2>5. KnownStay => Asks(r)' /\ UsersFit'
    BY <1>2, <2>1, <2>3, <2>4, AtAsks, KnownIsOrg DEF Unread
  <2>6. ~At(r, "signup", "admin")'
    BY <1>2, <2>4, AtStep DEF At
  <2>7. QED
    BY <1>1, <1>6, <2>3, <2>4, <2>5, <2>6, WritingFits
<1>7. QED
  BY <1>5, <1>6 DEF CreatesOrg, CreateOrg, At

LEMMA AddDataFits ==
  ASSUME IInv, OInv, NEW r \in Requests, AddData(r)
  PROVE  Fits(r)
<1> DEFINE o == req[r].tenant
<1>1. /\ UNCHANGED <<users, sessions, invites, keys, seen>> /\ Finishes(r)
      /\ orgs' = [orgs EXCEPT ![o].data = TRUE]
      /\ Running(r) /\ req[r].op = "addData"
  BY DEF AddData, At, Running
<1>2. o \in Orgs /\ orgs[o].status # "none"
  BY <1>1 DEF OInv, Asks, Knows, Known, Anonymous
<1>3. /\ OrgsFit'
      /\ \A p \in Orgs : /\ orgs[p].status # "none" => orgs'[p].status # "none"
                         /\ Exists(p) => Exists(p)'
  BY <1>1, <1>2, ChangedOrg
<1>4. Others(r) /\ req'[r] = Done
  BY <1>1, WroteKeeps DEF Finishes
<1>5. Asks(r)' /\ ~At(r, "signup", "admin")'
  BY <1>4, DoneAsks
<1>6. KnownStay /\ OpensOne'
  BY <1>1, <1>3, <1>4, <1>5, KnownGrows
<1>7. ExistsStay(r) /\ Uncrossed(r)
  BY <1>1, <1>3, UsersUncrossed DEF ExistsStay
<1>8. QED
  BY <1>1, <1>3, <1>4, <1>5, <1>6, <1>7, FitsTogether

(* deleteOrganization pulls a member: those under way are crossed.         *)
LEMMA PulledFits ==
  ASSUME IInv, OInv, NEW u \in Users, NEW o, NEW next,
         PullMembershipAndRepoint(u, o, next),
         Known(next), next # o, Remains(u, next)
  PROVE  /\ KnownStay => UsersFit'
         /\ \A v \in Users : v # u => users'[v] = users[v]
         /\ \A p : p # o /\ Belongs(users[u].memberships, p)
                     => Belongs(users'[u].memberships, p)
<1> DEFINE ms == users[u].memberships
           now == Without(ms, o)
<1>1. /\ users = [v \in Users |-> users[v]]
      /\ \A v \in Users : UserFields \subseteq DOMAIN users[v]
  BY DEF IInv, Shaped
<1>2. UserFits(u)
  BY DEF OInv, DocumentsFit
<1>3. /\ now \in Seq(Membership)
      /\ \A k \in DOMAIN now : \E n \in DOMAIN ms : now[k] = ms[n] /\ ms[n].org # o
      /\ \A p : p # o /\ Belongs(ms, p) => Belongs(now, p)
  BY <1>2, WithoutKeeps DEF UserFits
<1>4. \A v \in Users : v # u => users'[v] = users[v]
  BY <1>1 DEF PullMembershipAndRepoint
<1>5. /\ users'[u].status = users[u].status /\ users'[u].email = users[u].email
      /\ users'[u].memberships = now /\ users'[u].active = next
  BY <1>1 DEF PullMembershipAndRepoint, UserFields
<1> HIDE DEF now
<1>6. ASSUME KnownStay PROVE UsersFit'
  <2>1. \A p : Known(p) => Known(p)' /\ p \in Orgs
    BY <1>6, KnownIsOrg DEF Known
  <2>2. \A k \in DOMAIN now : \A p : p = now[k].org => Known(p)'
    BY <1>2, <1>3, <2>1 DEF UserFits
  <2>3. ms = <<>> => now = <<>>
    <3>1. ms = <<>> => DOMAIN ms = {}
      BY EmptySeq
    <3>2. DOMAIN now = {} => now = <<>>
      BY <1>3, EmptySeq, LenProperties
    <3>3. QED
      BY <1>3, <3>1, <3>2
  <2>4. seen'.crossed \/ Belongs(now, next)
    BY <1>3, <1>6 DEF Remains, KnownStay
  <2>5. UserFits(u)'
    BY <1>2, <1>3, <1>5, <2>1, <2>2, <2>3, <2>4 DEF UserFits, Present
  <2>6. QED
    BY <1>4, <1>6, <2>5, OneUserFits
<1>7. QED
  BY <1>3, <1>4, <1>5, <1>6

LEMMA PullFits ==
  ASSUME IInv, OInv, NEW r \in Requests, PullMember(r)
  PROVE  Fits(r)
<1>1. UNCHANGED <<orgs, sessions, invites, keys>>
  BY DEF PullMember
<1>2. Running(r) /\ req[r].op = "deleteOrg" /\ req[r].at = "pull"
  BY DEF PullMember, At, Running
<1>3. PICK m \in req[r].left : /\ PullMembershipAndRepoint(m[1], OrgOf(r), m[2])
                               /\ Wrote(r, [req[r] EXCEPT !.left = req[r].left \ {m}])
  BY DEF PullMember
<1>4. seen'.crossed = (seen.crossed \/ \E q \in Requests \ {r} : Running(q))
  BY DEF PullMember, IInv, Shaped
<1>5. Worded(r) /\ Knows(r) /\ Belonging(r) /\ RequestFields \subseteq DOMAIN req[r]
  BY <1>2 DEF OInv, Asks, IInv, Ready, Typed
<1>6. Others(r) /\ req'[r] = [req[r] EXCEPT !.left = req[r].left \ {m}]
  BY <1>3, WroteKeeps
<1>7. /\ req'[r].left = req[r].left \ {m}
      /\ \A f \in RequestFields \ {"left"} : req'[r][f] = req[r][f]
  BY <1>5, <1>6 DEF RequestFields
<1>8. /\ req'[r].at = "pull" /\ req'[r].op = "deleteOrg" /\ req'[r].sid = req[r].sid
      /\ req'[r].tenant = req[r].tenant /\ req'[r].org = req[r].org
      /\ req'[r].memberships = req[r].memberships
  BY <1>2, <1>7 DEF RequestFields
<1>9. ~At(r, "signup", "admin")' /\ (seen.crossed => seen'.crossed)
  BY <1>4, <1>8 DEF At
<1>10. KnownStay /\ OpensOne' /\ ExistsStay(r)
  BY <1>1, <1>6, <1>9, QuietOrgs
<1>11. Uncrossed(r)
  BY <1>4 DEF Uncrossed
<1>12. m[1] \in Users /\ Known(m[2]) /\ m[2] # OrgOf(r) /\ Remains(m[1], m[2])
  BY <1>2, <1>5 DEF Belonging
<1>13. /\ UsersFit'
       /\ \A v \in Users : v # m[1] => users'[v] = users[v]
       /\ \A p : p # OrgOf(r) /\ Belongs(users[m[1]].memberships, p)
                   => Belongs(users'[m[1]].memberships, p)
  BY <1>3, <1>10, <1>12, PulledFits
<1>14. \A o : Known(o) => Known(o)'
  BY <1>10, KnownIsOrg
<1>15. Worded(r)'
  BY <1>2, <1>5, <1>8 DEF Worded, OrgOf, Rows, Unread
<1>16. Knows(r)'
  BY <1>2, <1>5, <1>8, <1>14 DEF Knows, AboutKnown, OrgOf
<1>17. ASSUME NEW l \in req'[r].left
       PROVE  /\ l[1] \in Users /\ Known(l[2])' /\ l[2] # req'[r].org
              /\ Remains(l[1], l[2])'
  <2>1. l[1] \in Users /\ Known(l[2]) /\ l[2] # OrgOf(r) /\ Remains(l[1], l[2])
    BY <1>2, <1>5, <1>7 DEF Belonging
  <2>2. seen'.crossed \/ Belongs(users'[l[1]].memberships, l[2])
    BY <1>9, <1>13, <2>1 DEF Remains
  <2>3. QED
    BY <1>8, <1>14, <2>1, <2>2 DEF Remains, OrgOf
<1>18. Belonging(r)'
  BY <1>8, <1>17 DEF Belonging, OrgOf
<1>19. Asks(r)'
  BY <1>8, <1>15, <1>16, <1>18 DEF Asks, Serves, At
<1>20. QED
  BY <1>1, <1>6, <1>10, <1>11, <1>13, <1>19, FitsTogether

LEMMA DeletesOrgFits ==
  ASSUME IInv, OInv, NEW r \in Requests, DeletesOrg(r)
  PROVE  Fits(r)
<1> DEFINE o == OrgOf(r)
<1>1. UNCHANGED <<users, sessions, seen>>
  BY DEF DeletesOrg
<1>2. Running(r) /\ req[r].op = "deleteOrg" /\ AboutKnown(r)
  BY DEF DeletesOrg, DeleteOrg, At, Running, AboutKnown
<1>3. Known(o)
  BY <1>2 DEF OInv, Asks, Knows
<1>4. CASE DeleteKeysByOrg(o) /\ Writes(r, "invites") /\ UNCHANGED <<orgs, invites>>
  <2>1. ASSUME KnownStay PROVE KeysFit'
    <3> SUFFICES ASSUME NEW k \in Keys PROVE KeyFits(k)'
      BY DEF KeysFit
    <3>1. keys'[k] = keys[k] \/ keys'[k] = AbsentKey
      BY <1>4 DEF DeleteKeysByOrg
    <3>2. KeyFits(k)
      BY DEF OInv, DocumentsFit
    <3>3. \A p : Known(p) => Known(p)'
      BY <2>1, KnownIsOrg
    <3>4. AbsentKey.status = "none" /\
          AbsentKey \in [status : {"none", "active", "revoked"}, org : Orgs \cup {NoOrg},
                         scopes : SUBSET Scopes]
      BY DEF AbsentKey
    <3>5. QED
      BY <3>1, <3>2, <3>3, <3>4 DEF KeyFits
  <2>2. QED
    BY <1>1, <1>2, <1>4, <2>1, WritesFit DEF Unread
<1>5. CASE DeleteInvitesByOrg(o) /\ Writes(r, "org") /\ UNCHANGED <<orgs, keys>>
  <2>1. ASSUME KnownStay PROVE InvitesFit'
    <3> SUFFICES ASSUME NEW i \in Invites PROVE InviteFits(i)'
      BY DEF InvitesFit
    <3> DEFINE gone == [AbsentInvite EXCEPT !.status = "deleted"]
    <3>1. invites'[i] = invites[i] \/ invites'[i] = gone
      BY <1>5 DEF DeleteInvitesByOrg
    <3>2. InviteFits(i)
      BY DEF OInv, DocumentsFit
    <3>3. \A p : Known(p) => Known(p)'
      BY <2>1, KnownIsOrg
    <3>4. /\ {"status", "org", "email", "grants"} \subseteq DOMAIN gone
          /\ gone.status = "deleted" /\ gone.grants = Member({})
      BY DEF AbsentInvite
    <3>5. Member({}) \in Grants
      BY DEF Member, Grants
    <3> HIDE DEF gone
    <3>6. QED
      BY <3>1, <3>2, <3>3, <3>4, <3>5 DEF InviteFits
  <2>2. QED
    BY <1>1, <1>2, <1>5, <2>1, WritesFit DEF Unread
<1>6. CASE /\ orgs' = [orgs EXCEPT ![o].status = "deleted"] /\ Overtakes(r)
           /\ UNCHANGED <<invites, keys>>
  <2>1. Others(r) /\ req'[r] = Done /\ Races(r)
    BY <1>6, OvertakesKeeps
  <2>2. o \in Orgs /\ orgs[o].status # "none"
    BY <1>3 DEF Known
  <2>3. /\ OrgsFit'
        /\ \A p \in Orgs : orgs[p].status # "none" => orgs'[p].status # "none"
    BY <1>6, <2>2, ChangedOrg
  <2>4. Asks(r)' /\ ~At(r, "signup", "admin")'
    BY <2>1, DoneAsks
  <2>5. KnownStay /\ OpensOne'
    BY <1>1, <2>1, <2>3, <2>4, KnownGrows
  <2>6. ExistsStay(r) /\ Uncrossed(r)
    BY <1>1, <2>1, UsersUncrossed DEF ExistsStay
  <2>7. QED
    BY <1>1, <1>6, <2>1, <2>3, <2>4, <2>5, <2>6, FitsTogether
<1>7. QED
  BY <1>4, <1>5, <1>6 DEF DeletesOrg, DeleteOrg

-----------------------------------------------------------------------------
(* Steps that write a key.                                                 *)
LEMMA KeyWritten ==
  ASSUME IInv, OInv, KnownStay, NEW k \in Keys, NEW doc,
         UNCHANGED keys \/ keys' = [keys EXCEPT ![k] = doc],
         doc \in [status : {"none", "active", "revoked"}, org : Orgs \cup {NoOrg},
                  scopes : SUBSET Scopes],
         doc.status = "none" \/ Known(doc.org)
  PROVE  KeysFit'
<1> SUFFICES ASSUME NEW j \in Keys PROVE KeyFits(j)'
  BY DEF KeysFit
<1>1. keys = [i \in Keys |-> keys[i]] /\ KeyFits(j)
  BY DEF IInv, Shaped, OInv, DocumentsFit
<1>2. keys'[j] = keys[j] \/ keys'[j] = doc
  BY <1>1
<1>3. \A o : Known(o) => Known(o)'
  BY KnownIsOrg
<1>4. QED
  BY <1>1, <1>2, <1>3 DEF KeyFits

LEMMA KeyStepsFit ==
  ASSUME IInv, OInv, NEW r \in Requests, \/ IssueKey(r) \/ UpdateKey(r)
         \/ RestatusKey(r) \/ RevokeKey(r)
  PROVE  Fits(r)
<1> DEFINE k == req[r].item
           Doc == [status : {"none", "active", "revoked"}, org : Orgs \cup {NoOrg},
                   scopes : SUBSET Scopes]
<1>1. /\ UNCHANGED <<users, orgs, sessions, invites, seen>>
      /\ Running(r) /\ req[r].op \in {"issueKey", "updateKey", "revokeKey"}
  BY DEF IssueKey, UpdateKey, RestatusKey, RevokeKey, At, Running
<1>2. Worded(r) /\ Knows(r)
  BY <1>1 DEF OInv, Asks
<1>3. k \in Keys /\ Known(req[r].tenant) /\ req[r].tenant \in Orgs
  BY <1>1, <1>2 DEF Worded, Knows, Anonymous, Known
<1>4. KeyFits(k)
  BY <1>3 DEF OInv, DocumentsFit
<1>5. CASE Ends(r) /\ UNCHANGED keys
  BY <1>1, <1>5, FinishesFit
<1>6. ASSUME NEW doc \in Doc, doc.status = "none" \/ Known(doc.org), Finishes(r),
             UNCHANGED keys \/ keys' = [keys EXCEPT ![k] = doc]
      PROVE  Fits(r)
  <2>1. KnownStay => KeysFit'
    BY <1>3, <1>6, KeyWritten
  <2>2. QED
    BY <1>1, <1>6, <2>1, FinishesFit
<1>7. CASE IssueKey(r) /\ Finishes(r)
           /\ keys' = [keys EXCEPT ![k] =
                [status |-> "active", org |-> req[r].tenant, scopes |-> req[r].scopes]]
  <2> DEFINE doc == [status |-> "active", org |-> req[r].tenant, scopes |-> req[r].scopes]
  <2>1. req[r].scopes \subseteq Scopes
    BY <1>2, <1>7 DEF IssueKey, At, Worded
  <2>2. doc \in Doc /\ Known(doc.org)
    BY <1>3, <2>1
  <2>3. QED
    BY <1>6, <1>7, <2>2
<1>8. CASE UpdateKey(r)
  <2> DEFINE scopes == FinalScopes(ActorGrants(r), req[r].existing, req[r].scopes)
             status == IF req[r].status = "none" THEN keys[k].status ELSE req[r].status
             doc == [keys[k] EXCEPT !.scopes = scopes, !.status = status]
  <2>1. /\ req[r].scopes \subseteq Scopes /\ req[r].existing \subseteq Scopes
        /\ req[r].status \in {"none", "active", "revoked"}
    BY <1>2, <1>8 DEF UpdateKey, At, Worded
  <2>2. scopes \subseteq Scopes
    BY <2>1 DEF FinalScopes, LockedScopes
  <2>3. status \in {"none", "active", "revoked"}
    BY <1>4, <2>1 DEF KeyFits
  <2>4. UNCHANGED keys \/ (keys' = [keys EXCEPT ![k] = doc] /\ keys[k].status # "none")
    BY <1>8 DEF UpdateKey, UpdateManagementKey, KeyOf
  <2> HIDE DEF scopes, status
  <2>5. doc \in Doc /\ doc.org = keys[k].org
    BY <1>4, <2>2, <2>3 DEF KeyFits
  <2>6. Finishes(r)
    BY <1>8 DEF UpdateKey
  <2> HIDE DEF doc
  <2>7. CASE UNCHANGED keys
    BY <1>1, <2>6, <2>7, FinishesFit
  <2>8. CASE keys' = [keys EXCEPT ![k] = doc] /\ keys[k].status # "none"
    BY <1>4, <1>6, <2>5, <2>6, <2>8 DEF KeyFits
  <2>9. QED
    BY <2>4, <2>7, <2>8
<1>9. CASE RestatusKey(r) \/ RevokeKey(r)
  <2>1. PICK status \in {"none", "active", "revoked"} :
            \/ UNCHANGED keys
            \/ /\ keys' = [keys EXCEPT ![k] = [keys[k] EXCEPT !.status = status]]
               /\ keys[k].status # "none"
    <3>1. CASE RevokeKey(r)
      BY <3>1 DEF RevokeKey, UpdateManagementKey, KeyOf
    <3>2. CASE RestatusKey(r)
      <4> DEFINE status == IF req[r].status = "none" THEN keys[k].status ELSE req[r].status
      <4>1. req[r].status \in {"none", "active", "revoked"}
        BY <1>2, <3>2 DEF RestatusKey, At, Worded
      <4>2. status \in {"none", "active", "revoked"}
        BY <1>4, <4>1 DEF KeyFits
      <4>3. \/ UNCHANGED keys
            \/ /\ keys' = [keys EXCEPT ![k] = [keys[k] EXCEPT !.status = status]]
               /\ keys[k].status # "none"
        BY <3>2 DEF RestatusKey, UpdateManagementKey, KeyOf
      <4> HIDE DEF status
      <4>4. QED
        BY <4>2, <4>3
    <3>3. QED
      BY <1>9, <3>1, <3>2
  <2> DEFINE doc == [keys[k] EXCEPT !.status = status]
  <2>2. doc \in Doc /\ doc.org = keys[k].org
    BY <1>4 DEF KeyFits
  <2>3. Finishes(r)
    BY <1>9 DEF RestatusKey, RevokeKey
  <2>4. UNCHANGED keys \/ (keys' = [keys EXCEPT ![k] = doc] /\ keys[k].status # "none")
    BY <2>1
  <2> HIDE DEF doc
  <2>5. CASE UNCHANGED keys
    BY <1>1, <2>3, <2>5, FinishesFit
  <2>6. CASE keys' = [keys EXCEPT ![k] = doc] /\ keys[k].status # "none"
    BY <1>4, <1>6, <2>2, <2>3, <2>6 DEF KeyFits
  <2>7. QED
    BY <2>4, <2>5, <2>6
<1>10. CASE IssueKey(r)
  BY <1>5, <1>7, <1>10 DEF IssueKey
<1>11. QED
  BY <1>8, <1>9, <1>10

-----------------------------------------------------------------------------
(* signup: what it makes is undone only while nobody knows of it.          *)
LEMMA FoundsFit ==
  ASSUME IInv, OInv, NEW r \in Requests, Founds(r)
  PROVE  Fits(r)
<1> DEFINE u == UserOf(r)
           o == OrgOf(r)
<1>1. UNCHANGED <<sessions, invites, keys>> /\ Found(r)
  BY DEF Founds
<1>2. seen'.crossed = seen.crossed
  BY DEF Founds, IInv, Shaped
<1>3. Running(r) /\ req[r].op = "signup" /\ req[r].at \in {"org", "admin"}
  BY <1>1 DEF Found, At, Running
<1>4. o \in Orgs /\ u \in Users
  BY <1>3 DEF OInv, Asks, Worded, IInv, Ready, Typed
<1>5. CASE /\ orgs[o].status = "none" /\ InsertOrg(o, u) /\ Writes(r, "admin")
           /\ UNCHANGED users
  <2>1. Others(r) /\ req'[r] = [req[r] EXCEPT !.at = "admin"]
    BY <1>5, WroteKeeps DEF Writes
  <2>2. req'[r].org = req[r].org
    BY <1>3, <2>1, AtStep DEF RequestFields
  <2>3. /\ orgs'[o].status = "present" /\ OrgsFit'
        /\ \A p \in Orgs : /\ orgs[p].status # "none" => orgs'[p].status # "none"
                           /\ Exists(p) => Exists(p)'
    BY <1>4, <1>5, InsertedOrg
  <2>4. OrgOf(r)' \in Orgs /\ orgs[OrgOf(r)'].status = "none" /\ orgs'[OrgOf(r)'].status # "none"
    BY <1>4, <1>5, <2>2, <2>3 DEF OrgOf
  <2>5. KnownStay /\ OpensOne'
    BY <1>2, <2>1, <2>3, <2>4, KnownGrows
  <2>6. MembersStay /\ Uncrossed(r) /\ ExistsStay(r)
    BY <1>5, <2>3, UsersUncrossed DEF ExistsStay
  <2>7. Asks(r)'
    BY <1>3, <2>1, <2>5, <2>6, AtAsks DEF Unread
  <2>8. QED
    BY <1>1, <1>5, <2>1, <2>3, <2>5, <2>6, <2>7, FitsTogether
<1>6. CASE Reads(r, "release") /\ UNCHANGED <<users, orgs>>
  <2>1. Unwritten
    BY <1>1, <1>2, <1>6 DEF Unwritten
  <2>2. QED
    BY <1>3, <1>6, <2>1, MovesFits DEF Unread
<1>7. ASSUME req[r].at = "admin"
      PROVE  /\ Opens(r, o) /\ orgs[o].status # "none"
             /\ \A q \in Requests : Opens(q, o) => q = r
  BY <1>3, <1>7 DEF OInv, OpensOne, Opens, At
<1>8. CASE /\ req[r].at = "admin" /\ ~Present(u) /\ (\E e \in Emails : ~EmailTaken(e, u))
           /\ users' = [users EXCEPT ![u] =
                [status |-> "active", email |-> FreshEmail(u), hash |-> 0,
                 memberships |-> <<[org |-> o, grants |-> Admin]>>, active |-> o]]
           /\ Writes(r, "mint") /\ UNCHANGED orgs
  <2>1. FreshEmail(u) \in Emails /\ Admin \in Grants
    BY <1>8 DEF FreshEmail, Admin, Grants
  <2>2. MembersStay /\ (KnownStay /\ (\A p : p = o => Known(p)') => UsersFit')
    BY <1>4, <1>8, <2>1, NewUserFits
  <2>3. Others(r) /\ req'[r] = [req[r] EXCEPT !.at = "mint"]
    BY <1>8, WroteKeeps DEF Writes
  <2>4. req'[r].at = "mint" /\ req'[r].org = req[r].org
    BY <1>3, <2>3, AtStep DEF RequestFields
  <2>5. ~At(r, "signup", "admin")' /\ \A p : ~Opens(r, p)'
    BY <2>4 DEF At, Opens
  <2>6. KnownStay
    BY <1>2, <1>8, <2>3, <2>5, QuietOrgs
  <2>7. \A p : p = o => Known(p)'
    BY <1>4, <1>7, <1>8, <2>3, <2>5, OpensKept DEF Known
  <2>8. Known(OrgOf(r))'
    BY <2>4, <2>7 DEF OrgOf
  <2>9. Asks(r)'
    BY <1>3, <2>2, <2>3, <2>6, <2>8, AtAsks DEF Unread
  <2>10. QED
    BY <1>1, <1>2, <1>8, <2>2, <2>3, <2>5, <2>6, <2>7, <2>9, WritingFits
<1>9. CASE /\ req[r].at = "admin" /\ orgs' = [orgs EXCEPT ![o].status = "deleted"]
           /\ Writes(r, "release") /\ UNCHANGED users
  <2>1. Others(r) /\ req'[r] = [req[r] EXCEPT !.at = "release"]
    BY <1>9, WroteKeeps DEF Writes
  <2>2. ~At(r, "signup", "admin")'
    BY <1>3, <2>1, AtStep DEF At
  <2>3. /\ OrgsFit'
        /\ \A p \in Orgs : /\ orgs[p].status # "none" => orgs'[p].status # "none"
                           /\ p # o => (Exists(p) => Exists(p)')
    BY <1>4, <1>7, <1>9, ChangedOrg
  <2>4. KnownStay /\ OpensOne'
    BY <1>2, <2>1, <2>2, <2>3, KnownGrows
  <2>5. MembersStay /\ Uncrossed(r)
    BY <1>9, UsersUncrossed
  <2>6. ExistsStay(r)
    BY <1>7, <1>9, <2>3 DEF ExistsStay
  <2>7. Asks(r)'
    BY <1>3, <2>1, <2>4, <2>5, AtAsks DEF Unread
  <2>8. QED
    BY <1>1, <1>9, <2>1, <2>3, <2>4, <2>5, <2>6, <2>7, FitsTogether
<1>10. QED
  BY <1>1, <1>5, <1>6, <1>8, <1>9 DEF Found, At

-----------------------------------------------------------------------------
(* Every step of a request, and the two that are nobody's.                 *)
LEMMA RequestFits ==
  ASSUME IInv, OInv, NEW r \in Requests, RequestNext(r)
  PROVE  Fits(r)
<1>1. CASE Session(r)
  BY <1>1, ReadSessionFits, ReadUserFits, MintsFits, TouchFits, LoginFits, SessionWritesFit,
     UpdatesMeFits, NewHashFits DEF Session
<1>2. CASE InvitesNext(r)
  BY <1>2, InviteStepsFit, FindPendingFits, FindAccountFits, GrantFits, GrantActiveFits
     DEF InvitesNext, Accepts
<1>3. CASE Organizations(r)
  BY <1>3, SwitchFits, CreatesOrgFits, CheckDeleteFits, PullFits, DeletesOrgFits, AddDataFits
     DEF Organizations
<1>4. CASE ManagementKeys(r)
  BY <1>4, KeyStepsFit, ReadKeyFits, UseKeyFits DEF ManagementKeys
<1>5. CASE Signup(r)
  BY <1>5, SignupReadsFit, FoundsFit DEF Signup
<1>6. QED
  BY <1>1, <1>2, <1>3, <1>4, <1>5, ArriveFits, StopFits DEF RequestNext

LEMMA QuietFits ==
  ASSUME OInv, UNCHANGED <<users, orgs, sessions, keys, req, seen>>,
         KnownStay => UNCHANGED invites \/ InvitesFit'
  PROVE  OInv'
<1>1. KnownStay
  BY DEF KnownStay, Known, Opens, At, OrgOf
<1>2. OpensOne'
  BY DEF OInv, OpensOne, Opens, At, OrgOf
<1>3. UsersFit' /\ SessionsFit' /\ InvitesFit' /\ KeysFit' /\ OrgsFit'
  BY <1>1, DocumentsStay
<1>4. DocumentsFit'
  BY <1>3 DEF DocumentsFit, UsersFit, SessionsFit, InvitesFit, KeysFit, OrgsFit
<1>5. ASSUME NEW r \in Requests PROVE Asks(r)'
  <2>1. CASE ~Running(r)
    BY <2>1 DEF Asks, Running
  <2>2. CASE Running(r)
    <3>1. Worded(r) /\ Knows(r) /\ Belonging(r) /\ Serves(r)
      BY <2>2 DEF OInv, Asks
    <3>2. Worded(r)'
      BY <3>1 DEF Worded, OrgOf, Rows
    <3>3. Knows(r)'
      BY <1>1, <3>1, KnownIsOrg DEF Knows, AboutKnown, OrgOf
    <3>4. Belonging(r)'
      <4>1. \A l : Known(l) => Known(l)'
        BY <1>1, KnownIsOrg
      <4>2. \A v, l : Remains(v, l) => Remains(v, l)'
        BY DEF Remains, Belongs
      <4>3. QED
        BY <3>1, <4>1, <4>2 DEF Belonging, UserOf, OrgOf, Belongs
    <3>5. Serves(r)'
      BY <3>1 DEF Serves, At, Exists, OrgOf
    <3>6. QED
      BY <3>2, <3>3, <3>4, <3>5 DEF Asks
  <2>3. QED
    BY <2>1, <2>2
<1>6. QED
  BY <1>2, <1>4, <1>5 DEF OInv

LEMMA TimeFits ==
  ASSUME IInv, OInv, LockAges \/ \E i \in Invites : InviteExpires(i)
  PROVE  OInv'
<1>1. CASE LockAges
  BY <1>1, QuietFits DEF LockAges
<1>2. ASSUME NEW i \in Invites, InviteExpires(i) PROVE OInv'
  <2>1. ASSUME KnownStay PROVE InvitesFit'
    <3> SUFFICES ASSUME NEW j \in Invites PROVE InviteFits(j)'
      BY DEF InvitesFit
    <3>1. /\ invites = [k \in Invites |-> invites[k]] /\ InviteFits(j)
      BY DEF IInv, Shaped, OInv, DocumentsFit
    <3>2. invites'[j] = invites[j] \/ invites'[j] = [invites[j] EXCEPT !.expired = TRUE]
      BY <1>2, <3>1 DEF InviteExpires
    <3>3. /\ DOMAIN invites'[j] = DOMAIN invites[j]
          /\ invites'[j].status = invites[j].status /\ invites'[j].org = invites[j].org
          /\ invites'[j].email = invites[j].email /\ invites'[j].grants = invites[j].grants
      BY <3>1, <3>2 DEF InviteFits
    <3>4. QED
      BY <2>1, <3>1, <3>3, KnownIsOrg DEF InviteFits
  <2>2. QED
    BY <1>2, <2>1, QuietFits DEF InviteExpires
<1>3. QED
  BY <1>1, <1>2

LEMMA InitFits == InitFresh => OInv
<1> SUFFICES ASSUME InitFresh PROVE OInv
  OBVIOUS
<1>1. /\ users = [u \in Users |-> AbsentUser]
      /\ orgs = [o \in Orgs |-> AbsentOrg]
      /\ sessions = [s \in Rows |-> NoSession]
      /\ invites = [i \in Invites |-> AbsentInvite]
      /\ keys = [k \in Keys |-> AbsentKey]
      /\ req = [r \in Requests |-> Idle]
  BY DEF InitFresh, InitAccess, Rows
<1>2. <<>> \in Seq(Membership) /\ DOMAIN <<>> = {}
  BY EmptySeq
<1>3. ASSUME NEW u \in Users PROVE UserFits(u)
  BY <1>1, <1>2 DEF UserFits, AbsentUser, Present
<1>4. ASSUME NEW s \in Rows PROVE SessionFits(s)
  BY <1>1 DEF SessionFits, NoSession
<1>5. ASSUME NEW i \in Invites PROVE InviteFits(i)
  BY <1>1 DEF InviteFits, AbsentInvite, Member, Grants
<1>6. ASSUME NEW k \in Keys PROVE KeyFits(k)
  BY <1>1 DEF KeyFits, AbsentKey
<1>7. orgs = [o \in Orgs |-> orgs[o]] /\ \A o \in Orgs : OrgFits(o)
  BY <1>1 DEF OrgFits, AbsentOrg
<1>8. \A r \in Requests : Asks(r)
  BY <1>1 DEF Asks, Running, Idle
<1>9. OpensOne
  BY <1>1 DEF OpensOne, At, Idle
<1>10. QED
  BY <1>3, <1>4, <1>5, <1>6, <1>7, <1>8, <1>9 DEF OInv, DocumentsFit

LEMMA NextFits == IInv /\ OInv /\ [Next]_vars => OInv'
<1> SUFFICES ASSUME IInv, OInv, [Next]_vars PROVE OInv'
  OBVIOUS
<1>1. ASSUME NEW r \in Requests, RequestNext(r) PROVE OInv'
  <2>1. Fits(r)
    BY <1>1, RequestFits
  <2>2. \A q \in Requests : Asks(q)'
    BY <2>1, OthersAsk DEF Fits
  <2>3. QED
    BY <2>1, <2>2 DEF Fits, OInv
<1>2. CASE UNCHANGED vars
  BY <1>2, QuietFits DEF vars
<1>3. QED
  BY <1>1, <1>2, TimeFits DEF Next, RequestNext

LEMMA OInvHolds == Spec => [](IInv /\ OInv)
<1>1. InitFresh => IInv /\ OInv
  BY InitHolds, InitFits
<1>2. IInv /\ OInv /\ [Next]_vars => (IInv /\ OInv)'
  BY NextKeeps, NextFits
<1>3. QED
  BY <1>1, <1>2, PTL DEF Spec

(* deleteOrganization, switchActiveOrganization, acceptInvite and the use  *)
(* of keys, whatever others do meanwhile: documents keep the type of their *)
(* schema, the organization a user is signed in to next is one of theirs   *)
(* unless a deletion crossed another request, and a key of a deleted       *)
(* organization lets nobody in who came after.                             *)
THEOREM OrganizationsEndWhole == Spec => []OrgsEndWhole
<1>1. IInv /\ OInv => OrgsEndWhole
  <2> SUFFICES ASSUME IInv, OInv PROVE OrgsEndWhole
    OBVIOUS
  <2>1. ASSUME NEW u \in Users
        PROVE  /\ users[u].status \in {"none", "active"}
               /\ users[u].email \in Emails \cup {NoEmail}
               /\ users[u].hash \in Nat
               /\ users[u].memberships \in Seq(Membership)
               /\ users[u].active \in Orgs \cup {NoOrg}
    BY DEF OInv, DocumentsFit, UserFits, IInv, Data, HashesGrow
  <2>2. orgs \in [Orgs -> [status : {"none", "present", "deleted"},
                           owner : Users \cup {NoUser}, data : BOOLEAN]]
    BY DEF OInv, DocumentsFit, OrgFits
  <2>3. ASSUME NEW s \in DOMAIN sessions
        PROVE  /\ sessions[s].live => sessions[s].user \in Users
                                      /\ sessions[s].org \in sessions[s].tokens
               /\ sessions[s].tokens \subseteq Orgs
    BY DEF OInv, DocumentsFit, SessionFits, Known, IInv, Shaped, Data, SessionsCurrent
  <2>4. ASSUME NEW i \in Invites
        PROVE  /\ invites[i].status \in {"none", "pending", "accepted", "revoked", "deleted"}
               /\ invites[i].grants \in Grants
    BY DEF OInv, DocumentsFit, InviteFits
  <2>5. keys \in [Keys -> [status : {"none", "active", "revoked"},
                           org : Orgs \cup {NoOrg}, scopes : SUBSET Scopes]]
    BY DEF OInv, DocumentsFit, KeyFits, IInv, Shaped
  <2>6. lock \in {"free", "fresh", "stale"}
    BY DEF IInv, Shaped
  <2>7. TypeOK
    BY <2>1, <2>2, <2>3, <2>4, <2>5, <2>6 DEF TypeOK
  <2>8. ActiveIsMember
    BY DEF OInv, DocumentsFit, UserFits, ActiveIsMember
  <2>9. KeysDieWithOrg
    BY DEF OInv, Asks, Serves, Running, At, KeysDieWithOrg
  <2>10. QED
    BY <2>7, <2>8, <2>9 DEF OrgsEndWhole
<1>2. QED
  BY <1>1, OInvHolds, PTL
=============================================================================
