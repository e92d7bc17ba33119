---------------------------- MODULE SessionsProofs ---------------------------
(***************************************************************************)
(* Theorems about Sessions, for any servers, lifetimes and bounds.         *)
(***************************************************************************)
EXTENDS Sessions, SequenceTheorems, FiniteSetTheorems, TLAPS

------------------------------------------------------------------------------
(* Type correctness.                                                       *)

Rotators == {s \in Servers : step[s] \in Rotating}

\* The inductive invariant: requests in flight have room for their tokens, and
\* a token is on its way to the client in one response only.
TypeInv ==
  /\ TypeOK
  /\ Len(tokens) + Cardinality(Rotators) <= MaxTokens
  /\ \A s, u \in Servers :
       step[s] = "respond" /\ step[u] = "respond" /\ token[s] = token[u] => s = u

\* The requests in flight can be counted.
LEMMA RotatorsAreFinite ==
  ASSUME NEW S \in SUBSET Servers
  PROVE  IsFiniteSet(S) /\ Cardinality(S) \in Nat
  BY ServersAreFinite, FS_Subset, FS_CardinalityType

\* Room for a token is left where none is reserved or issued.
LEMMA RoomStays ==
  ASSUME Len(tokens) + Cardinality(Rotators) <= MaxTokens, tokens \in Seq(Tokens),
         tokens' = tokens, Rotators' \subseteq Rotators
  PROVE  Len(tokens') + Cardinality(Rotators') <= MaxTokens
<1>1. Cardinality(Rotators') <= Cardinality(Rotators)
  BY RotatorsAreFinite, FS_Subset DEF Rotators
<1>2. Cardinality(Rotators') \in Nat /\ Cardinality(Rotators) \in Nat
  BY RotatorsAreFinite DEF Rotators
<1>3. Len(tokens) \in Nat
  OBVIOUS
<1> QED
  BY <1>1, <1>2, <1>3, SessionBounds

\* A request that Room admits takes its place.
LEMMA RoomIsTaken ==
  ASSUME Room, tokens \in Seq(Tokens), tokens' = tokens,
         NEW s \in Servers, Rotators' \subseteq Rotators \cup {s}
  PROVE  Len(tokens') + Cardinality(Rotators') <= MaxTokens
<1>1. IsFiniteSet(Rotators) /\ Cardinality(Rotators) \in Nat
  BY RotatorsAreFinite DEF Rotators
<1>2. IsFiniteSet(Rotators \cup {s})
      /\ Cardinality(Rotators \cup {s}) <= Cardinality(Rotators) + 1
      /\ Cardinality(Rotators \cup {s}) \in Nat
  <2>1. /\ IsFiniteSet(Rotators \cup {s})
        /\ \/ Cardinality(Rotators \cup {s}) = Cardinality(Rotators)
           \/ Cardinality(Rotators \cup {s}) = Cardinality(Rotators) + 1
    BY <1>1, FS_AddElement
  <2> QED
    BY <1>1, <2>1
<1>3. /\ Cardinality(Rotators') <= Cardinality(Rotators \cup {s})
      /\ Cardinality(Rotators') \in Nat
  BY <1>2, FS_Subset, FS_CardinalityType
<1>4. Len(tokens) \in Nat /\ Len(tokens) + Cardinality(Rotators) < MaxTokens
  BY DEF Room, Rotators
<1> QED
  BY <1>1, <1>2, <1>3, <1>4, SessionBounds

\* What IssuesToken does to the table of tokens.
LEMMA TokenIsIssued ==
  ASSUME TypeInv, NEW s \in Servers, IssuesToken(s)
  PROVE  LET id == Len(tokens) + 1 IN
         /\ id \in Ids /\ id \notin Issued
         /\ Issued' = Issued \cup {id}
         /\ \A t \in Issued : tokens'[t] = tokens[t] /\ tokens[t] \in Tokens
         /\ tokens'[id] \in Tokens
         /\ tokens'[id].parent = token[s]
         /\ tokens'[id].session =
              IF token[s] = NoToken THEN id ELSE SessionOf(token[s])
         /\ tokens'[id].access = taken[s] + AccessLifetime
         /\ tokens' \in Seq(Tokens) /\ Len(tokens') = id
         /\ id + Cardinality(Rotators') <= MaxTokens
<1> DEFINE id == Len(tokens) + 1
           r == [session |-> IF token[s] = NoToken THEN id
                             ELSE SessionOf(token[s]),
                 parent |-> token[s],
                 expires |-> taken[s] + RefreshLifetime,
                 access |-> taken[s] + AccessLifetime]
<1>1. tokens \in Seq(Tokens) /\ Len(tokens) \in Nat /\ Issued = 1 .. Len(tokens)
  BY DEF TypeInv, TypeOK, Issued
<1>2. /\ IsFiniteSet(Rotators) /\ Cardinality(Rotators) \in Nat
      /\ s \in Rotators
  BY RotatorsAreFinite DEF Rotators, IssuesToken, Rotating
<1>3. Rotators' = Rotators \ {s}
  BY DEF IssuesToken, Rotators, Rotating, TypeInv, TypeOK
<1>4. Cardinality(Rotators') = Cardinality(Rotators) - 1
      /\ Cardinality(Rotators') \in Nat
  BY <1>2, <1>3, FS_RemoveElement, RotatorsAreFinite DEF Rotators
<1>5. id + Cardinality(Rotators') <= MaxTokens /\ id \in Ids
  BY <1>1, <1>2, <1>4, SessionBounds DEF TypeInv, Ids
<1>6. \A t \in Issued : tokens[t] \in Tokens /\ t \in Ids
  <2> SUFFICES ASSUME NEW t \in Issued PROVE tokens[t] \in Tokens /\ t \in Ids
    OBVIOUS
  <2>1. tokens[t] \in Tokens
    BY <1>1
  <2>2. t \in Ids
    BY <1>1, SessionBounds DEF TypeInv, TypeOK, Ids
  <2> QED
    BY <2>1, <2>2
<1>7. r \in Tokens
  <2>1. token[s] \in Ids \cup {NoToken} /\ taken[s] \in Nat
    BY <1>6, SessionBounds DEF TypeInv, TypeOK
  <2>2. r.session \in Ids
    BY <1>5, <1>6 DEF SessionOf, TypeInv, TypeOK, Tokens
  <2> QED
    BY <2>1, <2>2, SessionBounds DEF Tokens
<1>8. tokens' = Append(tokens, r)
  BY DEF IssuesToken
<1>9. /\ tokens' \in Seq(Tokens) /\ Len(tokens') = id
      /\ \A t \in 1 .. Len(tokens) : tokens'[t] = tokens[t]
      /\ tokens'[id] = r
  BY <1>1, <1>7, <1>8, AppendProperties
<1>10. Issued' = 1 .. id
  BY <1>9 DEF Issued
<1> HIDE DEF r
<1> QED
  BY <1>1, <1>5, <1>6, <1>7, <1>9, <1>10 DEF r

\* Where no token is issued the tokens keep their names and sessions.
LEMMA SameTokens ==
  ASSUME tokens' = tokens
  PROVE  Issued' = Issued /\ \A t : SessionOf(t)' = SessionOf(t)
  BY DEF Issued, SessionOf

\* A server told of nothing is idle to begin with.
LEMMA TypeInvInit == Init => TypeInv
<1> SUFFICES ASSUME Init PROVE TypeInv
  OBVIOUS
<1>1. tokens \in Seq(Tokens) /\ Len(tokens) = 0
  BY DEF Init
<1>2. Rotators = {}
  BY DEF Init, Rotators, Rotating
<1>3. Len(tokens) + Cardinality(Rotators) <= MaxTokens
  BY <1>1, <1>2, FS_EmptySet, SessionBounds
<1>4. \A s \in Servers : step[s] = "idle" /\ token[s] = NoToken
  BY DEF Init
<1>5. /\ now \in 0 .. MaxTime /\ lost \in Nat /\ toggles \in Nat
      /\ ended \in [Ids -> 0 .. now \cup {Never}]
      /\ taken \in [Servers -> 0 .. now]
  BY SessionBounds DEF Init
<1>6. /\ active \in BOOLEAN /\ locked \in BOOLEAN /\ exposed \in BOOLEAN
      /\ admitted \subseteq Servers
      /\ blacklisted \subseteq Issued /\ told \subseteq Issued
      /\ refused \subseteq told /\ overlapped \subseteq told
  BY DEF Init
<1>7. /\ step \in [Servers -> {"idle", "respond", "profile"}
                              \cup Rotating \cup LoggingOut]
      /\ token \in [Servers -> Issued \cup {NoToken}]
  BY DEF Init
<1>8. TypeOK
  BY <1>1, <1>4, <1>5, <1>6, <1>7, SessionBounds DEF TypeOK, Verified
<1> QED
  BY <1>3, <1>4, <1>8 DEF TypeInv

\* A request that ends leaves the rest of the state as well typed as it was.
LEMMA AnswerTypes ==
  ASSUME TypeInv, NEW s \in Servers, Answer(s), UNCHANGED <<now, tokens>>,
         told' \subseteq Issued, told \subseteq told',
         \A u \in Servers \ {s} : step[u] = "respond" => token[u] \notin told',
         blacklisted' \subseteq Issued, refused' \subseteq told', overlapped' \subseteq told',
         ended' \in [Ids -> 0 .. now \cup {Never}],
         active' \in BOOLEAN, UNCHANGED <<locked, exposed>>,
         lost' \in Nat, toggles' \in Nat
  PROVE  TypeInv'
<1>1. /\ step' = [step EXCEPT ![s] = "idle"]
      /\ token' = [token EXCEPT ![s] = NoToken]
      /\ taken' = [taken EXCEPT ![s] = 0]
      /\ admitted' = admitted \ {s}
  BY DEF Answer
<1>2. Issued' = Issued
  BY SameTokens
<1>3. Rotators' \subseteq Rotators
  BY <1>1 DEF Rotators, Rotating, TypeInv, TypeOK
<1>4. Len(tokens') + Cardinality(Rotators') <= MaxTokens
  BY <1>3, RoomStays DEF TypeInv, TypeOK
<1>5. \A u, v \in Servers :
        step'[u] = "respond" /\ step'[v] = "respond" /\ token'[u] = token'[v]
          => u = v
  BY <1>1 DEF TypeInv, TypeOK
<1>6. \A u \in Servers :
        /\ step'[u] \in Verified \cup {"verify"} => token'[u] \in told'
        /\ step'[u] = "respond" => token'[u] \in Issued \ told'
        /\ step'[u] = "idle" => token'[u] = NoToken
  BY <1>1 DEF TypeInv, TypeOK, Verified
<1>7. 0 \in 0 .. now /\ now \in Nat
  BY SessionBounds DEF TypeInv, TypeOK
<1> QED
  BY <1>1, <1>2, <1>4, <1>5, <1>6, <1>7 DEF TypeInv, TypeOK

\* A server that goes on to another query keeps its token.
LEMMA ContinueTypes ==
  ASSUME TypeInv, NEW s \in Servers, NEW next, Continue(s, next),
         step[s] \in Verified \cup {"verify"},
         next \in {"user", "blacklist", "issue", "logout"},
         next \in Rotating => step[s] \in Rotating,
         UNCHANGED <<now, tokens, account, told, ended, refused, lost, toggles>>,
         blacklisted' \subseteq Issued, overlapped' \subseteq told
  PROVE  TypeInv'
<1>1. /\ step' = [step EXCEPT ![s] = next]
      /\ UNCHANGED <<token, taken, admitted, active, locked, exposed>>
  BY DEF Continue, account
<1>2. Issued' = Issued
  BY SameTokens
<1>3. Rotators' \subseteq Rotators
  BY <1>1 DEF Rotators, TypeInv, TypeOK
<1>4. Len(tokens') + Cardinality(Rotators') <= MaxTokens
  BY <1>3, RoomStays DEF TypeInv, TypeOK
<1>5. \A u, v \in Servers :
        step'[u] = "respond" /\ step'[v] = "respond" /\ token'[u] = token'[v]
          => u = v
  BY <1>1 DEF TypeInv, TypeOK
<1>6. \A u \in Servers :
        /\ step'[u] \in Verified \cup {"verify"} => token'[u] \in told
        /\ step'[u] = "respond" => token'[u] \in Issued \ told
        /\ step'[u] = "idle" => token'[u] = NoToken
  BY <1>1 DEF TypeInv, TypeOK, Verified
<1>7. step' \in [Servers -> {"idle", "respond", "profile"}
                            \cup Rotating \cup LoggingOut]
  BY <1>1 DEF TypeInv, TypeOK, Rotating, LoggingOut
<1> QED
  BY <1>1, <1>2, <1>4, <1>5, <1>6, <1>7 DEF TypeInv, TypeOK

\* A free server takes a request that concerns a token the client has, or none.
LEMMA ReceiveTypes ==
  ASSUME TypeInv, NEW s \in Servers, NEW t, NEW next, Receive(s, t, next),
         \/ t \in told /\ next \in {"user", "verify"}
         \/ t = NoToken /\ next \in {"issue", "profile"},
         next \in Rotating => Room,
         TakesTime(s) \/ UNCHANGED taken,
         UNCHANGED <<now, tokens, account, blacklisted, told, ended, refused,
                     lost, toggles>>,
         overlapped' \subseteq told
  PROVE  TypeInv'
<1>1. /\ step' = [step EXCEPT ![s] = next] /\ token' = [token EXCEPT ![s] = t]
      /\ UNCHANGED <<admitted, active, locked, exposed>> /\ step[s] = "idle"
  BY DEF Receive, account
<1>2. Issued' = Issued /\ t \in Issued \cup {NoToken}
  BY SameTokens DEF TypeInv, TypeOK
<1>3. Len(tokens') + Cardinality(Rotators') <= MaxTokens
  <2>1. CASE next \in Rotating
    <3>1. Rotators' \subseteq Rotators \cup {s}
      BY <1>1 DEF Rotators, TypeInv, TypeOK
    <3> QED
      BY <2>1, <3>1, RoomIsTaken DEF TypeInv, TypeOK
  <2>2. CASE next \notin Rotating
    <3>1. Rotators' \subseteq Rotators
      BY <1>1, <2>2 DEF Rotators, TypeInv, TypeOK
    <3> QED
      BY <3>1, RoomStays DEF TypeInv, TypeOK
  <2> QED
    BY <2>1, <2>2
<1>4. taken' \in [Servers -> 0 .. now]
  <2>1. taken \in [Servers -> 0 .. now] /\ now \in 0 .. now
    BY SessionBounds DEF TypeInv, TypeOK
  <2>2. taken' = [taken EXCEPT ![s] = now] \/ taken' = taken
    BY DEF TakesTime
  <2> QED
    BY ONLY <2>1, <2>2
<1>5. \A u, v \in Servers :
        step'[u] = "respond" /\ step'[v] = "respond" /\ token'[u] = token'[v]
          => u = v
  BY <1>1 DEF TypeInv, TypeOK
<1>6. \A u \in Servers :
        /\ step'[u] \in Verified \cup {"verify"} => token'[u] \in told
        /\ step'[u] = "respond" => token'[u] \in Issued \ told
        /\ step'[u] = "idle" => token'[u] = NoToken
  BY <1>1 DEF TypeInv, TypeOK, Verified
<1>7. step' \in [Servers -> {"idle", "respond", "profile"}
                            \cup Rotating \cup LoggingOut]
  BY <1>1 DEF TypeInv, TypeOK, Rotating, LoggingOut
<1> QED
  BY <1>1, <1>2, <1>3, <1>4, <1>5, <1>6, <1>7 DEF TypeInv, TypeOK

\* Every step keeps the types; only the issue of a token adds to them.
LEMMA TypeInvStep == TypeInv /\ [Next]_vars => TypeInv'
<1> SUFFICES ASSUME TypeInv, [Next]_vars PROVE TypeInv'
  OBVIOUS
<1>a. /\ tokens \in Seq(Tokens) /\ now \in Nat /\ told \subseteq Issued
      /\ blacklisted \subseteq Issued /\ overlapped \subseteq told
      /\ refused \subseteq told /\ active \in BOOLEAN
      /\ ended \in [Ids -> 0 .. now \cup {Never}]
      /\ lost \in Nat /\ toggles \in Nat
      /\ \A s \in Servers :
           /\ step[s] \in Verified \cup {"verify"} => token[s] \in told
           /\ step[s] = "respond" => token[s] \in Issued \ told
  BY SessionBounds DEF TypeInv, TypeOK
<1>b. ASSUME NEW t \in Issued PROVE t \in Ids /\ SessionOf(t) \in Ids
  <2>1. Issued = 1 .. Len(tokens) /\ Len(tokens) <= MaxTokens
        /\ Len(tokens) \in Nat
    BY DEF TypeInv, TypeOK, Issued
  <2>2. tokens[t] \in Tokens
    BY <2>1, <1>a
  <2> QED
    BY <2>1, <2>2, SessionBounds DEF Ids, SessionOf, Tokens
<1>c. \A t \in told : NoteOverlap(t) => overlapped' \subseteq told
  BY <1>a DEF NoteOverlap
<1>1. CASE TimePasses
  <2>1. now \in 0 .. now' /\ now' \in 0 .. MaxTime /\ 0 .. now \subseteq 0 .. now'
    BY <1>1, <1>a, SessionBounds DEF TimePasses
  <2>2. /\ taken' \in [Servers -> 0 .. now']
        /\ ended' \in [Ids -> 0 .. now' \cup {Never}]
    BY <1>1, <2>1 DEF TimePasses, requests, history, TypeInv, TypeOK
  <2> QED
    BY <1>1, <2>1, <2>2, SameTokens
    DEF TimePasses, account, requests, history, TypeInv, TypeOK, Rotators
<1>2. CASE ToggleUser
  BY <1>2, SameTokens DEF ToggleUser, TypeInv, TypeOK, Rotators
<1>3. ASSUME NEW s \in Servers, LoginAuthenticates(s) PROVE TypeInv'
  BY <1>3, <1>a, ReceiveTypes DEF LoginAuthenticates, history
<1>4. ASSUME NEW s \in Servers, NEW t \in told, RefreshVerifies(s, t)
      PROVE  TypeInv'
  BY <1>4, <1>a, <1>c, ReceiveTypes DEF RefreshVerifies, After
<1>5. ASSUME NEW s \in Servers, RefreshChecksUser(s) PROVE TypeInv'
  <2>1. CASE Continue(s, After("user"))
    BY <1>5, <1>a, <2>1, ContinueTypes
    DEF RefreshChecksUser, After, Verified, Rotating, history
  <2>2. CASE Answer(s)
    BY <1>5, <1>a, <2>2, AnswerTypes DEF RefreshChecksUser, history, account
  <2> QED
    BY <1>5, <2>1, <2>2 DEF RefreshChecksUser
<1>6. ASSUME NEW s \in Servers, RefreshBlacklists(s) PROVE TypeInv'
  BY <1>6, <1>a, ContinueTypes
  DEF RefreshBlacklists, After, Spend, Verified, Rotating, history
<1>7. ASSUME NEW s \in Servers, IssuesToken(s) PROVE TypeInv'
  <2> DEFINE id == Len(tokens) + 1
  <2>1. /\ Issued' = Issued \cup {id} /\ id \notin Issued
        /\ tokens' \in Seq(Tokens) /\ Len(tokens') = id
        /\ id + Cardinality(Rotators') <= MaxTokens
        /\ id \in 1 .. MaxTokens
    BY <1>7, TokenIsIssued DEF Ids
  <2>2. /\ step' = [step EXCEPT ![s] = "respond"]
        /\ token' = [token EXCEPT ![s] = id]
        /\ taken' = [taken EXCEPT ![s] = 0]
        /\ UNCHANGED <<now, account, blacklisted, told, admitted, history>>
        /\ step[s] = "issue"
    BY <1>7 DEF IssuesToken
  <2>3. \A u, v \in Servers :
          step'[u] = "respond" /\ step'[v] = "respond" /\ token'[u] = token'[v]
            => u = v
    BY <2>1, <2>2 DEF TypeInv, TypeOK
  <2>4. \A u \in Servers :
          /\ step'[u] \in Verified \cup {"verify"} => token'[u] \in told
          /\ step'[u] = "respond" => token'[u] \in Issued' \ told
          /\ step'[u] = "idle" => token'[u] = NoToken
    BY <1>a, <2>1, <2>2 DEF TypeInv, TypeOK, Verified
  <2>5. /\ token' \in [Servers -> Issued' \cup {NoToken}]
        /\ step' \in [Servers -> {"idle", "respond", "profile"}
                                 \cup Rotating \cup LoggingOut]
        /\ taken' \in [Servers -> 0 .. now]
    BY <1>a, <2>1, <2>2 DEF TypeInv, TypeOK
  <2>6. Len(tokens') <= MaxTokens
    BY <2>1
  <2> HIDE DEF id
  <2> QED
    BY <2>1, <2>2, <2>3, <2>4, <2>5, <2>6 DEF TypeInv, TypeOK, account, history
<1>8. ASSUME NEW s \in Servers, Responds(s) PROVE TypeInv'
  <2>1. \A u \in Servers \ {s} : step[u] = "respond" => token[u] \notin told'
    BY <1>8, <1>a DEF Responds, TypeInv
  <2> QED
    BY <1>8, <1>a, <2>1, AnswerTypes DEF Responds, history, account
<1>9. ASSUME NEW s \in Servers, NEW t \in told, LogoutAuthenticates(s, t)
      PROVE  TypeInv'
  BY <1>9, <1>a, ReceiveTypes DEF LogoutAuthenticates, history, Rotating
<1>10. ASSUME NEW s \in Servers, LogoutVerifies(s) PROVE TypeInv'
  <2>1. token[s] \in told /\ step[s] = "verify"
    BY <1>10, <1>a DEF LogoutVerifies
  <2>2. CASE Good(token[s])
    BY <1>10, <1>a, <1>c, <2>1, <2>2, ContinueTypes DEF LogoutVerifies, Rotating
  <2>3. CASE ~Good(token[s])
    BY <1>10, <1>a, <2>1, <2>3, AnswerTypes DEF LogoutVerifies, account
  <2> QED
    BY <2>2, <2>3
<1>11. ASSUME NEW s \in Servers, LogoutBlacklists(s) PROVE TypeInv'
  <2>1. token[s] \in Issued
    BY <1>11, <1>a DEF LogoutBlacklists, Verified
  <2>2. ended' \in [Ids -> 0 .. now \cup {Never}]
    <3>1. now \in 0 .. now
      BY <1>a
    <3> QED
      BY <1>11, <1>a, <3>1 DEF LogoutBlacklists
  <2> QED
    BY <1>11, <1>a, <2>1, <2>2, AnswerTypes DEF LogoutBlacklists, account
<1>12. ASSUME NEW s \in Servers, ProfileLoads(s) PROVE TypeInv'
  BY <1>12, <1>a, ReceiveTypes DEF ProfileLoads, history, Rotating
<1>13. ASSUME NEW s \in Servers, ProfileSaves(s) PROVE TypeInv'
  BY <1>13, <1>a, AnswerTypes DEF ProfileSaves, history
<1>14. ASSUME NEW s \in Servers, ServerLost(s) PROVE TypeInv'
  BY <1>14, <1>a, AnswerTypes DEF ServerLost, account
<1>15. CASE UNCHANGED vars
  BY <1>15, SameTokens
  DEF vars, account, requests, history, TypeInv, TypeOK, Rotators
<1> QED
  BY <1>1, <1>2, <1>3, <1>4, <1>5, <1>6, <1>7, <1>8, <1>9, <1>10, <1>11,
     <1>12, <1>13, <1>14, <1>15
  DEF Next, Serve

\* Every reachable state is well typed; in particular every request has room
\* for its token, and works on a token the client had been told of.
THEOREM SessionsTypeCorrect == Spec => []TypeOK
<1>1. TypeInv => TypeOK
  BY DEF TypeInv
<1> QED
  BY <1>1, TypeInvInit, TypeInvStep, PTL DEF Spec

------------------------------------------------------------------------------
(* Deactivation.                                                           *)

\* The inductive invariant: while the administrator's last word stands, no
\* update of the profile is in flight either.
LockedInv ==
  locked /\ ~exposed =>
    /\ ~active
    /\ \A s \in Servers : step[s] # "profile" /\ (PastTheCheck(s) => s \in admitted)

\* The inductive step: nobody comes past the check of an account that is shut,
\* and nobody makes it active but an update that had loaded it before.
LEMMA LockedStep == TypeOK /\ LockedInv /\ [Next]_vars => LockedInv'
<1> SUFFICES ASSUME TypeOK, LockedInv, [Next]_vars PROVE LockedInv'
  OBVIOUS
<1> USE DEF LockedInv, PastTheCheck, TypeOK
<1>1. CASE TimePasses
  BY <1>1 DEF TimePasses, account, requests
<1>2. CASE ToggleUser
  BY <1>2 DEF ToggleUser
<1>3. ASSUME NEW s \in Servers,
             \/ LoginAuthenticates(s)
             \/ \E t \in told : RefreshVerifies(s, t) \/ LogoutAuthenticates(s, t)
             \/ ProfileLoads(s)
      PROVE  LockedInv'
  BY <1>3
  DEF LoginAuthenticates, RefreshVerifies, LogoutAuthenticates, ProfileLoads,
      Receive, MayEnter, IsAuthenticated, After, account
<1>4. ASSUME NEW s \in Servers, Answer(s), UNCHANGED account PROVE LockedInv'
  BY <1>4 DEF Answer, account
<1>5. ASSUME NEW s \in Servers, RefreshChecksUser(s) PROVE LockedInv'
  BY <1>5, <1>4 DEF RefreshChecksUser, Continue, MayEnter, After, account
<1>6. ASSUME NEW s \in Servers, RefreshBlacklists(s) PROVE LockedInv'
  BY <1>6 DEF RefreshBlacklists, Continue, After, account
<1>7. ASSUME NEW s \in Servers, IssuesToken(s) PROVE LockedInv'
  BY <1>7 DEF IssuesToken, account
<1>8. ASSUME NEW s \in Servers, LogoutVerifies(s) PROVE LockedInv'
  BY <1>8, <1>4 DEF LogoutVerifies, Continue, account
<1>9. ASSUME NEW s \in Servers, ProfileSaves(s) PROVE LockedInv'
  BY <1>9 DEF ProfileSaves, Answer
<1>10. CASE UNCHANGED vars
  BY <1>10 DEF vars, account, requests
<1> QED
  BY <1>1, <1>2, <1>3, <1>4, <1>5, <1>6, <1>7, <1>8, <1>9, <1>10
  DEF Next, Serve, Responds, LogoutBlacklists, ServerLost

\* A deactivated account stays shut, and no request is on its way to a token
\* that had not looked at the account before.
THEOREM DeactivationLocksOut == Spec => []LockedOut
<1>1. Init => LockedInv
  BY DEF Init, LockedInv
<1>2. LockedInv => LockedOut
  BY DEF LockedInv, LockedOut
<1> QED
  BY <1>1, <1>2, LockedStep, SessionsTypeCorrect, PTL DEF Spec

------------------------------------------------------------------------------
(* Exchanges.                                                              *)

\* Requests that may still exchange or end a token.
Working(s) == step[s] \in Verified \cup {"issue"}

\* The inductive invariant: parents were issued; of the requests that verified
\* a token, there is one unless they overlapped, and what is exchanged was
\* blacklisted before.
ExchangeInv ==
  /\ \A t \in Issued : tokens[t].parent \in Issued \cup {NoToken}
  /\ \A t \in Issued \ overlapped :
       /\ \A s, u \in Servers :
            Working(s) /\ Working(u) /\ token[s] = t /\ token[u] = t => s = u
       /\ \A s \in Servers : token[s] = t =>
            /\ step[s] \in Verified => t \notin blacklisted
            /\ step[s] = "issue" => t \in blacklisted /\ Successors(t) = {}
       /\ t \notin blacklisted => Successors(t) = {}
       /\ \A n, m \in Successors(t) : n = m

\* Steps that exchange nothing and verify nothing.
LEMMA ExchangeStays ==
  ASSUME ExchangeInv, UNCHANGED <<tokens, blacklisted>>,
         overlapped \subseteq overlapped',
         \A s \in Servers : Working(s)' /\ token'[s] \in Issued =>
           /\ Working(s) /\ token'[s] = token[s]
           /\ step'[s] = "issue" <=> step[s] = "issue"
  PROVE  ExchangeInv'
<1>1. Issued' = Issued /\ \A t : Successors(t)' = Successors(t)
  BY DEF Issued, Successors
<1>2. "issue" \notin Verified
  BY DEF Verified
<1> QED
  BY <1>1, <1>2 DEF ExchangeInv, Working

\* A token that is good was not exchanged; verifying it once more while a
\* request has it is an overlap.
LEMMA ExchangeVerifies ==
  ASSUME TypeOK, ExchangeInv, NEW s \in Servers, NEW t \in Issued,
         Good(t), NoteOverlap(t), UNCHANGED <<tokens, blacklisted>>,
         step' = [step EXCEPT ![s] = "user"] \/ step' = [step EXCEPT ![s] = "logout"],
         token' = [token EXCEPT ![s] = t]
  PROVE  ExchangeInv'
<1>1. Issued' = Issued /\ \A n : Successors(n)' = Successors(n)
  BY DEF Issued, Successors
<1>2. overlapped' = IF Shared(t) THEN overlapped \cup {t} ELSE overlapped
  BY DEF NoteOverlap
<1>3. t \notin overlapped' =>
        \A u \in Servers : Working(u) => token[u] # t
  BY <1>2 DEF Good, ExchangeInv, Working, Shared
<1>4. t \notin blacklisted
  BY DEF Good
<1>5. /\ step'[s] \in Verified /\ step'[s] # "issue" /\ token'[s] = t
      /\ \A u \in Servers \ {s} : step'[u] = step[u] /\ token'[u] = token[u]
  BY DEF TypeOK, Verified
<1>6. overlapped \subseteq overlapped'
  BY <1>2
<1> QED
  BY <1>1, <1>3, <1>4, <1>5, <1>6 DEF ExchangeInv, Working

\* The inductive step: a token is blacklisted before its successor is issued, so
\* whoever verifies it later fails.
LEMMA ExchangeStep == TypeInv /\ ExchangeInv /\ [Next]_vars => ExchangeInv'
<1> SUFFICES ASSUME TypeInv, TypeOK, ExchangeInv, [Next]_vars PROVE ExchangeInv'
  BY DEF TypeInv
<1>a. \A s \in Servers : step[s] \in Verified \cup {"verify"} => token[s] \in told
  BY DEF TypeOK
<1>b. told \subseteq Issued /\ NoToken \notin Issued
  BY DEF TypeOK, Issued, NoToken
<1>c. ASSUME NEW s \in Servers, Answer(s), UNCHANGED <<tokens, blacklisted, overlapped>>
      PROVE  ExchangeInv'
  BY <1>c, ExchangeStays DEF Answer, Working, Verified, TypeOK
<1>d. ASSUME NEW s \in Servers, NEW t, NEW next, Receive(s, t, next),
             next \in {"verify", "profile"} \/ t = NoToken,
             UNCHANGED <<tokens, blacklisted, overlapped>>
      PROVE  ExchangeInv'
  BY <1>b, <1>d, ExchangeStays DEF Receive, Working, Verified, TypeOK
<1>1. CASE TimePasses
  BY <1>1, ExchangeStays DEF TimePasses, requests, history, Working
<1>2. CASE ToggleUser
  BY <1>2, ExchangeStays DEF ToggleUser, Working
<1>3. ASSUME NEW s \in Servers, LoginAuthenticates(s) PROVE ExchangeInv'
  BY <1>3, <1>d DEF LoginAuthenticates, history
<1>4. ASSUME NEW s \in Servers, NEW t \in told, RefreshVerifies(s, t)
      PROVE  ExchangeInv'
  BY <1>4, <1>b, ExchangeVerifies DEF RefreshVerifies, Receive, After
<1>5. ASSUME NEW s \in Servers, RefreshChecksUser(s) PROVE ExchangeInv'
  <2>1. CASE Continue(s, "blacklist")
    BY <1>5, <2>1, ExchangeStays
    DEF RefreshChecksUser, Continue, Working, Verified, TypeOK, history
  <2>2. CASE Answer(s)
    BY <1>5, <2>2, <1>c DEF RefreshChecksUser, history
  <2> QED
    BY <1>5, <2>1, <2>2 DEF RefreshChecksUser, After
<1>6. ASSUME NEW s \in Servers, RefreshBlacklists(s) PROVE ExchangeInv'
  <2>1. /\ step[s] = "blacklist" /\ step' = [step EXCEPT ![s] = "issue"]
        /\ blacklisted' = blacklisted \cup {token[s]}
        /\ UNCHANGED <<token, tokens, overlapped>>
    BY <1>6 DEF RefreshBlacklists, Continue, After, Spend, history
  <2>2. Issued' = Issued /\ \A t : Successors(t)' = Successors(t)
    BY <2>1 DEF Issued, Successors
  <2>3. \A u \in Servers \ {s} : step'[u] = step[u]
    BY <2>1 DEF TypeOK
  <2>4. step'[s] = "issue" /\ step[s] \in Verified /\ "issue" \notin Verified
    BY <2>1 DEF TypeOK, Verified
  <2> QED
    BY <2>1, <2>2, <2>3, <2>4 DEF ExchangeInv, Working
<1>7. ASSUME NEW s \in Servers, IssuesToken(s) PROVE ExchangeInv'
  <2>0. PICK id : id = Len(tokens) + 1
    OBVIOUS
  <2>1. /\ id \notin Issued /\ Issued' = Issued \cup {id}
        /\ \A t \in Issued : tokens'[t] = tokens[t]
        /\ tokens'[id].parent = token[s]
    BY <1>7, <2>0, TokenIsIssued
  <2>2. /\ step[s] = "issue" /\ step' = [step EXCEPT ![s] = "respond"]
        /\ token' = [token EXCEPT ![s] = id]
        /\ UNCHANGED <<blacklisted, overlapped>>
    BY <1>7, <2>0 DEF IssuesToken, history
  <2>3. token[s] \in Issued \cup {NoToken} /\ blacklisted \subseteq Issued
    BY DEF TypeOK
  <2>4. \A t \in Issued' :
          Successors(t)' = IF t = token[s] THEN Successors(t) \cup {id}
                           ELSE Successors(t)
    BY <2>1 DEF Successors
  <2>5. Successors(id) = {} /\ id # NoToken
    <3>1. id # NoToken
      BY <2>0 DEF TypeOK, NoToken
    <3> QED
      BY <2>1, <3>1 DEF ExchangeInv, Successors
  <2>6. \A u \in Servers : Working(u)' =>
          u # s /\ Working(u) /\ step'[u] = step[u] /\ token'[u] = token[u]
    BY <2>2 DEF Working, Verified, TypeOK
  <2>7. \A u \in Servers : token[u] # id
    BY <2>1, <2>5 DEF TypeOK
  <2>8. Working(s) /\ "issue" \notin Verified
    BY <2>2 DEF Working, Verified
  <2>9. ASSUME NEW t \in Issued \ overlapped
        PROVE  /\ \A u \in Servers : Working(u)' /\ token'[u] = t =>
                    /\ step'[u] \in Verified => t \notin blacklisted'
                    /\ step'[u] = "issue" =>
                         t \in blacklisted' /\ Successors(t)' = {}
               /\ t \notin blacklisted' => Successors(t)' = {}
               /\ \A n, m \in Successors(t)' : n = m
    BY <2>1, <2>2, <2>4, <2>6, <2>8, <2>9 DEF ExchangeInv
  <2>10. \A u \in Servers : Working(u)' => token'[u] # id
    BY <2>6, <2>7
  <2>11. id \notin blacklisted' /\ Successors(id)' = {}
    BY <2>1, <2>2, <2>3, <2>4, <2>5, <2>7
  <2>12. \A t \in Issued' : tokens'[t].parent \in Issued' \cup {NoToken}
    BY <2>1, <2>3 DEF ExchangeInv
  <2>13. \A t \in Issued \ overlapped : \A u, v \in Servers :
           Working(u)' /\ Working(v)' /\ token'[u] = t /\ token'[v] = t => u = v
    BY <2>6 DEF ExchangeInv
  <2>14. ASSUME NEW t \in Issued' \ overlapped'
         PROVE  /\ \A u, v \in Servers : Working(u)' /\ Working(v)'
                     /\ token'[u] = t /\ token'[v] = t => u = v
                /\ \A u \in Servers : token'[u] = t =>
                     /\ step'[u] \in Verified => t \notin blacklisted'
                     /\ step'[u] = "issue" =>
                          t \in blacklisted' /\ Successors(t)' = {}
                /\ t \notin blacklisted' => Successors(t)' = {}
                /\ \A n, m \in Successors(t)' : n = m
    <3>1. \A u \in Servers : step'[u] \in Verified \cup {"issue"} => Working(u)'
      BY DEF Working
    <3>2. CASE t = id
      BY <2>10, <2>11, <3>1, <3>2
    <3>3. CASE t \in Issued \ overlapped
      BY <2>9, <2>13, <3>1, <3>3
    <3> QED
      BY <2>1, <2>2, <3>2, <3>3
  <2> QED
    BY <2>12, <2>14 DEF ExchangeInv
<1>8. ASSUME NEW s \in Servers, LogoutVerifies(s) PROVE ExchangeInv'
  <2>1. CASE Good(token[s])
    <3>1. token' = [token EXCEPT ![s] = token[s]] /\ token[s] \in Issued
      BY <1>8, <2>1, <1>a, <1>b DEF LogoutVerifies, Continue, TypeOK
    <3> QED
      BY <1>8, <2>1, <3>1, ExchangeVerifies DEF LogoutVerifies, Continue
  <2>2. CASE ~Good(token[s])
    BY <1>8, <2>2, <1>c DEF LogoutVerifies
  <2> QED
    BY <2>1, <2>2
<1>9. ASSUME NEW s \in Servers, LogoutBlacklists(s) PROVE ExchangeInv'
  <2>1. /\ step[s] = "logout" /\ step' = [step EXCEPT ![s] = "idle"]
        /\ blacklisted' = blacklisted \cup {token[s]}
        /\ token' = [token EXCEPT ![s] = NoToken]
        /\ UNCHANGED <<tokens, overlapped>>
    BY <1>9 DEF LogoutBlacklists, Answer
  <2>2. Issued' = Issued /\ \A t : Successors(t)' = Successors(t)
    BY <2>1 DEF Issued, Successors
  <2>3. \A u \in Servers \ {s} : step'[u] = step[u] /\ token'[u] = token[u]
    BY <2>1 DEF TypeOK
  <2>4. step'[s] = "idle" /\ step[s] \in Verified /\ "idle" \notin Verified
    BY <2>1 DEF TypeOK, Verified
  <2> QED
    BY <2>1, <2>2, <2>3, <2>4 DEF ExchangeInv, Working
<1>10. ASSUME NEW s \in Servers,
              \/ \E t \in told : LogoutAuthenticates(s, t)
              \/ ProfileLoads(s)
       PROVE  ExchangeInv'
  BY <1>10, <1>d DEF LogoutAuthenticates, ProfileLoads, history
<1>11. ASSUME NEW s \in Servers, Responds(s) \/ ProfileSaves(s) \/ ServerLost(s)
       PROVE  ExchangeInv'
  BY <1>11, <1>c DEF Responds, ProfileSaves, ServerLost, history
<1>12. CASE UNCHANGED vars
  BY <1>12, ExchangeStays DEF vars, requests, history, Working
<1> QED
  BY <1>1, <1>2, <1>3, <1>4, <1>5, <1>6, <1>7, <1>8, <1>9, <1>10, <1>11, <1>12
  DEF Next, Serve

\* No token to begin with.
LEMMA ExchangeInit == Init => ExchangeInv
  BY DEF Init, ExchangeInv, Issued

\* A set whose members are all the same has one member at most.
LEMMA OneAtMost ==
  ASSUME NEW S, \A n, m \in S : n = m
  PROVE  Cardinality(S) <= 1
<1>1. CASE S = {}
  BY <1>1, FS_EmptySet
<1>2. CASE S # {}
  <2>1. PICK n \in S : TRUE
    BY <1>2
  <2>2. S = {n}
    BY <2>1
  <2>3. Cardinality(S) = 1
    BY <2>2, FS_Singleton
  <2> QED
    BY <2>3
<1> QED
  BY <1>1, <1>2

\* Rotation exchanges a token once, unless two requests had verified it before
\* either had blacklisted it.
THEOREM TokensAreExchangedOnce == Spec => []ExchangedOnce
<1>1. ExchangeInv => ExchangedOnce
  BY OneAtMost DEF ExchangeInv, ExchangedOnce
<1> QED
  BY <1>1, ExchangeInit, ExchangeStep, TypeInvInit, TypeInvStep, PTL DEF Spec

------------------------------------------------------------------------------
(* Logout.                                                                 *)

\* Requests that are about to prolong session c.
Prolongs(s, c) == step[s] = "issue" /\ token[s] \in InSession(c)

Alone(c) == InSession(c) \cap overlapped = {}

\* The inductive invariant: of a session whose requests did not overlap, one
\* thing at most can go on, either a token that is not blacklisted or a request
\* that prolongs it; after a logout nothing can.
EndInv ==
  /\ \A t \in Issued : /\ SessionOf(t) \in Issued
                       /\ tokens[t].access <= now + AccessLifetime
  /\ \A c \in Ids \ Issued : ended[c] = Never
  /\ \A c \in Issued : Alone(c) =>
       /\ \A t, u \in InSession(c) :
            t \notin blacklisted /\ u \notin blacklisted => t = u
       /\ \A s \in Servers : Prolongs(s, c) => InSession(c) \subseteq blacklisted
       /\ \A s, u \in Servers : Prolongs(s, c) /\ Prolongs(u, c) => s = u
       /\ ended[c] # Never =>
            /\ InSession(c) \subseteq blacklisted
            /\ \A s \in Servers : ~Prolongs(s, c)
            /\ \A t \in InSession(c) :
                 tokens[t].access <= ended[c] + AccessLifetime

\* The tokens' expiries and the clock are numbers.
LEMMA ExpiriesAreNumbers ==
  ASSUME TypeOK
  PROVE  /\ now \in Nat /\ AccessLifetime \in Nat /\ Issued \subseteq Ids
         /\ Issued \subseteq Nat \ {0}
         /\ \A t \in Issued : tokens[t] \in Tokens /\ tokens[t].access \in Nat
<1>1. /\ tokens \in Seq(Tokens) /\ Len(tokens) \in Nat /\ Issued = 1 .. Len(tokens)
      /\ now \in Nat /\ AccessLifetime \in Nat /\ Len(tokens) <= MaxTokens
  BY SessionBounds DEF TypeOK, Issued
<1>2. ASSUME NEW t \in Issued PROVE tokens[t] \in Tokens /\ tokens[t].access \in Nat
  <2>1. tokens[t] \in Tokens
    BY <1>1
  <2> QED
    BY <2>1 DEF Tokens
<1>3. Issued \subseteq Ids
  BY <1>1, SessionBounds DEF Ids
<1> QED
  BY <1>1, <1>2, <1>3

\* Steps that neither blacklist nor issue, nor end a session.
LEMMA EndStays ==
  ASSUME TypeOK, EndInv, UNCHANGED <<tokens, blacklisted, ended>>,
         overlapped \subseteq overlapped', now <= now', now' \in Nat,
         \A s \in Servers : step'[s] = "issue" /\ token'[s] \in Issued =>
           step[s] = "issue" /\ token'[s] = token[s]
  PROVE  EndInv'
<1>1. /\ Issued' = Issued /\ \A t : SessionOf(t)' = SessionOf(t)
      /\ \A c : InSession(c)' = InSession(c)
  BY DEF Issued, SessionOf, InSession
<1>2. \A c : Alone(c)' => Alone(c)
  BY <1>1 DEF Alone
<1>3. \A s \in Servers : \A c : Prolongs(s, c)' => Prolongs(s, c)
  BY <1>1 DEF Prolongs, InSession
<1>4. \A t \in Issued : tokens'[t].access <= now' + AccessLifetime
  BY ExpiriesAreNumbers DEF EndInv
<1> QED
  BY <1>1, <1>2, <1>3, <1>4 DEF EndInv

\* A request that has verified its token, in a session where no requests
\* overlapped, works on the one thing that can go on.
LEMMA VerifiedIsTheLastOne ==
  ASSUME TypeOK, ExchangeInv, EndInv,
         NEW s \in Servers, step[s] \in Verified,
         NEW c \in Issued, token[s] \in InSession(c), Alone(c)
  PROVE  /\ token[s] \notin blacklisted
         /\ InSession(c) \subseteq blacklisted \cup {token[s]}
         /\ \A u \in Servers : ~Prolongs(u, c)
         /\ ended[c] = Never
<1>1. token[s] \in Issued \ overlapped
  BY DEF Alone, InSession
<1>2. token[s] \notin blacklisted
  BY <1>1 DEF ExchangeInv
<1> QED
  BY <1>2 DEF EndInv

\* The inductive step: blacklisting and issuing pass the one thing on that can
\* go on, a logout ends it.
LEMMA EndStep ==
  TypeInv /\ ExchangeInv /\ EndInv /\ [Next]_vars => EndInv'
<1> SUFFICES ASSUME TypeInv, TypeOK, ExchangeInv, EndInv, [Next]_vars PROVE EndInv'
  BY DEF TypeInv
<1>a. now \in Nat /\ now <= now /\ NoToken \notin Issued
  BY ExpiriesAreNumbers DEF NoToken
<1>b. ASSUME NEW s \in Servers, Answer(s),
             UNCHANGED <<now, tokens, blacklisted, ended>>,
             overlapped \subseteq overlapped'
      PROVE  EndInv'
  BY <1>a, <1>b, EndStays DEF Answer, TypeOK
<1>c. ASSUME NEW s \in Servers, NEW t, NEW next, Receive(s, t, next),
             next # "issue" \/ t = NoToken,
             UNCHANGED <<now, tokens, blacklisted, ended>>,
             overlapped \subseteq overlapped'
      PROVE  EndInv'
  BY <1>a, <1>c, EndStays DEF Receive, TypeOK
<1>d. ASSUME NEW s \in Servers, NEW next, Continue(s, next), next # "issue",
             UNCHANGED <<now, tokens, blacklisted, ended>>,
             overlapped \subseteq overlapped'
      PROVE  EndInv'
  BY <1>a, <1>d, EndStays DEF Continue, TypeOK
<1>e. \A t : NoteOverlap(t) => overlapped \subseteq overlapped'
  BY DEF NoteOverlap
<1>1. CASE TimePasses
  <2>1. now <= now' /\ now' \in Nat
    BY <1>1, <1>a DEF TimePasses
  <2> QED
    BY <1>1, <2>1, EndStays DEF TimePasses, requests, history
<1>2. CASE ToggleUser
  BY <1>2, <1>a, EndStays DEF ToggleUser
<1>3. ASSUME NEW s \in Servers, LoginAuthenticates(s) PROVE EndInv'
  BY <1>3, <1>c DEF LoginAuthenticates, history
<1>4. ASSUME NEW s \in Servers, NEW t \in told, RefreshVerifies(s, t)
      PROVE  EndInv'
  BY <1>4, <1>c, <1>e DEF RefreshVerifies, After
<1>5. ASSUME NEW s \in Servers, RefreshChecksUser(s) PROVE EndInv'
  BY <1>5, <1>b, <1>d DEF RefreshChecksUser, After, history
<1>6. ASSUME NEW s \in Servers, RefreshBlacklists(s) PROVE EndInv'
  <2>1. /\ step[s] \in Verified /\ step' = [step EXCEPT ![s] = "issue"]
        /\ blacklisted' = blacklisted \cup {token[s]}
        /\ UNCHANGED <<now, token, tokens, overlapped, ended>>
    BY <1>6 DEF RefreshBlacklists, Continue, After, Spend, Verified, history
  <2>2. /\ Issued' = Issued /\ \A t : SessionOf(t)' = SessionOf(t)
        /\ \A c : InSession(c)' = InSession(c) /\ (Alone(c)' <=> Alone(c))
    BY <2>1 DEF Issued, SessionOf, InSession, Alone
  <2>3. \A u \in Servers : \A c :
          Prolongs(u, c)' <=> Prolongs(u, c) \/ (u = s /\ token[s] \in InSession(c))
    BY <2>1, <2>2 DEF Prolongs, TypeOK
  <2>4. ASSUME NEW c \in Issued, Alone(c), token[s] \in InSession(c)
        PROVE  /\ InSession(c) \subseteq blacklisted'
               /\ \A u \in Servers : Prolongs(u, c)' => u = s
               /\ ended[c] = Never
    BY <2>1, <2>3, <2>4, VerifiedIsTheLastOne
  <2>5. ASSUME NEW c \in Issued, Alone(c), token[s] \notin InSession(c)
        PROVE  /\ \A t \in InSession(c) : t \in blacklisted' <=> t \in blacklisted
               /\ \A u \in Servers : Prolongs(u, c)' <=> Prolongs(u, c)
    BY <2>1, <2>3, <2>5
  <2> QED
    BY <2>1, <2>2, <2>4, <2>5 DEF EndInv
<1>7. ASSUME NEW s \in Servers, IssuesToken(s) PROVE EndInv'
  <2>0. PICK id : id = Len(tokens) + 1
    OBVIOUS
  <2>1. /\ id \in Ids /\ id \notin Issued /\ Issued' = Issued \cup {id}
        /\ \A t \in Issued : tokens'[t] = tokens[t]
        /\ tokens'[id].session = IF token[s] = NoToken THEN id
                                 ELSE SessionOf(token[s])
        /\ tokens'[id].access = taken[s] + AccessLifetime
    BY <1>7, <2>0, TokenIsIssued
  <2>2. /\ step[s] = "issue" /\ step' = [step EXCEPT ![s] = "respond"]
        /\ token' = [token EXCEPT ![s] = id]
        /\ UNCHANGED <<now, blacklisted, overlapped, ended>>
    BY <1>7, <2>0 DEF IssuesToken, history
  <2>4. /\ \A t \in Issued : SessionOf(t)' = SessionOf(t)
        /\ SessionOf(id)' = tokens'[id].session
        /\ tokens'[id].session \in Issued'
    BY <2>1 DEF SessionOf, EndInv, TypeOK
  <2>5. \A c : InSession(c)' = IF c = tokens'[id].session
                               THEN InSession(c) \cup {id} ELSE InSession(c)
    BY <2>1, <2>4 DEF InSession
  <2>6. \A u \in Servers : \A c : Prolongs(u, c)' => u # s /\ Prolongs(u, c)
    <3>1. \A u \in Servers : token[u] # id
      BY <2>1 DEF TypeOK, Ids, NoToken
    <3>2. \A u \in Servers : step'[u] = "issue" =>
            u # s /\ step[u] = "issue" /\ token'[u] = token[u]
      BY <2>2 DEF TypeOK
    <3> QED
      BY <2>5, <3>1, <3>2 DEF Prolongs
  <2>7. \A c : Alone(c)' => Alone(c)
    BY <2>2, <2>5 DEF Alone
  <2>8. InSession(id) = {} /\ ended[id] = Never
    BY <2>1 DEF InSession, EndInv
  <2>9. \A t \in Issued' : tokens'[t].access <= now' + AccessLifetime
    <3>1. taken[s] \in Nat /\ taken[s] <= now
      BY <1>a DEF TypeOK
    <3> QED
      BY <2>1, <2>2, <3>1, <1>a, ExpiriesAreNumbers DEF EndInv
  <2>10. ASSUME NEW c \in Issued, Alone(c), c = tokens'[id].session
         PROVE  /\ InSession(c) \subseteq blacklisted
                /\ \A u \in Servers : Prolongs(u, c) => u = s
                /\ ended[c] = Never
    <3>1. Prolongs(s, c)
      BY <2>1, <2>2, <2>10 DEF Prolongs, InSession, TypeOK
    <3> QED
      BY <3>1, <2>10 DEF EndInv
  <2>11. ASSUME NEW c \in Issued', Alone(c)'
         PROVE  /\ \A t, u \in InSession(c)' :
                     t \notin blacklisted' /\ u \notin blacklisted' => t = u
                /\ \A u \in Servers :
                     Prolongs(u, c)' => InSession(c)' \subseteq blacklisted'
                /\ \A u, v \in Servers : Prolongs(u, c)' /\ Prolongs(v, c)' => u = v
                /\ ended'[c] # Never =>
                     /\ InSession(c)' \subseteq blacklisted'
                     /\ \A u \in Servers : ~Prolongs(u, c)'
                     /\ \A t \in InSession(c)' :
                          tokens'[t].access <= ended'[c] + AccessLifetime
    <3>1. CASE c = id
      BY <2>2, <2>5, <2>6, <2>8, <3>1 DEF Prolongs
    <3>2. CASE c \in Issued /\ c = tokens'[id].session
      BY <2>2, <2>5, <2>6, <2>7, <2>10, <2>11, <3>2
    <3>3. CASE c \in Issued /\ c # tokens'[id].session
      <4>1. InSession(c)' = InSession(c) /\ Alone(c) /\ InSession(c) \subseteq Issued
        BY <2>5, <2>7, <2>11, <3>3 DEF InSession
      <4> QED
        BY <2>1, <2>2, <2>6, <3>3, <4>1 DEF EndInv
    <3> QED
      BY <2>1, <3>1, <3>2, <3>3
  <2>12. \A t \in Issued' : SessionOf(t)' \in Issued'
    BY <2>1, <2>4 DEF EndInv
  <2>13. \A c \in Ids \ Issued' : ended'[c] = Never
    BY <2>1, <2>2 DEF EndInv
  <2> QED
    BY <2>9, <2>11, <2>12, <2>13 DEF EndInv
<1>8. ASSUME NEW s \in Servers, LogoutVerifies(s) PROVE EndInv'
  BY <1>8, <1>b, <1>d, <1>e DEF LogoutVerifies
<1>9. ASSUME NEW s \in Servers, LogoutBlacklists(s) PROVE EndInv'
  <2>1. /\ step[s] \in Verified /\ step' = [step EXCEPT ![s] = "idle"]
        /\ token' = [token EXCEPT ![s] = NoToken]
        /\ blacklisted' = blacklisted \cup {token[s]}
        /\ UNCHANGED <<now, tokens, overlapped>>
        /\ ended' = [ended EXCEPT ![SessionOf(token[s])] =
                       IF @ = Never THEN now ELSE @]
    BY <1>9 DEF LogoutBlacklists, Answer, Verified
  <2>2. /\ Issued' = Issued /\ \A t : SessionOf(t)' = SessionOf(t)
        /\ \A c : InSession(c)' = InSession(c) /\ (Alone(c)' <=> Alone(c))
    BY <2>1 DEF Issued, SessionOf, InSession, Alone
  <2>3. \A u \in Servers : \A c : Prolongs(u, c)' => Prolongs(u, c)
    BY <2>1, <2>2 DEF Prolongs, TypeOK
  <2>4. token[s] \in Issued /\ SessionOf(token[s]) \in Issued
    BY <2>1 DEF TypeOK, EndInv
  <2>5. \A c \in Ids : c # SessionOf(token[s]) => ended'[c] = ended[c]
    BY <2>1 DEF TypeOK
  <2>6. ASSUME NEW c \in Issued, Alone(c), c = SessionOf(token[s])
        PROVE  /\ InSession(c) \subseteq blacklisted'
               /\ \A u \in Servers : ~Prolongs(u, c)
               /\ ended'[c] = now
    <3>1. token[s] \in InSession(c) /\ c \in Ids
      BY <2>4, <2>6, ExpiriesAreNumbers DEF InSession
    <3> QED
      BY <2>1, <2>6, <3>1, VerifiedIsTheLastOne DEF TypeOK
  <2>7. ASSUME NEW c \in Issued, Alone(c), c # SessionOf(token[s])
        PROVE  /\ \A t \in InSession(c) : t \in blacklisted' <=> t \in blacklisted
               /\ ended'[c] = ended[c]
    BY <2>1, <2>5, <2>7, ExpiriesAreNumbers DEF InSession
  <2>8. \A c \in Ids \ Issued : ended'[c] = Never
    BY <2>4, <2>5 DEF EndInv
  <2>9. \A c : InSession(c) \subseteq Issued
    BY DEF InSession
  <2>10. ASSUME NEW c \in Issued, Alone(c)
         PROVE  /\ \A t, u \in InSession(c) :
                     t \notin blacklisted' /\ u \notin blacklisted' => t = u
                /\ \A u \in Servers :
                     Prolongs(u, c)' => InSession(c) \subseteq blacklisted'
                /\ \A u, v \in Servers : Prolongs(u, c)' /\ Prolongs(v, c)' => u = v
                /\ ended'[c] # Never =>
                     /\ InSession(c) \subseteq blacklisted'
                     /\ \A u \in Servers : ~Prolongs(u, c)'
                     /\ \A t \in InSession(c) :
                          tokens[t].access <= ended'[c] + AccessLifetime
    <3>1. CASE c = SessionOf(token[s])
      BY <2>3, <2>6, <2>9, <2>10, <3>1 DEF EndInv
    <3>2. CASE c # SessionOf(token[s])
      BY <2>3, <2>7, <2>10, <3>2 DEF EndInv
    <3> QED
      BY <3>1, <3>2
  <2> QED
    BY <2>1, <2>2, <2>8, <2>10 DEF EndInv
<1>10. ASSUME NEW s \in Servers,
              \/ \E t \in told : LogoutAuthenticates(s, t)
              \/ ProfileLoads(s)
       PROVE  EndInv'
  BY <1>10, <1>c DEF LogoutAuthenticates, ProfileLoads, history
<1>11. ASSUME NEW s \in Servers, Responds(s) \/ ProfileSaves(s) \/ ServerLost(s)
       PROVE  EndInv'
  BY <1>11, <1>b DEF Responds, ProfileSaves, ServerLost, history
<1>12. CASE UNCHANGED vars
  BY <1>12, <1>a, EndStays DEF vars, requests, history
<1> QED
  BY <1>1, <1>2, <1>3, <1>4, <1>5, <1>6, <1>7, <1>8, <1>9, <1>10, <1>11, <1>12
  DEF Next, Serve

\* Nothing is issued and nothing has ended.
LEMMA EndInit == Init => EndInv
  BY DEF Init, EndInv, Issued

\* A logout that succeeds ends its session, unless requests of the session
\* overlapped: no token of it is good, none is about to be issued, and its
\* access tokens expire within their lifetime.
THEOREM LogoutsEndSessions == Spec => []LogoutEndsSession
<1>1. TypeOK /\ ExchangeInv /\ EndInv => LogoutEndsSession
  <2> SUFFICES ASSUME TypeOK, ExchangeInv, EndInv,
                      NEW c \in Issued, ended[c] # Never, Alone(c)
               PROVE  /\ \A t \in InSession(c) :
                           ~Good(t) /\ tokens[t].access <= ended[c] + AccessLifetime
                      /\ \A s \in Servers :
                           step[s] \in {"blacklist", "issue"}
                             => token[s] \notin InSession(c)
    BY DEF LogoutEndsSession, Alone
  <2>1. \A s \in Servers : step[s] = "blacklist" => token[s] \notin InSession(c)
    BY VerifiedIsTheLastOne DEF Verified
  <2> QED
    BY <2>1 DEF EndInv, Good, Prolongs
<1> QED
  BY <1>1, ExchangeInit, ExchangeStep, EndInit, EndStep, TypeInvInit,
     TypeInvStep, SessionsTypeCorrect, PTL DEF Spec
------------------------------------------------------------------------------
(* What is lost with a response.                                           *)

\* Requests that owe the client a token, and the token each was spent for.
Pending(s) == step[s] \in {"issue", "respond"}
SpentBy(s) ==
  IF step[s] = "issue" THEN token[s] ELSE tokens[token[s]].parent

Owing == {s \in Servers : Pending(s)}
Awaited == {SpentBy(s) : s \in Owing}

\* The tokens that were spent, with no successor the client knows of.
Unanswered ==
  {t \in blacklisted : ended[SessionOf(t)] = Never /\ Successors(t) \cap told = {}}

\* The inductive invariant: where nobody is on the way with an answer, a
\* response or its server was lost.
SpentInv == Cardinality(Unanswered \ Awaited) <= lost

\* The tokens that are issued can be counted.
LEMMA SpentAreFinite ==
  ASSUME TypeOK
  PROVE  /\ IsFiniteSet(Unanswered) /\ IsFiniteSet(Unanswered \ Awaited)
         /\ Cardinality(Unanswered \ Awaited) \in Nat
<1>1. Issued = 1 .. Len(tokens) /\ Len(tokens) \in Nat
  BY DEF TypeOK, Issued
<1>2. IsFiniteSet(Issued)
  BY <1>1, FS_Interval
<1>3. Unanswered \subseteq Issued /\ Unanswered \ Awaited \subseteq Issued
  BY DEF Unanswered, TypeOK
<1> QED
  BY <1>2, <1>3, FS_Subset, FS_CardinalityType

\* Steps after which every token spent is answered, awaited, or was missing an
\* answer before.
LEMMA SpentStays ==
  ASSUME TypeOK, SpentInv, lost' = lost,
         \A t \in Unanswered' : t \in Unanswered \cup Awaited',
         \A s \in Servers : Pending(s) /\ SpentBy(s) \in Unanswered'
           => SpentBy(s) \in Awaited'
  PROVE  SpentInv'
<1>1. Unanswered' \ Awaited' \subseteq Unanswered \ Awaited
  BY DEF Awaited, Owing
<1>2. Cardinality(Unanswered' \ Awaited') <= Cardinality(Unanswered \ Awaited)
  BY <1>1, SpentAreFinite, FS_Subset
<1>3. Cardinality(Unanswered' \ Awaited') \in Nat
  BY <1>1, SpentAreFinite, FS_Subset, FS_CardinalityType
<1> QED
  BY <1>2, <1>3, SpentAreFinite DEF SpentInv, TypeOK

\* Requests that keep what they owe keep it awaited.
LEMMA PendingStays ==
  ASSUME NEW s \in Servers, Pending(s), Pending(s)', SpentBy(s)' = SpentBy(s)
  PROVE  SpentBy(s) \in Awaited'
  BY DEF Awaited, Owing

\* Steps that neither spend, issue nor answer.
LEMMA SpentRests ==
  ASSUME TypeOK, SpentInv, UNCHANGED <<tokens, blacklisted, told, ended, lost>>,
         \A s \in Servers : Pending(s) =>
           step'[s] = step[s] /\ token'[s] = token[s]
  PROVE  SpentInv'
<1>1. Unanswered' = Unanswered
  BY DEF Unanswered, SessionOf, Successors, Issued
<1>2. \A s \in Servers : Pending(s) => SpentBy(s) \in Awaited'
  BY PendingStays DEF Pending, SpentBy
<1> QED
  BY <1>1, <1>2, SpentStays

\* The inductive step: a token is spent by a request that owes its successor,
\* and only a loss forgets the request.
LEMMA SpentStep == TypeInv /\ SpentInv /\ [Next]_vars => SpentInv'
<1> SUFFICES ASSUME TypeInv, TypeOK, SpentInv, [Next]_vars PROVE SpentInv'
  BY DEF TypeInv
<1>a. ASSUME NEW s \in Servers, Answer(s), ~Pending(s),
             UNCHANGED <<tokens, blacklisted, told, ended, lost>>
      PROVE  SpentInv'
  BY <1>a, SpentRests DEF Answer, TypeOK
<1>b. ASSUME NEW s \in Servers, NEW t, NEW next, Receive(s, t, next),
             UNCHANGED <<tokens, blacklisted, told, ended, lost>>
      PROVE  SpentInv'
  BY <1>b, SpentRests DEF Receive, Pending, TypeOK
<1>c. ASSUME NEW s \in Servers, NEW next, Continue(s, next), ~Pending(s),
             UNCHANGED <<tokens, blacklisted, told, ended, lost>>
      PROVE  SpentInv'
  BY <1>c, SpentRests DEF Continue, TypeOK
<1>1. CASE TimePasses
  BY <1>1, SpentRests DEF TimePasses, requests, history
<1>2. CASE ToggleUser
  BY <1>2, SpentRests DEF ToggleUser
<1>3. ASSUME NEW s \in Servers,
             \/ LoginAuthenticates(s)
             \/ \E t \in told : RefreshVerifies(s, t) \/ LogoutAuthenticates(s, t)
             \/ ProfileLoads(s)
      PROVE  SpentInv'
  BY <1>3, <1>b
  DEF LoginAuthenticates, RefreshVerifies, LogoutAuthenticates, ProfileLoads, history
<1>4. ASSUME NEW s \in Servers, RefreshChecksUser(s) PROVE SpentInv'
  BY <1>4, <1>a, <1>c DEF RefreshChecksUser, Pending, history
<1>5. ASSUME NEW s \in Servers, RefreshBlacklists(s) PROVE SpentInv'
  <2>1. /\ step[s] = "blacklist" /\ step' = [step EXCEPT ![s] = "issue"]
        /\ blacklisted' = blacklisted \cup {token[s]}
        /\ UNCHANGED <<token, tokens, told, ended, lost>>
    BY <1>5 DEF RefreshBlacklists, Continue, After, Spend, history
  <2>2. Unanswered' \subseteq Unanswered \cup {token[s]}
    BY <2>1 DEF Unanswered, SessionOf, Successors, Issued
  <2>3. step'[s] = "issue" /\ token'[s] = token[s]
    BY <2>1 DEF TypeOK
  <2>4. token[s] \in Awaited'
    BY <2>3 DEF Awaited, Owing, Pending, SpentBy
  <2>5. \A u \in Servers : Pending(u) => Pending(u)' /\ SpentBy(u)' = SpentBy(u)
    BY <2>1 DEF Pending, SpentBy, TypeOK
  <2> QED
    BY <2>1, <2>2, <2>4, <2>5, PendingStays, SpentStays
<1>6. ASSUME NEW s \in Servers, IssuesToken(s) PROVE SpentInv'
  <2>0. PICK id : id = Len(tokens) + 1
    OBVIOUS
  <2>1. /\ id \notin Issued /\ Issued' = Issued \cup {id}
        /\ \A t \in Issued : tokens'[t] = tokens[t]
        /\ tokens'[id].parent = token[s]
    BY <1>6, <2>0, TokenIsIssued
  <2>2. /\ step[s] = "issue" /\ step' = [step EXCEPT ![s] = "respond"]
        /\ token' = [token EXCEPT ![s] = id]
        /\ UNCHANGED <<blacklisted, told, ended, lost>>
    BY <1>6, <2>0 DEF IssuesToken, history
  <2>3. \A t : Successors(t) \subseteq Successors(t)'
    BY <2>1 DEF Successors
  <2>4. \A t \in Issued : SessionOf(t)' = SessionOf(t)
    BY <2>1 DEF SessionOf
  <2>5. Unanswered' \subseteq Unanswered
    BY <2>2, <2>3, <2>4 DEF Unanswered, TypeOK
  <2>6. ASSUME NEW u \in Servers, Pending(u)
        PROVE  Pending(u)' /\ SpentBy(u)' = SpentBy(u)
    <3>1. CASE u = s
      BY <2>1, <2>2, <3>1 DEF Pending, SpentBy, TypeOK
    <3>2. CASE u # s
      <4>1. step'[u] = step[u] /\ token'[u] = token[u]
        BY <2>2, <3>2 DEF TypeOK
      <4>2. step[u] = "respond" => tokens'[token[u]] = tokens[token[u]]
        BY <2>1 DEF TypeOK
      <4> QED
        BY <2>6, <4>1, <4>2 DEF Pending, SpentBy
    <3> QED
      BY <3>1, <3>2
  <2> QED
    BY <2>2, <2>5, <2>6, PendingStays, SpentStays
<1>7. ASSUME NEW s \in Servers, Responds(s) PROVE SpentInv'
  <2>1. /\ step[s] = "respond" /\ step' = [step EXCEPT ![s] = "idle"]
        /\ token' = [token EXCEPT ![s] = NoToken]
        /\ told' = told \cup {token[s]}
        /\ UNCHANGED <<tokens, blacklisted, ended, lost>>
    BY <1>7 DEF Responds, Answer, history
  <2>2. Unanswered' \subseteq Unanswered
    BY <2>1 DEF Unanswered, SessionOf, Successors, Issued
  <2>3. SpentBy(s) \notin Unanswered'
    <3>1. PICK p : p = SpentBy(s)
      OBVIOUS
    <3>2. PICK n : n = token[s]
      OBVIOUS
    <3>3. n \in Issued /\ p = tokens[n].parent
      BY <2>1, <3>1, <3>2 DEF SpentBy, TypeOK
    <3>4. n \in Successors(p)' /\ n \in told'
      BY <2>1, <3>2, <3>3 DEF Successors, Issued
    <3>5. p \notin Unanswered'
      BY <3>4 DEF Unanswered
    <3> QED
      BY <3>1, <3>5
  <2>4. \A u \in Servers \ {s} : Pending(u) => Pending(u)' /\ SpentBy(u)' = SpentBy(u)
    BY <2>1 DEF Pending, SpentBy, TypeOK
  <2> QED
    BY <2>1, <2>2, <2>3, <2>4, PendingStays, SpentStays
<1>8. ASSUME NEW s \in Servers, LogoutVerifies(s) PROVE SpentInv'
  BY <1>8, <1>a, <1>c DEF LogoutVerifies, Pending
<1>9. ASSUME NEW s \in Servers, LogoutBlacklists(s) PROVE SpentInv'
  <2>1. /\ step[s] = "logout" /\ step' = [step EXCEPT ![s] = "idle"]
        /\ token' = [token EXCEPT ![s] = NoToken]
        /\ blacklisted' = blacklisted \cup {token[s]}
        /\ UNCHANGED <<tokens, told, lost>>
        /\ ended' = [ended EXCEPT ![SessionOf(token[s])] =
                       IF @ = Never THEN now ELSE @]
    BY <1>9 DEF LogoutBlacklists, Answer
  <2>2. \A t : SessionOf(t)' = SessionOf(t) /\ Successors(t)' = Successors(t)
    BY <2>1 DEF SessionOf, Successors, Issued
  <2>3. token[s] \in Issued /\ SessionOf(token[s]) \in Ids /\ now # Never
    <3>1. token[s] \in told
      BY <2>1 DEF Verified, TypeOK
    <3>2. token[s] \in Issued /\ tokens[token[s]] \in Tokens /\ now \in Nat
      BY <3>1, ExpiriesAreNumbers DEF TypeOK
    <3>3. tokens[token[s]].session \in Ids
      BY <3>2 DEF Tokens
    <3> QED
      BY <3>2, <3>3 DEF SessionOf, Never
  <2>4. ended'[SessionOf(token[s])] # Never
    BY <2>1, <2>3 DEF TypeOK
  <2>5. \A c : ended'[c] = Never => ended[c] = Never \/ c \notin Ids
    BY <2>1 DEF TypeOK
  <2>6. \A t \in Unanswered' : t \in Unanswered
    <3> SUFFICES ASSUME NEW t \in Unanswered' PROVE t \in Unanswered
      OBVIOUS
    <3>1. t # token[s] /\ t \in blacklisted /\ Successors(t) \cap told = {}
      BY <2>1, <2>2, <2>4 DEF Unanswered
    <3>2. SessionOf(t) \in Ids
      BY <3>1, ExpiriesAreNumbers DEF SessionOf, Tokens, TypeOK
    <3> QED
      BY <2>2, <2>5, <3>1, <3>2 DEF Unanswered
  <2>7. \A u \in Servers : Pending(u) => Pending(u)' /\ SpentBy(u)' = SpentBy(u)
    BY <2>1 DEF Pending, SpentBy, TypeOK
  <2> QED
    BY <2>1, <2>6, <2>7, PendingStays, SpentStays
<1>10. ASSUME NEW s \in Servers, ProfileSaves(s) PROVE SpentInv'
  BY <1>10, <1>a DEF ProfileSaves, Pending, history
<1>11. ASSUME NEW s \in Servers, ServerLost(s) PROVE SpentInv'
  <2>1. /\ step' = [step EXCEPT ![s] = "idle"]
        /\ token' = [token EXCEPT ![s] = NoToken]
        /\ lost' = lost + 1
        /\ UNCHANGED <<tokens, blacklisted, told, ended>>
    BY <1>11 DEF ServerLost, Answer
  <2>2. Unanswered' = Unanswered
    BY <2>1 DEF Unanswered, SessionOf, Successors, Issued
  <2>3. \A u \in Servers \ {s} : Pending(u) => Pending(u)' /\ SpentBy(u)' = SpentBy(u)
    BY <2>1 DEF Pending, SpentBy, TypeOK
  <2>4. Unanswered' \ Awaited' \subseteq (Unanswered \ Awaited) \cup {SpentBy(s)}
    BY <2>2, <2>3, PendingStays DEF Awaited, Owing
  <2> DEFINE S == Unanswered \ Awaited
             T == Unanswered' \ Awaited'
  <2>5. /\ IsFiniteSet(S) /\ Cardinality(S) \in Nat /\ Cardinality(S) <= lost
        /\ lost \in Nat /\ T \subseteq S \cup {SpentBy(s)}
    BY <2>4, SpentAreFinite DEF SpentInv, TypeOK
  <2> HIDE DEF S, T
  <2>6. /\ IsFiniteSet(S \cup {SpentBy(s)})
        /\ Cardinality(S \cup {SpentBy(s)}) \in Nat
        /\ Cardinality(S \cup {SpentBy(s)}) <= Cardinality(S) + 1
    <3>1. /\ IsFiniteSet(S \cup {SpentBy(s)})
          /\ Cardinality(S \cup {SpentBy(s)})
               = IF SpentBy(s) \in S THEN Cardinality(S) ELSE Cardinality(S) + 1
      BY <2>5, FS_AddElement
    <3> QED
      BY <2>5, <3>1
  <2>7. Cardinality(T) <= Cardinality(S \cup {SpentBy(s)}) /\ Cardinality(T) \in Nat
    BY <2>5, <2>6, FS_Subset, FS_CardinalityType
  <2>8. Cardinality(T) <= lost'
    BY <2>1, <2>5, <2>6, <2>7
  <2> QED
    BY <2>8 DEF SpentInv, T
<1>12. CASE UNCHANGED vars
  BY <1>12, SpentRests DEF vars, requests, history
<1> QED
  BY <1>1, <1>2, <1>3, <1>4, <1>5, <1>6, <1>7, <1>8, <1>9, <1>10, <1>11, <1>12
  DEF Next, Serve

\* A session is lost without a logout only by a response that never came: the
\* tokens spent for no successor the client knows of are no more than the
\* losses and the requests on their way.
THEOREM SpendingIsAnswered == Spec => []SpentForASuccessor
<1>1. Init => SpentInv
  <2>1. Init => Unanswered \ Awaited = {} /\ lost = 0
    BY DEF Init, Unanswered
  <2> QED
    BY <2>1, FS_EmptySet DEF SpentInv
<1>2. TypeOK /\ SpentInv => SpentForASuccessor
  <2> SUFFICES ASSUME TypeOK, SpentInv PROVE SpentForASuccessor
    OBVIOUS
  <2> DEFINE S == Unanswered \ Awaited
             f == [s \in Owing |-> SpentBy(s)]
  <2>1. IsFiniteSet(Owing) /\ Cardinality(Owing) \in Nat
    BY RotatorsAreFinite DEF Owing
  <2>2. f \in Surjection(Owing, Awaited)
    BY DEF Awaited, Surjection
  <2>3. IsFiniteSet(Awaited) /\ Cardinality(Awaited) <= Cardinality(Owing)
    BY <2>1, <2>2, FS_Surjection
  <2>4. Cardinality(Awaited) \in Nat
    BY <2>3, FS_CardinalityType
  <2>5. /\ IsFiniteSet(S) /\ Cardinality(S) \in Nat /\ Cardinality(S) <= lost
        /\ lost \in Nat /\ Unanswered \subseteq S \cup Awaited
    BY SpentAreFinite DEF SpentInv, TypeOK
  <2> HIDE DEF S
  <2>6. /\ IsFiniteSet(S \cup Awaited)
        /\ Cardinality(S \cup Awaited)
             = Cardinality(S) + Cardinality(Awaited) - Cardinality(S \cap Awaited)
    BY <2>3, <2>5, FS_Union
  <2>7. Cardinality(S \cap Awaited) \in Nat
    BY <2>5, FS_Intersection, FS_CardinalityType
  <2>8. /\ Cardinality(Unanswered) <= Cardinality(S \cup Awaited)
        /\ Cardinality(Unanswered) \in Nat
    BY <2>5, <2>6, FS_Subset, FS_CardinalityType
  <2>9. Cardinality(Unanswered) <= lost + Cardinality(Owing)
    BY <2>1, <2>3, <2>4, <2>5, <2>6, <2>7, <2>8
  <2> QED
    BY <2>9 DEF SpentForASuccessor, Unanswered, Owing, Pending
<1> QED
  BY <1>1, <1>2, SpentStep, TypeInvInit, TypeInvStep, SessionsTypeCorrect, PTL
  DEF Spec


------------------------------------------------------------------------------
(* Refused logouts.                                                        *)

\* Nobody but the request that spent t still works in t's session.
Stuck(t) ==
  LET c == SessionOf(t) IN
  /\ InSession(c) \cap told \subseteq blacklisted
  /\ \A s \in Servers :
       Pending(s) /\ token[s] \in InSession(c) => SpentBy(s) = t

\* The inductive invariant: only tokens the client knows are spent, a refused
\* token stays refused, and a spent one without an answer is the last of its
\* session that was in use, unless requests of the session overlapped.
RefusedInv ==
  /\ blacklisted \subseteq told
  /\ \A t \in refused : ~Good(t)
  /\ \A t \in blacklisted :
       Alone(SessionOf(t)) /\ Successors(t) \cap told = {} => Stuck(t)

\* A token that is not good never is again.
LEMMA RefusedStays ==
  ASSUME TypeOK, TypeOK', \A t \in refused : ~Good(t),
         now <= now', blacklisted \subseteq blacklisted',
         \A t \in Issued : tokens'[t] = tokens[t],
         refused' \subseteq told, \A t \in refused' : t \in refused \/ ~Good(t)
  PROVE  \A t \in refused' : ~Good(t)'
<1> SUFFICES ASSUME NEW t \in refused', ~Good(t) PROVE ~Good(t)'
  OBVIOUS
<1>1. CASE t \in blacklisted
  BY <1>1 DEF Good
<1>2. CASE ~Unexpired(t) /\ t \in Issued
  <2>1. tokens[t].expires \in Nat /\ now \in Nat /\ now' \in Nat
    <3>1. tokens[t] \in Tokens
      BY <1>2, ExpiriesAreNumbers
    <3> QED
      BY <3>1, SessionBounds DEF TypeOK, Tokens
  <2> QED
    BY <1>2, <2>1 DEF Unexpired, Good
<1> QED
  BY <1>1, <1>2 DEF Good, TypeOK

\* Steps that neither spend, issue nor answer.
LEMMA RefusedRests ==
  ASSUME TypeOK, TypeOK', RefusedInv, UNCHANGED <<tokens, blacklisted, told>>,
         now <= now', overlapped \subseteq overlapped',
         refused' \subseteq told, \A t \in refused' : t \in refused \/ ~Good(t),
         \A s \in Servers : Pending(s)' /\ token'[s] \in Issued =>
           step'[s] = step[s] /\ token'[s] = token[s]
  PROVE  RefusedInv'
<1>1. /\ Issued' = Issued
      /\ \A t : SessionOf(t)' = SessionOf(t) /\ Successors(t)' = Successors(t)
      /\ \A c : InSession(c)' = InSession(c) /\ (Alone(c)' => Alone(c))
  BY DEF Issued, SessionOf, Successors, InSession, Alone
<1>2. \A s \in Servers : Pending(s)' /\ token'[s] \in Issued =>
        /\ Pending(s) /\ token'[s] = token[s]
        /\ SpentBy(s)' = SpentBy(s)
  BY DEF Pending, SpentBy
<1>3. \A t \in refused' : ~Good(t)'
  BY RefusedStays DEF RefusedInv
<1>4. \A c : InSession(c) \subseteq Issued
  BY DEF InSession
<1>5. \A t : Stuck(t) => Stuck(t)'
  BY <1>1, <1>2, <1>4 DEF Stuck
<1> QED
  BY <1>1, <1>3, <1>5 DEF RefusedInv

\* A token that is verified and blacklisted now is the last of its session.
LEMMA SpentIsStuck ==
  ASSUME TypeOK, ExchangeInv, EndInv, RefusedInv,
         NEW s \in Servers, step[s] \in Verified,
         NEW t, t = token[s], Alone(SessionOf(t)),
         blacklisted' = blacklisted \cup {t},
         UNCHANGED <<tokens, told>>,
         \A u \in Servers \ {s} : step'[u] = step[u] /\ token'[u] = token[u],
         Pending(s)' => step'[s] = "issue" /\ token'[s] = t
  PROVE  Stuck(t)'
<1>1. PICK c : c = SessionOf(t)
  OBVIOUS
<1>2. t \in told /\ t \in Issued /\ c \in Issued /\ t \in InSession(c)
  BY <1>1 DEF TypeOK, EndInv, InSession
<1>3. /\ InSession(c) \subseteq blacklisted \cup {t}
      /\ \A u \in Servers : ~Prolongs(u, c)
  BY <1>1, <1>2, VerifiedIsTheLastOne
<1>4. \A u \in Servers : step[u] = "respond" => token[u] \notin InSession(c)
  BY <1>2, <1>3 DEF RefusedInv, TypeOK
<1>5. SessionOf(t)' = c /\ InSession(c)' = InSession(c)
  BY <1>1 DEF SessionOf, InSession, Issued
<1>6. InSession(c) \cap told' \subseteq blacklisted'
  BY <1>3
<1>7. ASSUME NEW u \in Servers, Pending(u)', token'[u] \in InSession(c)
      PROVE  SpentBy(u)' = t
  <2>1. CASE u = s
    BY <1>7, <2>1 DEF SpentBy
  <2>2. CASE u # s
    BY <1>3, <1>4, <1>7, <2>2 DEF Pending, Prolongs
  <2> QED
    BY <2>1, <2>2
<1> QED
  BY <1>5, <1>6, <1>7 DEF Stuck


\* Steps that spend a token in use.
LEMMA RefusedSpends ==
  ASSUME TypeOK, TypeOK', ExchangeInv, EndInv, RefusedInv,
         NEW s \in Servers, step[s] \in Verified,
         blacklisted' = blacklisted \cup {token[s]},
         UNCHANGED <<now, tokens, told, overlapped, refused>>,
         \A u \in Servers \ {s} : step'[u] = step[u] /\ token'[u] = token[u],
         Pending(s)' => step'[s] = "issue" /\ token'[s] = token[s]
  PROVE  RefusedInv'
<1>0. PICK r : r = token[s]
  OBVIOUS
<1>1. /\ r \in told /\ r \in Issued /\ blacklisted' = blacklisted \cup {r}
      /\ Pending(s)' => step'[s] = "issue" /\ token'[s] = r
  BY <1>0 DEF TypeOK
<1>2. /\ Issued' = Issued
      /\ \A t : SessionOf(t)' = SessionOf(t) /\ Successors(t)' = Successors(t)
      /\ \A c : InSession(c)' = InSession(c) /\ (Alone(c)' <=> Alone(c))
  BY DEF Issued, SessionOf, Successors, InSession, Alone
<1>3. \A t \in refused' : ~Good(t)'
  <2>1. now <= now' /\ refused' \subseteq told
    BY ExpiriesAreNumbers DEF TypeOK
  <2> QED
    BY <2>1, RefusedStays DEF RefusedInv
<1>4. ASSUME NEW t \in blacklisted', Alone(SessionOf(t)),
             Successors(t) \cap told = {}
      PROVE  Stuck(t)'
  <2>1. CASE t = r
    BY <1>0, <1>1, <1>4, <2>1, SpentIsStuck
  <2>2. CASE t # r
    <3>1. PICK c : c = SessionOf(t)
      OBVIOUS
    <3>2. t \in blacklisted /\ Stuck(t) /\ Alone(c) /\ c \in Issued
      BY <1>1, <1>4, <2>2, <3>1 DEF RefusedInv, TypeOK, EndInv
    <3>3. /\ InSession(c) \cap told \subseteq blacklisted
          /\ \A u \in Servers :
               Pending(u) /\ token[u] \in InSession(c) => SpentBy(u) = t
      BY <3>1, <3>2 DEF Stuck
    <3>4. r \notin InSession(c)
      BY <1>0, <1>1, <3>2, <3>3, VerifiedIsTheLastOne
    <3>5. SessionOf(t)' = c /\ InSession(c)' = InSession(c)
      BY <1>2, <3>1
    <3>6. \A u \in Servers : Pending(u)' /\ token'[u] \in InSession(c) =>
            u # s /\ SpentBy(u)' = t
      BY <1>1, <3>3, <3>4 DEF Pending, SpentBy
    <3> QED
      BY <1>1, <3>3, <3>5, <3>6 DEF Stuck
  <2> QED
    BY <2>1, <2>2
<1> QED
  BY <1>1, <1>2, <1>3, <1>4 DEF RefusedInv

\* The inductive step: a token is spent where nothing else of its session goes
\* on, and the request that spent it goes on alone until the client is told.
LEMMA RefusedStep ==
  TypeInv /\ ExchangeInv /\ EndInv /\ RefusedInv /\ [Next]_vars => RefusedInv'
<1> SUFFICES ASSUME TypeInv, TypeOK, TypeOK', ExchangeInv, EndInv, RefusedInv,
                    [Next]_vars
             PROVE  RefusedInv'
  BY TypeInvStep DEF TypeInv
<1>a. now \in Nat /\ now <= now /\ NoToken \notin Issued /\ refused \subseteq told
  BY ExpiriesAreNumbers DEF NoToken, TypeOK
<1>b. ASSUME NEW s \in Servers, Answer(s),
             UNCHANGED <<now, tokens, blacklisted, told>>,
             overlapped \subseteq overlapped',
             refused' \subseteq told, \A t \in refused' : t \in refused \/ ~Good(t)
      PROVE  RefusedInv'
  BY <1>a, <1>b, RefusedRests DEF Answer, Pending, TypeOK
<1>c. ASSUME NEW s \in Servers, NEW t, NEW next, Receive(s, t, next),
             next \notin {"issue", "respond"} \/ t = NoToken,
             UNCHANGED <<now, tokens, blacklisted, told, refused>>,
             overlapped \subseteq overlapped'
      PROVE  RefusedInv'
  BY <1>a, <1>c, RefusedRests DEF Receive, Pending, TypeOK
<1>d. ASSUME NEW s \in Servers, NEW next, Continue(s, next),
             next \notin {"issue", "respond"},
             UNCHANGED <<now, tokens, blacklisted, told, refused>>,
             overlapped \subseteq overlapped'
      PROVE  RefusedInv'
  BY <1>a, <1>d, RefusedRests DEF Continue, Pending, TypeOK
<1>e. \A t : NoteOverlap(t) => overlapped \subseteq overlapped'
  BY DEF NoteOverlap
<1>1. CASE TimePasses
  <2>1. now <= now'
    BY <1>1, <1>a DEF TimePasses
  <2> QED
    BY <1>1, <1>a, <2>1, RefusedRests DEF TimePasses, requests, history
<1>2. CASE ToggleUser
  BY <1>2, <1>a, RefusedRests DEF ToggleUser
<1>3. ASSUME NEW s \in Servers, LoginAuthenticates(s) PROVE RefusedInv'
  BY <1>3, <1>c DEF LoginAuthenticates, history
<1>4. ASSUME NEW s \in Servers, NEW t \in told, RefreshVerifies(s, t)
      PROVE  RefusedInv'
  BY <1>4, <1>c, <1>e DEF RefreshVerifies, After
<1>5. ASSUME NEW s \in Servers, RefreshChecksUser(s) PROVE RefusedInv'
  <2>1. CASE Continue(s, After("user"))
    BY <1>5, <1>d, <2>1 DEF RefreshChecksUser, After, history
  <2>2. CASE Answer(s)
    BY <1>5, <1>a, <1>b, <2>2 DEF RefreshChecksUser, history
  <2> QED
    BY <1>5, <2>1, <2>2 DEF RefreshChecksUser
<1>6. ASSUME NEW s \in Servers, RefreshBlacklists(s) PROVE RefusedInv'
  <2>1. /\ step[s] \in Verified /\ step' = [step EXCEPT ![s] = "issue"]
        /\ blacklisted' = blacklisted \cup {token[s]}
        /\ UNCHANGED <<now, token, tokens, told, overlapped, refused>>
    BY <1>6 DEF RefreshBlacklists, Continue, After, Spend, Verified, history
  <2>2. \A u \in Servers \ {s} : step'[u] = step[u] /\ token'[u] = token[u]
    BY <2>1 DEF TypeOK
  <2>3. step'[s] = "issue" /\ token'[s] = token[s]
    BY <2>1 DEF TypeOK
  <2> QED
    BY <2>1, <2>2, <2>3, RefusedSpends
<1>7. ASSUME NEW s \in Servers, IssuesToken(s) PROVE RefusedInv'
  <2>0. PICK id : id = Len(tokens) + 1
    OBVIOUS
  <2>1. /\ id # NoToken /\ id \notin Issued /\ Issued' = Issued \cup {id}
        /\ \A t \in Issued : tokens'[t] = tokens[t]
        /\ tokens'[id].parent = token[s]
        /\ tokens'[id].session = IF token[s] = NoToken THEN id
                                 ELSE SessionOf(token[s])
    BY <1>7, <2>0, TokenIsIssued DEF Ids, NoToken
  <2>2. /\ step[s] = "issue" /\ step' = [step EXCEPT ![s] = "respond"]
        /\ token' = [token EXCEPT ![s] = id]
        /\ UNCHANGED <<now, blacklisted, told, overlapped, refused>>
    BY <1>7, <2>0 DEF IssuesToken, history
  <2>3. \A t : Successors(t) \subseteq Successors(t)'
    BY <2>1 DEF Successors
  <2>4. /\ \A t \in Issued : SessionOf(t)' = SessionOf(t)
        /\ SessionOf(id)' = tokens'[id].session
    BY <2>1 DEF SessionOf
  <2>5. \A c : InSession(c)' = IF c = tokens'[id].session
                               THEN InSession(c) \cup {id} ELSE InSession(c)
    BY <2>1, <2>4 DEF InSession
  <2>6. \A c : Alone(c)' => Alone(c)
    BY <2>2, <2>5 DEF Alone
  <2>7. \A t \in refused' : ~Good(t)'
    BY <1>a, <2>1, <2>2, RefusedStays DEF RefusedInv
  <2>8. ASSUME NEW t \in blacklisted, Alone(SessionOf(t))',
               Successors(t)' \cap told = {}
        PROVE  Stuck(t)'
    <3>1. PICK c : c = SessionOf(t)
      OBVIOUS
    <3>2. t \in Issued /\ c \in Issued /\ SessionOf(t)' = c
      BY <2>4, <3>1 DEF TypeOK, EndInv
    <3>3. Stuck(t)
      BY <2>3, <2>6, <2>8, <3>1, <3>2 DEF RefusedInv
    <3>4. /\ InSession(c) \cap told \subseteq blacklisted
          /\ \A u \in Servers :
               Pending(u) /\ token[u] \in InSession(c) => SpentBy(u) = t
      BY <3>1, <3>3 DEF Stuck
    <3>5. InSession(c)' \cap told' \subseteq blacklisted'
      <4>1. InSession(c)' \subseteq InSession(c) \cup {id}
        BY <2>5
      <4>2. id \notin told'
        BY <2>1, <2>2 DEF TypeOK
      <4> QED
        BY <2>2, <3>4, <4>1, <4>2
    <3>6. ASSUME NEW u \in Servers, Pending(u)', token'[u] \in InSession(c)'
          PROVE  SpentBy(u)' = t
      <4>1. CASE u = s
        <5>1. step'[s] = "respond" /\ token'[s] = id
          BY <2>2 DEF TypeOK
        <5>2. id \in InSession(c)'
          BY <3>6, <4>1, <5>1
        <5>3. c = tokens'[id].session
          BY <2>1, <2>5, <5>2 DEF InSession
        <5>4. token[s] \in InSession(c)
          BY <2>1, <3>2, <5>3 DEF TypeOK, InSession
        <5>5. token[s] = t
          BY <2>2, <3>4, <5>4 DEF Pending, SpentBy
        <5>6. SpentBy(s)' = tokens'[id].parent
          BY <5>1 DEF SpentBy
        <5> QED
          BY <2>1, <4>1, <5>5, <5>6
      <4>2. CASE u # s
        <5>1. step'[u] = step[u] /\ token'[u] = token[u] /\ token[u] # id
          BY <2>1, <2>2, <4>2 DEF TypeOK
        <5>2. token[u] \in InSession(c)
          <6>1. token[u] \in InSession(c)'
            BY <3>6, <5>1
          <6> QED
            BY <2>5, <5>1, <6>1
        <5>3. Pending(u) /\ SpentBy(u) = t
          BY <3>4, <3>6, <5>1, <5>2 DEF Pending
        <5>4. tokens'[token[u]] = tokens[token[u]]
          BY <2>1, <5>2 DEF InSession
        <5> QED
          BY <5>1, <5>3, <5>4 DEF SpentBy
      <4> QED
        BY <4>1, <4>2
    <3> QED
      BY <3>2, <3>5, <3>6 DEF Stuck
  <2> QED
    BY <2>2, <2>7, <2>8 DEF RefusedInv
<1>8. ASSUME NEW s \in Servers, Responds(s) PROVE RefusedInv'
  <2>0. PICK n : n = token[s]
    OBVIOUS
  <2>1. /\ step[s] = "respond" /\ step' = [step EXCEPT ![s] = "idle"]
        /\ token' = [token EXCEPT ![s] = NoToken]
        /\ told' = told \cup {n}
        /\ UNCHANGED <<now, tokens, blacklisted, overlapped, refused>>
    BY <1>8, <2>0 DEF Responds, Answer, history
  <2>2. /\ Issued' = Issued
        /\ \A t : SessionOf(t)' = SessionOf(t) /\ Successors(t)' = Successors(t)
        /\ \A c : InSession(c)' = InSession(c) /\ (Alone(c)' <=> Alone(c))
    BY <2>1 DEF Issued, SessionOf, Successors, InSession, Alone
  <2>3. \A t \in refused' : ~Good(t)'
    BY <1>a, <2>1, RefusedStays DEF RefusedInv
  <2>4. ASSUME NEW t \in blacklisted, Alone(SessionOf(t)),
               Successors(t) \cap told' = {}
        PROVE  Stuck(t)'
    <3>1. PICK c : c = SessionOf(t)
      OBVIOUS
    <3>2. /\ InSession(c) \cap told \subseteq blacklisted
          /\ \A u \in Servers :
               Pending(u) /\ token[u] \in InSession(c) => SpentBy(u) = t
      BY <2>1, <2>4, <3>1 DEF RefusedInv, Stuck
    <3>3. n \notin InSession(c)
      <4>1. SUFFICES ASSUME n \in InSession(c) PROVE FALSE
        OBVIOUS
      <4>2. tokens[n].parent = t
        BY <2>0, <2>1, <3>2, <4>1 DEF Pending, SpentBy
      <4> QED
        BY <2>1, <2>4, <4>1, <4>2 DEF Successors, InSession
    <3>4. SessionOf(t)' = c /\ InSession(c)' = InSession(c)
      BY <2>2, <3>1
    <3>5. \A u \in Servers : Pending(u)' => u # s
      BY <2>1 DEF Pending, TypeOK
    <3>6. \A u \in Servers \ {s} : step'[u] = step[u] /\ token'[u] = token[u]
      BY <2>1 DEF TypeOK
    <3>7. \A u \in Servers : Pending(u)' /\ token'[u] \in InSession(c) =>
            SpentBy(u)' = t
      BY <2>1, <3>2, <3>5, <3>6 DEF Pending, SpentBy
    <3> QED
      BY <2>1, <3>2, <3>3, <3>4, <3>7 DEF Stuck
  <2> QED
    BY <2>1, <2>2, <2>3, <2>4 DEF RefusedInv
<1>9. ASSUME NEW s \in Servers, LogoutVerifies(s) PROVE RefusedInv'
  <2>1. CASE Good(token[s])
    BY <1>9, <1>a, <1>d, <1>e, <2>1 DEF LogoutVerifies
  <2>2. CASE ~Good(token[s])
    BY <1>9, <1>a, <1>b, <2>2 DEF LogoutVerifies, TypeOK
  <2> QED
    BY <2>1, <2>2
<1>10. ASSUME NEW s \in Servers, LogoutBlacklists(s) PROVE RefusedInv'
  <2>1. /\ step[s] \in Verified /\ step' = [step EXCEPT ![s] = "idle"]
        /\ token' = [token EXCEPT ![s] = NoToken]
        /\ blacklisted' = blacklisted \cup {token[s]}
        /\ UNCHANGED <<now, tokens, told, overlapped, refused>>
    BY <1>10 DEF LogoutBlacklists, Answer, Verified
  <2>2. \A u \in Servers \ {s} : step'[u] = step[u] /\ token'[u] = token[u]
    BY <2>1 DEF TypeOK
  <2>3. ~Pending(s)'
    BY <2>1 DEF TypeOK, Pending
  <2> QED
    BY <2>1, <2>2, <2>3, RefusedSpends
<1>11. ASSUME NEW s \in Servers,
              \/ \E t \in told : LogoutAuthenticates(s, t)
              \/ ProfileLoads(s)
       PROVE  RefusedInv'
  BY <1>11, <1>c DEF LogoutAuthenticates, ProfileLoads, history
<1>12. ASSUME NEW s \in Servers, ProfileSaves(s) \/ ServerLost(s)
       PROVE  RefusedInv'
  BY <1>12, <1>a, <1>b DEF ProfileSaves, ServerLost, history
<1>13. CASE UNCHANGED vars
  BY <1>13, <1>a, RefusedRests DEF vars, requests, history
<1> QED
  BY <1>1, <1>2, <1>3, <1>4, <1>5, <1>6, <1>7, <1>8, <1>9, <1>10, <1>11, <1>12, <1>13
  DEF Next, Serve

\* A logout is refused only where the client's end is reached: it presented the
\* newest token it knows of, its requests did not overlap, and no token of the
\* session that it was told of is good.
THEOREM RefusalsMeanEnded == Spec => []RefusedLogoutMeansEnded
<1>1. Init => RefusedInv
  BY DEF Init, RefusedInv
<1>2. TypeOK /\ EndInv /\ RefusedInv => RefusedLogoutMeansEnded
  <2> SUFFICES ASSUME TypeOK, EndInv, RefusedInv, NEW t \in refused,
                      Successors(t) \cap told = {}, Alone(SessionOf(t)),
                      NEW u \in InSession(SessionOf(t)) \cap told
               PROVE  ~Good(u)
    BY DEF RefusedLogoutMeansEnded, Alone
  <2>1. ~Good(t) /\ t \in Issued /\ t \in InSession(SessionOf(t))
        /\ SessionOf(t) \in Issued
    BY DEF RefusedInv, TypeOK, InSession, EndInv
  <2>2. CASE t \in blacklisted
    BY <2>2 DEF RefusedInv, Stuck, Good
  <2>3. CASE t \notin blacklisted
    BY <2>1, <2>3 DEF EndInv, Good
  <2> QED
    BY <2>2, <2>3
<1> QED
  BY <1>1, <1>2, RefusedStep, ExchangeInit, ExchangeStep, EndInit, EndStep,
     TypeInvInit, TypeInvStep, SessionsTypeCorrect, PTL DEF Spec
==============================================================================
