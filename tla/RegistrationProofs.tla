-------------------------- MODULE RegistrationProofs -------------------------
(***************************************************************************)
(* Theorems about Registration, for any servers, mailboxes and bounds.     *)
(***************************************************************************)
EXTENDS Registration, FiniteSetTheorems, TLAPS

------------------------------------------------------------------------------
(* Addresses.                                                              *)

Normal == {e \in Emails : e.domain = "lower"}

\* Normalising keeps the mailbox and leaves a normalised address alone.
LEMMA Normalising ==
  /\ \A e \in Emails :
       /\ normalize_email(e) \in Normal
       /\ normalize_email(e).mailbox = e.mailbox
       /\ normalize_email(normalize_email(e)) = normalize_email(e)
  /\ \A e \in Normal : normalize_email(e) = e
  /\ NoEmail \notin Emails
<1>1. ASSUME NEW e \in Emails
      PROVE  /\ normalize_email(e)
                  = [mailbox |-> e.mailbox, local |-> e.local, domain |-> "lower"]
             /\ e = [mailbox |-> e.mailbox, local |-> e.local, domain |-> e.domain]
  BY DEF Emails, normalize_email
<1>2. NoEmail \notin Emails
  BY DEF Emails, NoEmail
<1>3. ASSUME NEW e \in Emails
      PROVE  /\ normalize_email(e) \in Normal
             /\ normalize_email(e).mailbox = e.mailbox
             /\ e.domain = "lower" => normalize_email(e) = e
  BY <1>1 DEF Normal, Emails, Spellings
<1> QED
  BY <1>2, <1>3 DEF Normal

------------------------------------------------------------------------------
(* Type correctness.                                                       *)

\* No row, no request, no answer.
LEMMA RegistrationTypeInit == Init => TypeOK
<1> SUFFICES ASSUME Init PROVE TypeOK
  OBVIOUS
<1>1. answered \in [Emails \X Answers -> Nat]
  BY DEF Init
<1>2. \A s \in Servers : step[s] = "idle" /\ email[s] = NoEmail
  BY DEF Init
<1>3. step \in [Servers -> Steps \cup {"idle"}]
      /\ email \in [Servers -> Emails \cup {NoEmail}]
  BY DEF Init
<1>4. overlapped \in BOOLEAN
  BY DEF Init
<1>5. users = {} /\ requests \in 0 .. MaxRequests
      /\ added \in 0 .. MaxAdded /\ crashes \in 0 .. MaxCrashes
  BY RegistrationBounds DEF Init, users
<1> QED
  BY <1>1, <1>2, <1>3, <1>4, <1>5 DEF TypeOK

\* An answer and a step to the next query keep the types.
LEMMA AnswerTypes ==
  ASSUME TypeOK, NEW s \in Servers, step[s] # "idle", NEW a \in Answers,
         Answer(s, a)
  PROVE  /\ answered' \in [Emails \X Answers -> Nat]
         /\ step' = [step EXCEPT ![s] = "idle"]
         /\ email' = [email EXCEPT ![s] = NoEmail]
         /\ normalize_email(email[s]) \in Normal
  BY Normalising DEF TypeOK, Answer, Normal

\* Every step keeps the types: what is inserted or added is normalised first.
LEMMA RegistrationTypeStep == TypeOK /\ [Next]_vars => TypeOK'
<1> SUFFICES ASSUME TypeOK, [Next]_vars PROVE TypeOK'
  OBVIOUS
<1> USE Normalising, RegistrationBounds
<1> USE DEF TypeOK, users, Steps, Answers, Normal
<1>1. ASSUME NEW s \in Servers, NEW e \in Emails, Receives(s, e) PROVE TypeOK'
  BY <1>1 DEF Receives
<1>2. ASSUME NEW s \in Servers, UniqueValidator(s) PROVE TypeOK'
  BY <1>2, AnswerTypes DEF UniqueValidator, Continue
<1>3. ASSUME NEW s \in Servers, ValidateEmail(s) PROVE TypeOK'
  BY <1>3, AnswerTypes DEF ValidateEmail, Validated
<1>4. ASSUME NEW s \in Servers, ValidatePassword(s) PROVE TypeOK'
  BY <1>4, AnswerTypes DEF ValidatePassword, Continue
<1>5. ASSUME NEW s \in Servers, Insert(s) PROVE TypeOK'
  BY <1>5, AnswerTypes DEF Insert, Continue, AfterInsert
<1>6. ASSUME NEW s \in Servers, IssuesToken(s) PROVE TypeOK'
  BY <1>6, AnswerTypes DEF IssuesToken
<1>7. ASSUME NEW s \in Servers, ServerLost(s) PROVE TypeOK'
  BY <1>7 DEF ServerLost
<1>8. ASSUME NEW e \in Emails, AdminAdds(e) PROVE TypeOK'
  BY <1>8 DEF AdminAdds
<1>9. CASE UNCHANGED vars
  BY <1>9 DEF vars
<1> QED
  BY <1>1, <1>2, <1>3, <1>4, <1>5, <1>6, <1>7, <1>8, <1>9 DEF Next, Serve

\* Every reachable state is well typed; in particular the column and the
\* validated requests hold normalised addresses only.
THEOREM RegistrationTypeCorrect == Spec => []TypeOK
  BY RegistrationTypeInit, RegistrationTypeStep, PTL DEF Spec

------------------------------------------------------------------------------
(* One account for an address.                                             *)

\* The servers that inserted e's row and have not answered yet.
Holding(e) == {s \in Servers : step[s] = "token" /\ email[s] = e}

\* What an answer adds: one of its kind for the request's address.
LEMMA AnswerCounts ==
  ASSUME TypeOK, NEW s \in Servers, step[s] # "idle", NEW a \in Answers,
         Answer(s, a), NEW e \in Emails, NEW b \in Answers
  PROVE  answered'[<<e, b>>] = IF e = normalize_email(email[s]) /\ a = b
                               THEN answered[<<e, b>>] + 1
                               ELSE answered[<<e, b>>]
<1>1. email[s] \in Emails /\ normalize_email(email[s]) \in Emails
  BY Normalising DEF TypeOK, Normal
<1> QED
  BY <1>1 DEF TypeOK, Answer

\* The inductive invariant: an address has a row from its insert on, and then
\* one server, or one answer, holds it.
HandedInv ==
  \A e \in Emails :
    /\ Created(e) > 0 => e \in registered /\ Created(e) = 1
    /\ \A s \in Holding(e) : e \in registered /\ Created(e) = 0
    /\ \A s, t \in Holding(e) : s = t

\* A step that issues no token and inserts no row.
LEMMA HandedStays ==
  ASSUME HandedInv, UNCHANGED registered,
         \A e \in Emails : Created(e)' = Created(e) /\ Holding(e)' \subseteq Holding(e)
  PROVE  HandedInv'
  BY DEF HandedInv

\* The inductive step: only an insert gives an address a holder, and the index
\* lets it through only where there is no row.
LEMMA HandedStep == TypeOK /\ HandedInv /\ [Next]_vars => HandedInv'
<1> SUFFICES ASSUME TypeOK, HandedInv, [Next]_vars PROVE HandedInv'
  OBVIOUS
<1>a. ASSUME NEW s \in Servers, step[s] # "idle", NEW a \in Answers,
             a # "created", Answer(s, a), UNCHANGED registered
      PROVE  HandedInv'
  <2>1. \A e \in Emails : Created(e)' = Created(e)
    BY <1>a, AnswerCounts DEF Created, Answers
  <2>2. \A e \in Emails : Holding(e)' \subseteq Holding(e)
    BY <1>a, Normalising DEF Answer, Holding, TypeOK
  <2> QED
    BY <1>a, <2>1, <2>2, HandedStays
<1>b. ASSUME UNCHANGED <<registered, answered>>,
             \A s \in Servers : step'[s] = "token"
               => step[s] = "token" /\ email'[s] = email[s]
      PROVE  HandedInv'
  BY <1>b, HandedStays DEF Created, Holding
<1>1. ASSUME NEW s \in Servers, NEW e \in Emails, Receives(s, e) PROVE HandedInv'
  BY <1>1, <1>b DEF Receives, TypeOK
<1>2. ASSUME NEW s \in Servers, UniqueValidator(s) PROVE HandedInv'
  <2>1. CASE Answer(s, "taken")
    BY <1>2, <2>1, <1>a DEF UniqueValidator, Answers
  <2>2. CASE Continue(s, "validate_email")
    BY <1>2, <2>2, <1>b DEF UniqueValidator, Continue, TypeOK
  <2> QED
    BY <1>2, <2>1, <2>2 DEF UniqueValidator
<1>3. ASSUME NEW s \in Servers, ValidateEmail(s) PROVE HandedInv'
  <2>1. CASE Answer(s, "taken")
    BY <1>3, <2>1, <1>a DEF ValidateEmail, Answers
  <2>2. CASE ~Taken(email[s])
    BY <1>3, <2>2, <1>b DEF ValidateEmail, TypeOK
  <2> QED
    BY <1>3, <2>1, <2>2 DEF ValidateEmail
<1>4. ASSUME NEW s \in Servers, ValidatePassword(s) PROVE HandedInv'
  <2>1. CASE Answer(s, "weak_password")
    BY <1>4, <2>1, <1>a DEF ValidatePassword, Answers
  <2>2. CASE Continue(s, "insert")
    BY <1>4, <2>2, <1>b DEF ValidatePassword, Continue, TypeOK
  <2> QED
    BY <1>4, <2>1, <2>2 DEF ValidatePassword
<1>5. ASSUME NEW s \in Servers, Insert(s) PROVE HandedInv'
  <2>1. email[s] \in Normal /\ normalize_email(email[s]) = email[s]
    BY <1>5, Normalising DEF Insert, TypeOK, Normal
  <2>2. CASE Conflicts(email[s])
    BY <1>5, <2>1, <2>2, <1>a DEF Insert, Answers
  <2>3. CASE ~Conflicts(email[s])
    <3>1. /\ registered' = registered \cup {email[s]}
          /\ step' = [step EXCEPT ![s] = "token"]
          /\ email' = email /\ answered' = answered
      BY <1>5, <2>1, <2>3 DEF Insert, Continue, AfterInsert
    <3>2. email[s] \notin registered
      BY <2>3 DEF Conflicts, users
    <3>3. Created(email[s]) = 0 /\ Holding(email[s]) = {}
      BY <2>1, <3>2 DEF HandedInv, Created, TypeOK, Normal, Answers
    <3>4. \A e \in Emails :
            /\ Created(e)' = Created(e)
            /\ Holding(e)' = IF e = email[s] THEN {s} ELSE Holding(e)
      BY <1>5, <3>1, <3>3 DEF Created, Holding, TypeOK, Insert
    <3> QED
      BY <3>1, <3>3, <3>4 DEF HandedInv
  <2> QED
    BY <2>2, <2>3
<1>6. ASSUME NEW s \in Servers, IssuesToken(s) PROVE HandedInv'
  <2>1. email[s] \in Normal /\ normalize_email(email[s]) = email[s]
        /\ email[s] \in Emails
    BY <1>6, Normalising DEF IssuesToken, TypeOK, Normal
  <2>2. s \in Holding(email[s])
    BY <1>6 DEF Holding, IssuesToken
  <2>3. \A e \in Emails :
          Created(e)' = IF e = email[s] THEN Created(e) + 1 ELSE Created(e)
    <3>1. /\ step[s] # "idle" /\ "created" \in Answers
          /\ Answer(s, "created")
      BY <1>6 DEF IssuesToken, Answers
    <3> QED
      BY <2>1, <3>1, AnswerCounts DEF Created
  <2>4. \A e \in Emails : Holding(e)' = Holding(e) \ {s}
    BY <1>6 DEF IssuesToken, Answer, Holding, TypeOK
  <2>5. registered' = registered
    BY <1>6 DEF IssuesToken
  <2> QED
    BY <2>1, <2>2, <2>3, <2>4, <2>5 DEF HandedInv
<1>7. ASSUME NEW s \in Servers, ServerLost(s) PROVE HandedInv'
  BY <1>7, <1>b DEF ServerLost, TypeOK
<1>8. ASSUME NEW e \in Emails, AdminAdds(e) PROVE HandedInv'
  BY <1>8, <1>b DEF AdminAdds
<1>9. CASE UNCHANGED vars
  BY <1>9, <1>b DEF vars
<1> QED
  BY <1>1, <1>2, <1>3, <1>4, <1>5, <1>6, <1>7, <1>8, <1>9 DEF Next, Serve

\* Nothing is handed out to begin with.
LEMMA HandedInit == Init => HandedInv
  BY DEF Init, HandedInv, Created, Holding, Answers

\* The invariant in the property's terms: a set whose members are all the same
\* has one member at most.
LEMMA HandedOutOnce ==
  ASSUME TypeOK, HandedInv
  PROVE  AccountIsHandedOutOnce
<1> SUFFICES ASSUME NEW e \in Emails
             PROVE  /\ Created(e) + Cardinality(Holding(e)) <= 1
                    /\ Created(e) > 0 => e \in registered
  BY DEF AccountIsHandedOutOnce, Holding
<1>1. Created(e) \in Nat
  BY DEF TypeOK, Created, Answers
<1>2. CASE Holding(e) = {}
  BY <1>1, <1>2, FS_EmptySet DEF HandedInv
<1>3. CASE Holding(e) # {}
  <2>1. PICK s \in Holding(e) : TRUE
    BY <1>3
  <2>2. Holding(e) = {s} /\ Created(e) = 0
    BY <2>1 DEF HandedInv
  <2>3. Cardinality(Holding(e)) = 1
    BY <2>2, FS_Singleton
  <2> QED
    BY <2>2, <2>3
<1> QED
  BY <1>2, <1>3

\* At most one client is told 201 for an address, however many servers race.
THEOREM AccountsAreHandedOutOnce == Spec => []AccountIsHandedOutOnce
  BY HandedInit, HandedStep, HandedOutOnce, RegistrationTypeCorrect, PTL DEF Spec

------------------------------------------------------------------------------
(* Refusals.                                                               *)

Refusals(e) == answered[<<e, "taken">>] + answered[<<e, "server_error">>]

\* Somebody has e's mailbox.
MailboxHasARow(e) == \E f \in users : iexact(e, f)

\* Nobody is refused an address whose mailbox has no row.
RefusedHaveRows == \A e \in Emails : Refusals(e) > 0 => MailboxHasARow(e)

\* Rows are never deleted, so refusals stay true.
LEMMA RowsStay ==
  ASSUME RefusedHaveRows, users \subseteq users',
         \A e \in Emails : Refusals(e)' = Refusals(e) \/ MailboxHasARow(e)
  PROVE  RefusedHaveRows'
<1>1. \A e \in Emails : MailboxHasARow(e) => MailboxHasARow(e)'
  BY DEF MailboxHasARow
<1> QED
  BY <1>1 DEF RefusedHaveRows

\* An answer that refuses is given when the row was there to be seen.
LEMMA RefusalsStep == TypeOK /\ RefusedHaveRows /\ [Next]_vars => RefusedHaveRows'
<1> SUFFICES ASSUME TypeOK, RefusedHaveRows, [Next]_vars PROVE RefusedHaveRows'
  OBVIOUS
<1>a. ASSUME UNCHANGED answered, users \subseteq users' PROVE RefusedHaveRows'
  BY <1>a, RowsStay DEF Refusals
<1>b. ASSUME NEW s \in Servers, step[s] # "idle", NEW a \in Answers,
             Answer(s, a), UNCHANGED users,
             a \in {"taken", "server_error"}
               => MailboxHasARow(normalize_email(email[s]))
      PROVE  RefusedHaveRows'
  <2>1. \A e \in Emails : Refusals(e)' = Refusals(e) \/ MailboxHasARow(e)
    BY <1>b, AnswerCounts DEF Refusals, Answers
  <2> QED
    BY <1>b, <2>1, RowsStay
<1>c. \A e, f, g \in Emails : e.mailbox = f.mailbox => (iexact(e, g) <=> iexact(f, g))
  BY DEF iexact
<1>d. users \subseteq Emails
  BY DEF TypeOK
<1>e. ASSUME NEW s \in Servers, email[s] \in Emails, MailboxHasARow(email[s])
      PROVE  MailboxHasARow(normalize_email(email[s]))
  BY <1>c, <1>d, <1>e, Normalising DEF MailboxHasARow, Normal
<1>f. ASSUME NEW e \in users PROVE MailboxHasARow(e)
  BY <1>f DEF MailboxHasARow, iexact
<1>g. \A s \in Servers : step[s] # "idle" => email[s] \in Emails
  BY DEF TypeOK
<1>1. ASSUME NEW s \in Servers, NEW e \in Emails, Receives(s, e)
      PROVE  RefusedHaveRows'
  BY <1>1, <1>a DEF Receives, users
<1>2. ASSUME NEW s \in Servers, UniqueValidator(s) PROVE RefusedHaveRows'
  BY <1>2, <1>a, <1>b, <1>e, <1>f, <1>g DEF UniqueValidator, Continue, users, Answers
<1>3. ASSUME NEW s \in Servers, ValidateEmail(s) PROVE RefusedHaveRows'
  <2>1. Taken(email[s]) => MailboxHasARow(email[s])
    BY DEF Taken, MailboxHasARow
  <2> QED
    BY <1>3, <2>1, <1>a, <1>b, <1>e, <1>g DEF ValidateEmail, users, Answers
<1>4. ASSUME NEW s \in Servers, ValidatePassword(s) PROVE RefusedHaveRows'
  BY <1>4, <1>a, <1>b DEF ValidatePassword, Continue, users, Answers
<1>5. ASSUME NEW s \in Servers, Insert(s) PROVE RefusedHaveRows'
  <2>1. Conflicts(normalize_email(email[s]))
          => MailboxHasARow(normalize_email(email[s]))
    BY <1>f DEF Conflicts
  <2> QED
    BY <1>5, <2>1, <1>a, <1>b DEF Insert, Continue, users, Answers
<1>6. ASSUME NEW s \in Servers, IssuesToken(s) PROVE RefusedHaveRows'
  BY <1>6, <1>b DEF IssuesToken, users, Answers
<1>7. ASSUME NEW s \in Servers, ServerLost(s) PROVE RefusedHaveRows'
  BY <1>7, <1>a DEF ServerLost, users
<1>8. ASSUME NEW e \in Emails, AdminAdds(e) PROVE RefusedHaveRows'
  BY <1>8, <1>a DEF AdminAdds, users
<1>9. CASE UNCHANGED vars
  BY <1>9, <1>a DEF vars, users
<1> QED
  BY <1>1, <1>2, <1>3, <1>4, <1>5, <1>6, <1>7, <1>8, <1>9 DEF Next, Serve

------------------------------------------------------------------------------
(* Requests that come one at a time.                                       *)

ServerErrors(e) == answered[<<e, "server_error">>]

\* The inductive invariant: while no two requests overlapped, one server is
\* busy at most, and between its check and its insert nobody registers the
\* mailbox; so the index objects only to users the administrator added.
AloneInv ==
  /\ addedUsers # {} => added >= 1
  /\ ~overlapped =>
       /\ \A s, t \in Servers : step[s] # "idle" /\ step[t] # "idle" => s = t
       /\ \A s \in Servers : step[s] \in {"validate_password", "insert"} =>
            /\ \A f \in registered : ~iexact(email[s], f)
            /\ ServerErrors(email[s]) = 0
       /\ \A e \in Emails : ServerErrors(e) <= added
       /\ OneAccountPerMailbox

\* Where nothing is answered or inserted, busy servers stay where they are or
\* are done, and a validated request keeps its address, AloneInv stays.
LEMMA AloneStays ==
  ASSUME AloneInv, UNCHANGED <<registered, addedUsers, added, overlapped>>,
         \A e \in Emails : ServerErrors(e)' = ServerErrors(e),
         \A s \in Servers :
           /\ step'[s] # "idle" => step[s] # "idle"
           /\ step'[s] \in {"validate_password", "insert"} =>
                /\ step[s] \in {"validate_password", "insert"}
                /\ email'[s] = email[s] /\ email[s] \in Emails
  PROVE  AloneInv'
  BY DEF AloneInv, OneAccountPerMailbox

\* The inductive step; what the check saw still holds at the insert of a request
\* that had nobody beside it.
LEMMA AloneStep ==
  TypeOK /\ RefusedHaveRows /\ AloneInv /\ [Next]_vars => AloneInv'
<1> SUFFICES ASSUME TypeOK, RefusedHaveRows, AloneInv, [Next]_vars PROVE AloneInv'
  OBVIOUS
<1>a. /\ added \in Nat
      /\ \A e \in Emails : ServerErrors(e) \in Nat
      /\ \A s \in Servers : step[s] # "idle" => email[s] \in Emails
  BY RegistrationBounds DEF TypeOK, ServerErrors, Answers
<1>b. ASSUME NEW s \in Servers, step[s] # "idle", NEW a \in Answers,
             a # "server_error", Answer(s, a),
             UNCHANGED <<registered, addedUsers, added, overlapped>>
      PROVE  AloneInv'
  <2>1. \A e \in Emails : ServerErrors(e)' = ServerErrors(e)
    BY <1>b, AnswerCounts DEF ServerErrors, Answers
  <2> QED
    BY <1>a, <1>b, <2>1, AloneStays DEF Answer, TypeOK
<1>1. ASSUME NEW s \in Servers, NEW e \in Emails, Receives(s, e) PROVE AloneInv'
  BY <1>1 DEF Receives, TypeOK, AloneInv, OneAccountPerMailbox, ServerErrors
<1>2. ASSUME NEW s \in Servers, UniqueValidator(s) PROVE AloneInv'
  <2>1. CASE Answer(s, "taken")
    BY <1>2, <2>1, <1>b DEF UniqueValidator, Answers
  <2>2. CASE Continue(s, "validate_email")
    BY <1>2, <2>2, <1>a, AloneStays DEF UniqueValidator, Continue, TypeOK, ServerErrors
  <2> QED
    BY <1>2, <2>1, <2>2 DEF UniqueValidator
<1>3. ASSUME NEW s \in Servers, ValidateEmail(s) PROVE AloneInv'
  <2>1. CASE Answer(s, "taken")
    BY <1>3, <2>1, <1>b DEF ValidateEmail, Answers
  <2>2. CASE ~Taken(email[s])
    <3> DEFINE n == normalize_email(email[s])
    <3>1. email[s] \in Emails /\ n \in Emails /\ n.mailbox = email[s].mailbox
      BY <1>3, <1>a, Normalising DEF ValidateEmail, Normal
    <3>2. \A f \in users : ~iexact(n, f)
      BY <2>2, <3>1 DEF Taken, iexact
    <3>3. ServerErrors(n) = 0
      <4>1. ~(Refusals(n) > 0)
        BY <3>1, <3>2 DEF RefusedHaveRows, MailboxHasARow
      <4>2. ServerErrors(n) \in Nat /\ answered[<<n, "taken">>] \in Nat
        BY <3>1 DEF ServerErrors, TypeOK, Answers
      <4> QED
        BY <4>1, <4>2 DEF Refusals, ServerErrors
    <3>4. /\ step' = [step EXCEPT ![s] = "validate_password"]
          /\ email' = [email EXCEPT ![s] = n]
          /\ UNCHANGED <<registered, addedUsers, added, overlapped, answered>>
      BY <1>3, <2>2 DEF ValidateEmail, Validated
    <3>5. step[s] = "validate_email"
      BY <1>3 DEF ValidateEmail
    <3>6. \A e \in Emails : ServerErrors(e)' = ServerErrors(e)
      BY <3>4 DEF ServerErrors
    <3>7. ServerErrors(email[s])' = 0 /\ email'[s] = n
      BY <3>3, <3>4 DEF ServerErrors, TypeOK
    <3>8. \A t \in Servers \ {s} : step'[t] = step[t]
      BY <3>4 DEF TypeOK
    <3>9. \A t \in Servers : step'[t] # "idle" => step[t] # "idle"
      BY <3>4, <3>5 DEF TypeOK
    <3>10. ~overlapped => \A t \in Servers \ {s} : step[t] = "idle"
      BY <3>5 DEF AloneInv
    <3>11. /\ addedUsers' = addedUsers /\ added' = added
           /\ registered' = registered /\ (overlapped' <=> overlapped)
      BY <3>4
    <3>12. \A t \in Servers :
             ~overlapped /\ step'[t] \in {"validate_password", "insert"} =>
               /\ \A f \in registered : ~iexact(email'[t], f)
               /\ ServerErrors(email[t])' = 0
      BY <3>2, <3>7, <3>8, <3>10 DEF users
    <3> QED
      BY <3>6, <3>9, <3>11, <3>12 DEF AloneInv, OneAccountPerMailbox
  <2> QED
    BY <1>3, <2>1, <2>2 DEF ValidateEmail
<1>4. ASSUME NEW s \in Servers, ValidatePassword(s) PROVE AloneInv'
  <2>1. CASE Answer(s, "weak_password")
    BY <1>4, <2>1, <1>b DEF ValidatePassword, Answers
  <2>2. CASE Continue(s, "insert")
    BY <1>4, <2>2, <1>a, AloneStays DEF ValidatePassword, Continue, TypeOK, ServerErrors
  <2> QED
    BY <1>4, <2>1, <2>2 DEF ValidatePassword
<1>5. ASSUME NEW s \in Servers, Insert(s) PROVE AloneInv'
  <2>1. email[s] \in Emails /\ normalize_email(email[s]) = email[s]
        /\ step[s] = "insert"
    BY <1>5, Normalising DEF Insert, TypeOK, Normal
  <2>2. \A t \in Servers \ {s} : ~overlapped => step[t] = "idle"
    BY <2>1 DEF AloneInv
  <2>3. ~overlapped => /\ ServerErrors(email[s]) = 0
                       /\ \A f \in registered : ~iexact(email[s], f)
    BY <2>1 DEF AloneInv
  <2>4. CASE Conflicts(email[s])
    <3>1. /\ Answer(s, "server_error")
          /\ UNCHANGED <<registered, addedUsers, added, overlapped>>
      BY <1>5, <2>1, <2>4 DEF Insert
    <3>2. \A e \in Emails : ServerErrors(e)' = IF e = email[s]
                                               THEN ServerErrors(e) + 1
                                               ELSE ServerErrors(e)
      <4>1. "server_error" \in Answers /\ step[s] # "idle"
        BY <2>1 DEF Answers
      <4> QED
        BY <2>1, <3>1, <4>1, AnswerCounts DEF ServerErrors
    <3>3. ~overlapped => added >= 1
      BY <2>3, <2>4 DEF Conflicts, users, iexact, AloneInv
    <3>4. \A t \in Servers : ~overlapped => step'[t] = "idle"
      BY <2>2, <3>1 DEF Answer, TypeOK
    <3>5. ~overlapped => \A e \in Emails : ServerErrors(e)' <= added
      BY <1>a, <2>1, <2>3, <3>2, <3>3 DEF AloneInv
    <3> QED
      BY <3>1, <3>4, <3>5 DEF AloneInv, OneAccountPerMailbox
  <2>5. CASE ~Conflicts(email[s])
    <3>1. /\ registered' = registered \cup {email[s]}
          /\ step' = [step EXCEPT ![s] = "token"]
          /\ UNCHANGED <<email, answered, addedUsers, added, overlapped>>
      BY <1>5, <2>1, <2>5 DEF Insert, Continue, AfterInsert
    <3>2. \A t \in Servers : ~overlapped => step'[t] \in {"idle", "token"}
      BY <2>2, <3>1 DEF TypeOK
    <3>3. OneAccountPerMailbox'
      BY <2>3, <3>1 DEF OneAccountPerMailbox, AloneInv, iexact
    <3>4. \A t, u \in Servers :
            ~overlapped /\ step'[t] # "idle" /\ step'[u] # "idle" => t = u
      BY <2>1, <3>1 DEF AloneInv, TypeOK
    <3>5. \A e \in Emails : ServerErrors(e)' = ServerErrors(e)
      BY <3>1 DEF ServerErrors
    <3>6. /\ addedUsers' = addedUsers /\ added' = added
          /\ (overlapped' <=> overlapped)
      BY <3>1
    <3> QED
      BY <3>2, <3>3, <3>4, <3>5, <3>6 DEF AloneInv
  <2> QED
    BY <2>4, <2>5
<1>6. ASSUME NEW s \in Servers, IssuesToken(s) PROVE AloneInv'
  BY <1>6, <1>b DEF IssuesToken, Answers
<1>7. ASSUME NEW s \in Servers, ServerLost(s) PROVE AloneInv'
  BY <1>7, <1>a, AloneStays DEF ServerLost, TypeOK, ServerErrors
<1>8. ASSUME NEW e \in Emails, AdminAdds(e) PROVE AloneInv'
  BY <1>8, <1>a DEF AdminAdds, AloneInv, OneAccountPerMailbox, ServerErrors
<1>9. CASE UNCHANGED vars
  BY <1>9 DEF vars, AloneInv, OneAccountPerMailbox, ServerErrors
<1> QED
  BY <1>1, <1>2, <1>3, <1>4, <1>5, <1>6, <1>7, <1>8, <1>9 DEF Next, Serve

\* Nobody was answered, and nobody is busy.
LEMMA AloneInit == Init => RefusedHaveRows /\ AloneInv
  BY RegistrationBounds
  DEF Init, RefusedHaveRows, Refusals, AloneInv, OneAccountPerMailbox,
      ServerErrors, Answers

\* Refusals are about mailboxes that have a row, and the server error of the
\* index needs overlapping requests or an administrator.
THEOREM RefusalsAreHonest == Spec => []RefusalIsHonest
<1>1. RefusedHaveRows /\ AloneInv => RefusalIsHonest
  BY DEF RefusedHaveRows, Refusals, MailboxHasARow, AloneInv, ServerErrors,
         RefusalIsHonest
<1> QED
  BY <1>1, AloneInit, RefusalsStep, AloneStep, RegistrationTypeCorrect, PTL
  DEF Spec

\* Without overlapping requests a mailbox registers once, however its address
\* is spelled.
THEOREM MailboxesRegisterOnce == Spec => []OneAccountPerMailbox
<1>1. AloneInv => OneAccountPerMailbox
  BY DEF AloneInv, OneAccountPerMailbox
<1> QED
  BY <1>1, AloneInit, RefusalsStep, AloneStep, RegistrationTypeCorrect, PTL
  DEF Spec

------------------------------------------------------------------------------
(* Accounts nobody was told of.                                            *)

Untold == {e \in registered : Created(e) = 0}
AtToken == {s \in Servers : step[s] = "token"}

\* The inductive invariant.
UntoldInv == IsFiniteSet(registered) /\ UntoldAccountsNeedACrash

\* Both sets are finite, so they can be counted.
LEMMA CountedSets ==
  ASSUME UntoldInv
  PROVE  /\ IsFiniteSet(Untold) /\ Cardinality(Untold) \in Nat
         /\ IsFiniteSet(AtToken) /\ Cardinality(AtToken) \in Nat
<1>1. IsFiniteSet(Untold)
  BY FS_Subset DEF UntoldInv, Untold
<1>2. IsFiniteSet(AtToken)
  BY FS_Subset, ServersAreFinite DEF AtToken
<1> QED
  BY <1>1, <1>2, FS_CardinalityType

\* Where no row is inserted or told of, and no server comes to or leaves its
\* token, nothing changes.
LEMMA UntoldStays ==
  ASSUME UntoldInv, UNCHANGED <<registered, crashes>>,
         \A e \in registered : Created(e)' = Created(e),
         \A s \in Servers : step'[s] = "token" <=> step[s] = "token"
  PROVE  UntoldInv'
<1>1. Untold' = Untold /\ AtToken' = AtToken
  BY DEF Untold, AtToken
<1> QED
  BY <1>1 DEF UntoldInv, UntoldAccountsNeedACrash, Untold, AtToken

\* An insert adds one to either side, an answer takes one from either, and a
\* lost server moves one from the busy to the lost.
LEMMA UntoldStep == TypeOK /\ HandedInv /\ UntoldInv /\ [Next]_vars => UntoldInv'
<1> SUFFICES ASSUME TypeOK, HandedInv, UntoldInv, [Next]_vars PROVE UntoldInv'
  OBVIOUS
<1>a. /\ registered \subseteq Emails
      /\ Cardinality(Untold) <= crashes + Cardinality(AtToken)
      /\ crashes \in Nat
  BY RegistrationBounds
  DEF TypeOK, users, UntoldInv, UntoldAccountsNeedACrash, Untold, AtToken
<1>b. ASSUME NEW s \in Servers, step[s] \notin {"idle", "token"}, NEW a \in Answers,
             a # "created", Answer(s, a), UNCHANGED <<registered, crashes>>
      PROVE  UntoldInv'
  <2>1. \A e \in registered : Created(e)' = Created(e)
    BY <1>a, <1>b, AnswerCounts DEF Created, Answers
  <2> QED
    BY <1>b, <2>1, UntoldStays DEF Answer, TypeOK
<1>c. ASSUME UNCHANGED <<registered, crashes, answered>>,
             \A s \in Servers : step'[s] = "token" <=> step[s] = "token"
      PROVE  UntoldInv'
  BY <1>c, UntoldStays DEF Created
<1>d. ASSUME IsFiniteSet(registered'),
             Cardinality(Untold') <= crashes' + Cardinality(AtToken')
      PROVE  UntoldInv'
  BY <1>d DEF UntoldInv, UntoldAccountsNeedACrash, Untold, AtToken
<1>1. ASSUME NEW s \in Servers, NEW e \in Emails, Receives(s, e) PROVE UntoldInv'
  BY <1>1, <1>c DEF Receives, TypeOK
<1>2. ASSUME NEW s \in Servers, UniqueValidator(s) PROVE UntoldInv'
  <2>1. CASE Answer(s, "taken")
    BY <1>2, <2>1, <1>b DEF UniqueValidator, Answers
  <2>2. CASE Continue(s, "validate_email")
    BY <1>2, <2>2, <1>c DEF UniqueValidator, Continue, TypeOK
  <2> QED
    BY <1>2, <2>1, <2>2 DEF UniqueValidator
<1>3. ASSUME NEW s \in Servers, ValidateEmail(s) PROVE UntoldInv'
  <2>1. CASE Answer(s, "taken")
    BY <1>3, <2>1, <1>b DEF ValidateEmail, Answers
  <2>2. CASE ~Taken(email[s])
    BY <1>3, <2>2, <1>c DEF ValidateEmail, TypeOK
  <2> QED
    BY <1>3, <2>1, <2>2 DEF ValidateEmail
<1>4. ASSUME NEW s \in Servers, ValidatePassword(s) PROVE UntoldInv'
  <2>1. CASE Answer(s, "weak_password")
    BY <1>4, <2>1, <1>b DEF ValidatePassword, Answers
  <2>2. CASE Continue(s, "insert")
    BY <1>4, <2>2, <1>c DEF ValidatePassword, Continue, TypeOK
  <2> QED
    BY <1>4, <2>1, <2>2 DEF ValidatePassword
<1>5. ASSUME NEW s \in Servers, Insert(s) PROVE UntoldInv'
  <2>1. email[s] \in Emails /\ normalize_email(email[s]) = email[s]
        /\ step[s] = "insert"
    BY <1>5, Normalising DEF Insert, TypeOK, Normal
  <2>2. CASE Conflicts(email[s])
    BY <1>5, <2>1, <2>2, <1>b DEF Insert, Answers
  <2>3. CASE ~Conflicts(email[s])
    <3>1. /\ registered' = registered \cup {email[s]}
          /\ step' = [step EXCEPT ![s] = "token"]
          /\ crashes' = crashes /\ answered' = answered
      BY <1>5, <2>1, <2>3 DEF Insert, Continue, AfterInsert
    <3>2. email[s] \notin registered
      BY <2>3 DEF Conflicts, users
    <3>3. Created(email[s]) = 0
      BY <2>1, <3>2 DEF HandedInv, Created, TypeOK, Answers
    <3>4. Untold' = Untold \cup {email[s]} /\ email[s] \notin Untold
      BY <3>1, <3>2, <3>3 DEF Untold, Created
    <3>5. AtToken' = AtToken \cup {s} /\ s \notin AtToken
      BY <2>1, <3>1 DEF AtToken, TypeOK
    <3>6. /\ Cardinality(Untold') = Cardinality(Untold) + 1
          /\ Cardinality(AtToken') = Cardinality(AtToken) + 1
      BY <3>4, <3>5, CountedSets, FS_AddElement
    <3>7. IsFiniteSet(registered')
      BY <3>1, FS_AddElement DEF UntoldInv
    <3> QED
      BY <1>a, <1>d, <3>1, <3>6, <3>7, CountedSets
  <2> QED
    BY <2>2, <2>3
<1>6. ASSUME NEW s \in Servers, IssuesToken(s) PROVE UntoldInv'
  <2>1. /\ email[s] \in Emails /\ normalize_email(email[s]) = email[s]
        /\ s \in Holding(email[s]) /\ s \in AtToken
        /\ step[s] # "idle" /\ "created" \in Answers /\ Answer(s, "created")
    BY <1>6, Normalising
    DEF IssuesToken, TypeOK, Normal, Holding, AtToken, Answers
  <2>2. email[s] \in Untold
    BY <2>1 DEF HandedInv, Untold
  <2>3. \A e \in Emails :
          Created(e)' = IF e = email[s] THEN Created(e) + 1 ELSE Created(e)
    BY <2>1, AnswerCounts DEF Created
  <2>4. UNCHANGED <<registered, crashes>>
    BY <1>6 DEF IssuesToken
  <2>5. Untold' = Untold \ {email[s]}
    BY <1>a, <2>2, <2>3, <2>4 DEF Untold
  <2>6. AtToken' = AtToken \ {s}
    BY <2>1 DEF Answer, AtToken, TypeOK
  <2>7. /\ Cardinality(Untold') = Cardinality(Untold) - 1
        /\ Cardinality(AtToken') = Cardinality(AtToken) - 1
    BY <2>1, <2>2, <2>5, <2>6, CountedSets, FS_RemoveElement
  <2> QED
    BY <1>a, <1>d, <2>4, <2>7, CountedSets DEF UntoldInv
<1>7. ASSUME NEW s \in Servers, ServerLost(s) PROVE UntoldInv'
  <2>1. CASE step[s] = "token"
    <3>1. AtToken' = AtToken \ {s} /\ s \in AtToken
      BY <1>7, <2>1 DEF ServerLost, AtToken, TypeOK
    <3>2. Untold' = Untold /\ registered' = registered /\ crashes' = crashes + 1
      BY <1>7 DEF ServerLost, Untold, Created
    <3>3. Cardinality(AtToken') = Cardinality(AtToken) - 1
      BY <3>1, CountedSets, FS_RemoveElement
    <3> QED
      BY <1>a, <1>d, <3>2, <3>3, CountedSets DEF UntoldInv
  <2>2. CASE step[s] # "token"
    <3>1. AtToken' = AtToken /\ Untold' = Untold
          /\ registered' = registered /\ crashes' = crashes + 1
      BY <1>7, <2>2 DEF ServerLost, AtToken, Untold, Created, TypeOK
    <3> QED
      BY <1>a, <1>d, <3>1, CountedSets DEF UntoldInv
  <2> QED
    BY <2>1, <2>2
<1>8. ASSUME NEW e \in Emails, AdminAdds(e) PROVE UntoldInv'
  BY <1>8, <1>c DEF AdminAdds
<1>9. CASE UNCHANGED vars
  BY <1>9, <1>c DEF vars
<1> QED
  BY <1>1, <1>2, <1>3, <1>4, <1>5, <1>6, <1>7, <1>8, <1>9 DEF Next, Serve

\* No account to begin with.
LEMMA UntoldInit == Init => UntoldInv
<1> SUFFICES ASSUME Init PROVE UntoldInv
  OBVIOUS
<1>1. registered = {} /\ Untold = {} /\ AtToken = {} /\ crashes = 0
  BY DEF Init, Untold, AtToken
<1> QED
  BY <1>1, FS_EmptySet
  DEF UntoldInv, UntoldAccountsNeedACrash, Untold, AtToken

\* Every account whose owner was never told of it is paid for by a lost server,
\* or is being answered.
THEOREM UntoldAccountsAreExplained == Spec => []UntoldAccountsNeedACrash
<1>1. UntoldInv => UntoldAccountsNeedACrash
  BY DEF UntoldInv
<1> QED
  BY <1>1, UntoldInit, UntoldStep, HandedInit, HandedStep,
     RegistrationTypeCorrect, PTL DEF Spec
==============================================================================
