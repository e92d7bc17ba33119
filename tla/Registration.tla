----------------------------- MODULE Registration ----------------------------
(***************************************************************************)
(* POST /api/v1/accounts/register/: RegisterView and RegisterSerializer of *)
(* src/src/cryptovira/apps/accounts/api, UserManager.create_user and the   *)
(* unique email column of accounts/models.py, with requests that run       *)
(* beside one another and users that an administrator adds.                *)
(*                                                                         *)
(* An address is a mailbox and the spellings of its local part and of its  *)
(* domain: normalize_email rewrites the domain only, the serializer's      *)
(* iexact query ignores both spellings, and the column's unique index      *)
(* compares both.  REST framework's own validator of the unique column     *)
(* looks for the address as it was sent.  No transaction spans a request.  *)
(***************************************************************************)
EXTENDS Naturals, FiniteSets

CONSTANTS
  Servers,     \* processes that answer requests
  Mailboxes,   \* addresses up to spelling
  MaxRequests, \* bound: requests received
  MaxAdded,    \* bound: users added through the admin site
  MaxCrashes   \* bound: servers lost while answering

ASSUME ServersAreFinite == IsFiniteSet(Servers)
ASSUME RegistrationBounds ==
  MaxRequests \in Nat /\ MaxAdded \in Nat /\ MaxCrashes \in Nat

Spellings == {"lower", "mixed"}
Emails == [mailbox : Mailboxes, local : Spellings, domain : Spellings]
NoEmail == [mailbox |-> "none"]

normalize_email(e) == [e EXCEPT !.domain = "lower"]
iexact(e, f) == e.mailbox = f.mailbox

Answers == {"created", "taken", "weak_password", "server_error"}
Steps == {"unique_validator", "validate_email", "validate_password", "insert",
          "token"}

VARIABLES
  registered,  \* email column of the rows that requests inserted
  addedUsers,  \* email column of the rows an administrator added
  step,        \* server -> "idle" or what its request does next
  email,       \* server -> the address of its request
  answered,    \* history: answers given, by normalised address
  overlapped,  \* history: two requests were being answered at one time
  requests, added, crashes   \* history: what the bounds count

vars == <<registered, addedUsers, step, email, answered, overlapped,
          requests, added, crashes>>

users == registered \cup addedUsers

Init ==
  /\ registered = {} /\ addedUsers = {}
  /\ step = [s \in Servers |-> "idle"]
  /\ email = [s \in Servers |-> NoEmail]
  /\ answered = [v \in Emails \X Answers |-> 0]
  /\ overlapped = FALSE
  /\ requests = 0 /\ added = 0 /\ crashes = 0

------------------------------------------------------------------------------
Receives(s, e) ==
  /\ step[s] = "idle"
  /\ requests < MaxRequests
  /\ requests' = requests + 1
  /\ step' = [step EXCEPT ![s] = "unique_validator"]
  /\ email' = [email EXCEPT ![s] = e]
  /\ overlapped' = (overlapped \/ \E t \in Servers : step[t] # "idle")
  /\ UNCHANGED <<registered, addedUsers, answered, added, crashes>>

\* The response is sent and the request is over.
Answer(s, a) ==
  /\ answered' = [answered EXCEPT ![<<normalize_email(email[s]), a>>] = @ + 1]
  /\ step' = [step EXCEPT ![s] = "idle"]
  /\ email' = [email EXCEPT ![s] = NoEmail]

Continue(s, next) ==
  /\ step' = [step EXCEPT ![s] = next]
  /\ UNCHANGED <<email, answered>>

UniqueValidator(s) ==
  /\ step[s] = "unique_validator"
  /\ IF email[s] \in users THEN Answer(s, "taken")
                           ELSE Continue(s, "validate_email")
  /\ UNCHANGED <<registered, addedUsers, overlapped, requests, added, crashes>>

\* What validate_email returns.
Validated(e) == normalize_email(e)

\* Mutant: the query has lost its filter.
AnyoneIs(e) == users # {}

\* Mutant: validate_email asks nobody.
NeverTaken(e) == FALSE

Taken(e) == \E f \in users : iexact(e, f)

\* From here on the request carries the validated address.
ValidateEmail(s) ==
  /\ step[s] = "validate_email"
  /\ IF Taken(email[s])
     THEN Answer(s, "taken")
     ELSE /\ step' = [step EXCEPT ![s] = "validate_password"]
          /\ email' = [email EXCEPT ![s] = Validated(@)]
          /\ UNCHANGED answered
  /\ UNCHANGED <<registered, addedUsers, overlapped, requests, added, crashes>>

\* The password validators take the password or refuse it.
ValidatePassword(s) ==
  /\ step[s] = "validate_password"
  /\ Answer(s, "weak_password") \/ Continue(s, "insert")
  /\ UNCHANGED <<registered, addedUsers, overlapped, requests, added, crashes>>

\* Mutant: the email column is not unique.
NeverConflicts(e) == FALSE

\* The unique index compares addresses letter by letter.
Conflicts(e) == e \in users

\* Mutant: the password is validated once more when the row is there.
PasswordAgain == "validate_password"

AfterInsert == "token"

\* create_user normalises again and saves the row; the IntegrityError of the
\* unique index is caught nowhere.
Insert(s) ==
  LET e == normalize_email(email[s]) IN
  /\ step[s] = "insert"
  /\ IF Conflicts(e)
     THEN Answer(s, "server_error") /\ UNCHANGED registered
     ELSE registered' = registered \cup {e} /\ Continue(s, AfterInsert)
  /\ UNCHANGED <<addedUsers, overlapped, requests, added, crashes>>

\* RefreshToken.for_user, and the response that carries the tokens.
IssuesToken(s) ==
  /\ step[s] = "token"
  /\ Answer(s, "created")
  /\ UNCHANGED <<registered, addedUsers, overlapped, requests, added, crashes>>

\* The process dies under the request: what it inserted stays.
ServerLost(s) ==
  /\ step[s] # "idle"
  /\ crashes < MaxCrashes
  /\ crashes' = crashes + 1
  /\ step' = [step EXCEPT ![s] = "idle"]
  /\ email' = [email EXCEPT ![s] = NoEmail]
  /\ UNCHANGED <<registered, addedUsers, answered, overlapped, requests, added>>

\* The admin form checks the unique column and no spelling variant of it.
AdminAdds(e) ==
  LET n == normalize_email(e) IN
  /\ added < MaxAdded
  /\ n \notin users
  /\ added' = added + 1
  /\ addedUsers' = addedUsers \cup {n}
  /\ UNCHANGED <<registered, step, email, answered, overlapped,
                 requests, crashes>>

Serve(s) ==
  \/ UniqueValidator(s)
  \/ ValidateEmail(s)
  \/ ValidatePassword(s)
  \/ Insert(s)
  \/ IssuesToken(s)

Next ==
  \/ \E s \in Servers, e \in Emails : Receives(s, e)
  \/ \E s \in Servers : Serve(s) \/ ServerLost(s)
  \/ \E e \in Emails : AdminAdds(e)

Spec == Init /\ [][Next]_vars

------------------------------------------------------------------------------
(* Properties.                                                             *)

\* Types; the column holds normalised addresses only, and so does a request
\* that has been validated.
TypeOK ==
  /\ users \subseteq {e \in Emails : e.domain = "lower"}
  /\ step \in [Servers -> Steps \cup {"idle"}]
  /\ email \in [Servers -> Emails \cup {NoEmail}]
  /\ answered \in [Emails \X Answers -> Nat]
  /\ overlapped \in BOOLEAN
  /\ requests \in 0 .. MaxRequests
  /\ added \in 0 .. MaxAdded /\ crashes \in 0 .. MaxCrashes
  /\ \A s \in Servers :
       /\ step[s] = "idle" <=> email[s] = NoEmail
       /\ step[s] \in {"validate_password", "insert", "token"}
            => email[s].domain = "lower"

Created(e) == answered[<<e, "created">>]

\* However requests interleave, an account is handed out once: at most one
\* client is told 201 for an address, and then the row is there
\* (accounts/models.py:44-48, api/views.py:36-48).
AccountIsHandedOutOnce ==
  \A e \in Emails :
    Created(e) + Cardinality({s \in Servers : step[s] = "token"
                                              /\ email[s] = e}) <= 1
    /\ (Created(e) > 0 => e \in registered)

\* Whoever is told that an address is taken, or gets the server error of the
\* lost race, is told so of a mailbox that has a row; and as long as requests
\* come one at a time the unique index never raises, but over a user the
\* administrator added meanwhile (api/serializers.py:48-56).
RefusalIsHonest ==
  \A e \in Emails :
    /\ answered[<<e, "taken">>] + answered[<<e, "server_error">>] > 0
         => \E f \in users : iexact(e, f)
    /\ ~overlapped => answered[<<e, "server_error">>] <= added

\* An account that nobody was told of is the trace of a lost server: its
\* owner's retry is refused as taken, since nothing undoes the insert
\* (api/views.py:36-48).
UntoldAccountsNeedACrash ==
  Cardinality({e \in registered : Created(e) = 0})
    <= crashes + Cardinality({s \in Servers : step[s] = "token"})

\* As long as requests come one at a time, a mailbox has one registered
\* account, whatever the spelling.  Under concurrent requests the index, which
\* compares spellings, lets two of them in (api/serializers.py:49-56,
\* accounts/models.py:48).
OneAccountPerMailbox ==
  ~overlapped => \A e, f \in registered : iexact(e, f) => e = f
==============================================================================
