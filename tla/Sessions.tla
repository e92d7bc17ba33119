------------------------------- MODULE Sessions ------------------------------
(***************************************************************************)
(* The sessions of one account: the token, refresh, logout and profile     *)
(* views of src/src/cryptovira/apps/accounts/api under SIMPLE_JWT of       *)
(* settings.py (refresh tokens rotate, and a rotated or logged-out one is  *)
(* blacklisted), and the administrator who deactivates the account.        *)
(*                                                                         *)
(* The views of simplejwt are external; what they do is a sequence of      *)
(* queries with no transaction and no lock around them, and requests       *)
(* interleave there.  A session is the chain of refresh tokens that begins *)
(* with a login and grows with each rotation.  The client presents tokens  *)
(* it was told of, perhaps the same one twice, or one it has exchanged.    *)
(***************************************************************************)
EXTENDS Integers, FiniteSets, Sequences

CONSTANTS
  Servers,         \* processes that answer requests
  AccessLifetime,  \* ACCESS_TOKEN_LIFETIME, in instants
  RefreshLifetime, \* REFRESH_TOKEN_LIFETIME
  MaxTime,         \* bound: the last instant
  MaxTokens,       \* bound: refresh tokens issued
  MaxDisturbed     \* bound: servers lost, or responses lost on their way, and
                   \* changes of is_active by an administrator

ASSUME ServersAreFinite == IsFiniteSet(Servers)
ASSUME SessionBounds ==
  /\ AccessLifetime \in Nat \ {0}
  /\ RefreshLifetime \in Nat \ {0}
  /\ MaxTime \in Nat
  /\ MaxTokens \in Nat
  /\ MaxDisturbed \in Nat

Ids == 1 .. MaxTokens
NoToken == 0
Never == -1

Rotating == {"user", "blacklist", "issue"}
LoggingOut == {"verify", "logout"}
\* The token was looked up in the blacklist, and is not there yet.
Verified == {"user", "blacklist", "logout"}

VARIABLES
  now,         \* the time on every server
  active,      \* User.is_active
  tokens,      \* OutstandingToken: session, predecessor, expiry, and the
               \* expiry of the access token that was issued beside it
  blacklisted, \* BlacklistedToken
  told,        \* the tokens whose response reached the client
  step,        \* server -> "idle" or what its request does next
  token,       \* server -> the token its request works on, or has made
  taken,       \* server -> the instant its new token counts from
  locked,      \* history: the administrator's last word was to deactivate
  admitted,    \* history: the servers still busy that had looked before
  exposed,     \* history: a profile update had loaded the account before
  ended,       \* history: session -> when a logout of it succeeded
  refused,     \* history: tokens a logout was refused for
  overlapped,  \* history: tokens two requests had verified at once
  lost, toggles   \* history: what the bounds count

requests == <<step, token, taken, admitted>>
account == <<active, locked, exposed>>
history == <<ended, refused, overlapped, lost, toggles>>
vars == <<now, account, tokens, blacklisted, told, requests, history>>

Issued == DOMAIN tokens
SessionOf(t) == tokens[t].session
InSession(c) == {t \in Issued : SessionOf(t) = c}

Init ==
  /\ now = 0
  /\ active = TRUE /\ locked = FALSE /\ admitted = {} /\ exposed = FALSE
  /\ tokens = <<>> /\ blacklisted = {} /\ told = {}
  /\ step = [s \in Servers |-> "idle"]
  /\ token = [s \in Servers |-> NoToken]
  /\ taken = [s \in Servers |-> 0]
  /\ ended = [c \in Ids |-> Never]
  /\ refused = {} /\ overlapped = {}
  /\ lost = 0 /\ toggles = 0

------------------------------------------------------------------------------
TimePasses ==
  /\ now < MaxTime
  /\ now' = now + 1
  /\ UNCHANGED <<account, tokens, blacklisted, told, requests, history>>

\* Its request has looked at the account, and no more than that is ahead of it.
PastTheCheck(s) == step[s] \in {"blacklist", "issue", "profile"}

\* The admin form's is_active.
ToggleUser ==
  /\ lost + toggles < MaxDisturbed
  /\ toggles' = toggles + 1
  /\ active' = ~active
  /\ locked' = active
  /\ admitted' = {s \in Servers : active /\ PastTheCheck(s)}
  /\ exposed' = (active /\ \E s \in Servers : step[s] = "profile")
  /\ UNCHANGED <<now, tokens, blacklisted, told, step, token, taken,
                 ended, refused, overlapped, lost>>

Unexpired(t) == now < tokens[t].expires

\* Mutant: the token_blacklist app is not installed.
UnexpiredIsGood(t) == Unexpired(t)

\* What RefreshToken(...) asks of a token; otherwise it raises TokenError.
Good(t) == Unexpired(t) /\ t \notin blacklisted

\* A request that issues a token has room for it.
Room ==
  Len(tokens) + Cardinality({s \in Servers : step[s] \in Rotating}) < MaxTokens

Receive(s, t, next) ==
  /\ step[s] = "idle"
  /\ step' = [step EXCEPT ![s] = next]
  /\ token' = [token EXCEPT ![s] = t]
  /\ UNCHANGED admitted

TakesTime(s) == taken' = [taken EXCEPT ![s] = now]

Continue(s, next) ==
  /\ step' = [step EXCEPT ![s] = next]
  /\ UNCHANGED <<token, taken, admitted>>

Answer(s) ==
  /\ admitted' = admitted \ {s}
  /\ step' = [step EXCEPT ![s] = "idle"]
  /\ token' = [token EXCEPT ![s] = NoToken]
  /\ taken' = [taken EXCEPT ![s] = 0]

\* Another request verified t and has not blacklisted it yet.
Shared(t) == \E s \in Servers : step[s] \in Verified /\ token[s] = t
NoteOverlap(t) ==
  overlapped' = IF Shared(t) THEN overlapped \cup {t} ELSE overlapped

------------------------------------------------------------------------------
(* LoginView (and the token RegisterView answers with).                    *)

\* Mutant: USER_AUTHENTICATION_RULE lets every account in.
Anyone == TRUE

\* An account that is not active is refused, at the login and afterwards.
MayEnter == active

\* The password is right and the account may enter; for_user builds a token.
LoginAuthenticates(s) ==
  /\ Room
  /\ MayEnter
  /\ Receive(s, NoToken, "issue") /\ TakesTime(s)
  /\ UNCHANGED <<now, account, tokens, blacklisted, told, history>>

------------------------------------------------------------------------------
(* TokenRefreshView.                                                       *)

\* Mutant: the account is looked at when its token is spent.
AfterInWrongOrder(done) ==
  CASE done = "verified" -> "blacklist"
    [] done = "blacklist" -> "user"
    [] done = "user" -> "issue"

\* TokenRefreshSerializer.validate, one query after another.
After(done) ==
  CASE done = "verified" -> "user"
    [] done = "user" -> "blacklist"
    [] done = "blacklist" -> "issue"

RefreshVerifies(s, t) ==
  /\ Room
  /\ Good(t)
  /\ Receive(s, t, After("verified")) /\ TakesTime(s)
  /\ NoteOverlap(t)
  /\ UNCHANGED <<now, account, tokens, blacklisted, told,
                 ended, refused, lost, toggles>>

\* An account that is refused keeps its token.
RefreshChecksUser(s) ==
  /\ step[s] = "user"
  /\ IF MayEnter THEN Continue(s, After("user")) ELSE Answer(s)
  /\ UNCHANGED <<now, account, tokens, blacklisted, told, history>>

\* Mutant: BLACKLIST_AFTER_ROTATION is off.
SpendNothing(t) == {}

Spend(t) == {t}

\* get_or_create: a token another request blacklisted meanwhile is fine.
RefreshBlacklists(s) ==
  /\ step[s] = "blacklist"
  /\ blacklisted' = blacklisted \cup Spend(token[s])
  /\ Continue(s, After("blacklist"))
  /\ UNCHANGED <<now, account, tokens, told, history>>

\* Both expiries count from when the token object was made.
IssuesToken(s) ==
  LET id == Len(tokens) + 1
      parent == token[s]
  IN
  /\ step[s] = "issue"
  /\ tokens' = Append(tokens,
                 [session |-> IF parent = NoToken THEN id ELSE SessionOf(parent),
                  parent |-> parent,
                  expires |-> taken[s] + RefreshLifetime,
                  access |-> taken[s] + AccessLifetime])
  /\ step' = [step EXCEPT ![s] = "respond"]
  /\ token' = [token EXCEPT ![s] = id]
  /\ taken' = [taken EXCEPT ![s] = 0]
  /\ UNCHANGED <<now, account, blacklisted, told, admitted, history>>

Responds(s) ==
  /\ step[s] = "respond"
  /\ told' = told \cup {token[s]}
  /\ Answer(s)
  /\ UNCHANGED <<now, account, tokens, blacklisted, history>>

------------------------------------------------------------------------------
(* LogoutView.                                                             *)

\* IsAuthenticated, with any access token of the account.
IsAuthenticated == MayEnter /\ \E t \in told : now < tokens[t].access

LogoutAuthenticates(s, t) ==
  /\ IsAuthenticated
  /\ Receive(s, t, "verify")
  /\ UNCHANGED <<now, taken, account, tokens, blacklisted, told, history>>

\* A TokenError becomes a 400.
LogoutVerifies(s) ==
  /\ step[s] = "verify"
  /\ IF Good(token[s])
     THEN Continue(s, "logout") /\ NoteOverlap(token[s]) /\ UNCHANGED refused
     ELSE /\ Answer(s)
          /\ refused' = refused \cup {token[s]}
          /\ UNCHANGED overlapped
  /\ UNCHANGED <<now, account, tokens, blacklisted, told, ended, lost, toggles>>

\* The 205 goes out.
LogoutBlacklists(s) ==
  LET c == SessionOf(token[s]) IN
  /\ step[s] = "logout"
  /\ blacklisted' = blacklisted \cup {token[s]}
  /\ ended' = [ended EXCEPT ![c] = IF @ = Never THEN now ELSE @]
  /\ Answer(s)
  /\ UNCHANGED <<now, account, tokens, told, refused, overlapped, lost, toggles>>

------------------------------------------------------------------------------
(* MeView.                                                                 *)

\* PATCH: the account was loaded when the request was authenticated ...
ProfileLoads(s) ==
  /\ IsAuthenticated
  /\ Receive(s, NoToken, "profile")
  /\ UNCHANGED <<now, taken, account, tokens, blacklisted, told, history>>

\* ... and is saved with all its columns, is_active as it was loaded.
ProfileSaves(s) ==
  /\ step[s] = "profile"
  /\ active' = TRUE
  /\ Answer(s)
  /\ UNCHANGED <<now, locked, exposed, tokens, blacklisted, told, history>>

------------------------------------------------------------------------------
\* The process dies under the request, or its response is lost: what it
\* wrote stays.
ServerLost(s) ==
  /\ step[s] # "idle"
  /\ lost + toggles < MaxDisturbed
  /\ lost' = lost + 1
  /\ Answer(s)
  /\ UNCHANGED <<now, account, tokens, blacklisted, told,
                 ended, refused, overlapped, toggles>>

Serve(s) ==
  \/ LoginAuthenticates(s)
  \/ \E t \in told : RefreshVerifies(s, t) \/ LogoutAuthenticates(s, t)
  \/ RefreshChecksUser(s)
  \/ RefreshBlacklists(s)
  \/ IssuesToken(s)
  \/ Responds(s)
  \/ LogoutVerifies(s)
  \/ LogoutBlacklists(s)
  \/ ProfileLoads(s)
  \/ ProfileSaves(s)

Next ==
  \/ TimePasses
  \/ ToggleUser
  \/ \E s \in Servers : Serve(s) \/ ServerLost(s)

Spec == Init /\ [][Next]_vars

------------------------------------------------------------------------------
(* Properties.                                                             *)

Tokens == [session : Ids, parent : Ids \cup {NoToken}, expires : Nat, access : Nat]

\* Types; a request works on a token the client was told of, or on one it has
\* just made.
TypeOK ==
  /\ now \in 0 .. MaxTime
  /\ active \in BOOLEAN /\ locked \in BOOLEAN /\ exposed \in BOOLEAN
  /\ admitted \subseteq Servers
  /\ tokens \in Seq(Tokens) /\ Len(tokens) <= MaxTokens
  /\ blacklisted \subseteq Issued /\ told \subseteq Issued
  /\ step \in [Servers -> {"idle", "respond", "profile"} \cup Rotating \cup LoggingOut]
  /\ token \in [Servers -> Issued \cup {NoToken}]
  /\ taken \in [Servers -> 0 .. now]
  /\ ended \in [Ids -> 0 .. now \cup {Never}]
  /\ refused \subseteq told /\ overlapped \subseteq told
  /\ lost \in Nat /\ toggles \in Nat
  /\ \A s \in Servers :
       /\ step[s] \in Verified \cup {"verify"} => token[s] \in told
       /\ step[s] = "respond" => token[s] \in Issued \ told
       /\ step[s] = "idle" => token[s] = NoToken

Successors(t) == {n \in Issued : tokens[n].parent = t}

\* A refresh token is exchanged once, unless two requests had verified it
\* before either had blacklisted it (settings.py:155-159).
ExchangedOnce ==
  \A t \in Issued \ overlapped : Cardinality(Successors(t)) <= 1

\* A logout that succeeds ends its session: no refresh token of it is good
\* any more, none is about to be issued, and every access token of it expires
\* within ACCESS_TOKEN_LIFETIME; unless a rotation of the same token was under
\* way beside it (api/views.py:66-72, 80-88).
LogoutEndsSession ==
  \A c \in Issued : ended[c] # Never /\ InSession(c) \cap overlapped = {} =>
    /\ \A t \in InSession(c) :
         ~Good(t) /\ tokens[t].access <= ended[c] + AccessLifetime
    /\ \A s \in Servers :
         step[s] \in {"blacklist", "issue"} => token[s] \notin InSession(c)

\* A session is lost without a logout only by a response that never came:
\* each token that was spent was spent for a successor the client was told of,
\* and an account that is refused keeps its token (settings.py:155-159).
SpentForASuccessor ==
  Cardinality({t \in blacklisted : ended[SessionOf(t)] = Never
                                   /\ Successors(t) \cap told = {}})
    <= lost + Cardinality({s \in Servers : step[s] \in {"issue", "respond"}})

\* "the caller's desired end state (no valid session) is already true" when a
\* logout is refused: so it is for a client that presents the newest token of
\* its session, and whose requests did not overlap (api/views.py:83-87).
RefusedLogoutMeansEnded ==
  \A t \in refused :
    Successors(t) \cap told = {} /\ InSession(SessionOf(t)) \cap overlapped = {}
      => \A u \in InSession(SessionOf(t)) \cap told : ~Good(u)

\* An account the administrator deactivated stays shut: it is not active, and
\* no request is on its way to a token that had not looked at the account
\* before; unless a profile update had loaded the account before, whose save
\* makes it active again (accounts/models.py:53-56, api/views.py:91-107).
LockedOut ==
  locked /\ ~exposed =>
    /\ ~active
    /\ {s \in Servers : PastTheCheck(s)} \subseteq admitted
==============================================================================
