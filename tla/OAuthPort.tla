----------------------------- MODULE OAuthPort -----------------------------
(***************************************************************************)
(* OAuth on the host (kernel/oauth-port.ts, kernel/oauth-effects.ts), in   *)
(* two machines that share no state.                                       *)
(*                                                                         *)
(* An authorization and the pending grant it leaves.  Pending grants are   *)
(* kept as one-use values: in the memory of the host instance that made    *)
(* them, or, where the credential store can share them, in rows every      *)
(* instance reads (kernel/http-exchange.ts hold and take,                  *)
(* host/credentials/store.ts holdDerived and takeDerived).  Callbacks of   *)
(* one grant may come more than once, at any instance and at any time      *)
(* after its URL is out, and instances restart.  A state is a fresh random *)
(* draw, so it is put once and nobody knows it before.                     *)
(*                                                                         *)
(* The tokens of the mock provider: an access token and the refresh token  *)
(* it came with point at each other, and the subject who signed in is      *)
(* remembered by access token.  Each ask is answered in one step.  Access  *)
(* and refresh tokens are random: a put or a refresh brings a new one.     *)
(***************************************************************************)
EXTENDS Naturals, FiniteSets, Functions

CONSTANTS Instance, Callback,
          Life,   \* how long a grant may be exchanged
          Grace,  \* how much longer its credential is kept
          MaxTime, MaxCrashes,
          Access, Refresh,          \* the tokens of the mock provider
          TokenLife, MaxMockTime

VARIABLES shared,      \* does the store share one-use values
          conditional, \* has its adapter a conditional delete
          now,
          row,         \* the shared row: an expiry of the credential, or Absent
          minted,      \* instance -> the value it holds in memory
          grantEnd,    \* until when the grant may be exchanged, Absent before it is put
          flow,        \* the authorization: where it stands, at which instance, with a mock provider?
          back,        \* callback -> where it is
          answer,      \* callback -> what the driver was told
          crashes

oauthVars == <<shared, conditional, now, row, minted, grantEnd, flow, back, answer, crashes>>

VARIABLES tokens,    \* the access tokens held |-> their refresh token and expiry
          refreshes, \* the refresh tokens held |-> their access token
          subjects,  \* the access tokens whose subject is remembered
          used, revoked, \* the tokens handed out, and the refresh tokens revoked
          mockNow
tokenVars == <<tokens, refreshes, subjects, used, revoked, mockNow>>

Absent == 0
Times == 0..(MaxTime + Life + Grace)
FlowStep == {"new", "secret", "metadata", "ready", "putting", "put", "consenting", "over", "failed"}
Waiting == [at |-> "new", host |-> "-", since |-> 0, seen |-> Absent]

TypeOK ==
    /\ shared \in BOOLEAN /\ conditional \in BOOLEAN
    /\ now \in 1..MaxTime
    /\ row \in Times /\ minted \in [Instance -> Times] /\ grantEnd \in Times
    /\ flow.step \in FlowStep /\ flow.mock \in BOOLEAN
    /\ \A c \in Callback : back[c].at \in {"new", "reading", "deleting", "won", "local", "over"}
    /\ answer \in [Callback -> {"none", "grant", "expired", "missing"}]
    /\ crashes \in 0..MaxCrashes
    /\ DOMAIN tokens \subseteq Access
    /\ \A a \in DOMAIN tokens : tokens[a] \in [refresh : Refresh, expiresAt : 0..(MaxMockTime + TokenLife)]
    /\ DOMAIN refreshes \subseteq Refresh /\ Range(refreshes) \subseteq Access
    /\ subjects \subseteq Access
    /\ used \subseteq Access \cup Refresh /\ revoked \subseteq Refresh /\ mockNow \in 0..MaxMockTime

GrantInit ==
    /\ shared \in BOOLEAN /\ conditional \in BOOLEAN
    /\ now = 1 /\ row = Absent /\ minted = [i \in Instance |-> Absent]
    /\ grantEnd = Absent /\ flow = [step |-> "new", host |-> "-", mock |-> FALSE]
    /\ back = [c \in Callback |-> Waiting] /\ answer = [c \in Callback |-> "none"]
    /\ crashes = 0

-----------------------------------------------------------------------------
FlowOnly == UNCHANGED <<shared, conditional, now, row, minted, grantEnd, back, answer, crashes>>

(* oauth-authorize, once the kernel has planned it: a mock provider has neither client nor metadata. *)
Authorize(i, mock) ==
    /\ flow.step = "new"
    /\ flow' = [step |-> IF mock THEN "ready" ELSE "secret", host |-> i, mock |-> mock]
    /\ FlowOnly

(* The client id is a secret of the host or of the viewer, who may not be signed in. *)
ClientSecret(found) ==
    /\ flow.step = "secret"
    /\ flow' = [flow EXCEPT !.step = IF found THEN "metadata" ELSE "failed"]
    /\ FlowOnly

(* The provider's metadata, planned or asked for; then the state and the verifier are drawn. *)
Metadata(valid) ==
    /\ flow.step = "metadata"
    /\ flow' = [flow EXCEPT !.step = IF valid THEN "ready" ELSE "failed"]
    /\ FlowOnly

(* pendingPut: the credential outlives the grant by the grace. *)
Put ==
    /\ flow.step = "ready"
    /\ now + Life + Grace \in Times
    /\ grantEnd' = now + Life
    /\ IF shared
       THEN /\ minted' = [minted EXCEPT ![flow.host] = Absent]
            /\ flow' = [flow EXCEPT !.step = "putting"]
       ELSE /\ minted' = [minted EXCEPT ![flow.host] = now + Life + Grace]
            /\ flow' = [flow EXCEPT !.step = "put"]
    /\ UNCHANGED <<shared, conditional, now, row, back, answer, crashes>>

(* The store takes the row, or its write rejects and the flow with it. *)
PutRow(kept) ==
    /\ flow.step = "putting"
    /\ row' = IF kept THEN grantEnd + Grace ELSE row
    /\ flow' = [flow EXCEPT !.step = IF kept THEN "put" ELSE "failed"]
    /\ UNCHANGED <<shared, conditional, now, minted, grantEnd, back, answer, crashes>>

(* Mutant: nobody waits for the answer to pendingPut. *)
GrantSentOff == flow.step \in {"putting", "put"}

GrantKept == flow.step = "put"

(* The URL goes out: in the ask for the person's consent, or in the answer of a mock authorization. *)
AskConsent ==
    /\ GrantKept
    /\ flow' = [flow EXCEPT !.step = IF flow.mock THEN "over" ELSE "consenting"]
    /\ FlowOnly

(* With a code, with none, or the ask fails: the URL was out. *)
Consented ==
    /\ flow.step = "consenting"
    /\ flow' = [flow EXCEPT !.step = "over"]
    /\ FlowOnly

-----------------------------------------------------------------------------
UrlIsOut == flow.step \in {"consenting", "over"}

(* A callback asks pendingTake at some instance; the store's clock is read here, before any wait. *)
Ask(c, i) ==
    /\ back[c].at = "new" /\ UrlIsOut
    /\ back' = [back EXCEPT ![c] = [at |-> IF shared THEN "reading" ELSE "local", host |-> i, since |-> now, seen |-> Absent]]
    /\ UNCHANGED <<shared, conditional, now, row, minted, grantEnd, flow, answer, crashes>>

ReadRow(c) ==
    /\ back[c].at = "reading"
    /\ back' = [back EXCEPT ![c].seen = row, ![c].at = IF row = Absent THEN "local" ELSE "deleting"]
    /\ UNCHANGED <<shared, conditional, now, row, minted, grantEnd, flow, answer, crashes>>

(* Mutant: whoever read the row takes the value, whether or not its delete landed. *)
DeleteRowAnyway(c) ==
    /\ back[c].at = "deleting"
    /\ row' = Absent
    /\ back' = [back EXCEPT ![c].at = "won"]
    /\ UNCHANGED <<shared, conditional, now, minted, grantEnd, flow, answer, crashes>>

(* A conditional delete says whether it landed; an unconditional one does not. *)
DeleteRow(c) ==
    /\ back[c].at = "deleting"
    /\ row' = Absent
    /\ back' = [back EXCEPT ![c].at = IF conditional /\ row = Absent THEN "local" ELSE "won"]
    /\ UNCHANGED <<shared, conditional, now, minted, grantEnd, flow, answer, crashes>>

(* Mutant: the port trusts the expiry of the credential, grace and all. *)
PortAnswersUnchecked(c) ==
    answer' = [answer EXCEPT ![c] = "grant"]

(* pendingTake with a value in hand: the port's own clock decides. *)
PortAnswers(c) ==
    answer' = [answer EXCEPT ![c] = IF grantEnd < now THEN "expired" ELSE "grant"]

(* The value read is still within the life of its credential, or it is consumed for nothing and memory is asked. *)
Open(c) ==
    /\ back[c].at = "won"
    /\ IF back[c].seen > back[c].since
       THEN back' = [back EXCEPT ![c].at = "over"] /\ PortAnswers(c)
       ELSE back' = [back EXCEPT ![c].at = "local"] /\ UNCHANGED answer
    /\ UNCHANGED <<shared, conditional, now, row, minted, grantEnd, flow, crashes>>

(* Mutant: a value of memory stays there when it is taken. *)
TakeLocalKeeping(c) ==
    /\ back[c].at = "local"
    /\ IF minted[back[c].host] > now THEN PortAnswers(c) ELSE answer' = [answer EXCEPT ![c] = "missing"]
    /\ back' = [back EXCEPT ![c].at = "over"]
    /\ UNCHANGED <<shared, conditional, now, row, minted, grantEnd, flow, crashes>>

(* The value of memory is read and deleted in one go. *)
TakeLocal(c) ==
    /\ back[c].at = "local"
    /\ LET held == minted[back[c].host]
       IN /\ minted' = [minted EXCEPT ![back[c].host] = Absent]
          /\ IF held > now THEN PortAnswers(c) ELSE answer' = [answer EXCEPT ![c] = "missing"]
    /\ back' = [back EXCEPT ![c].at = "over"]
    /\ UNCHANGED <<shared, conditional, now, row, grantEnd, flow, crashes>>

-----------------------------------------------------------------------------
(* An instance restarts: its memory, the flow and the callbacks it was serving are gone; a row it was writing may land. *)
Crash(i) ==
    /\ crashes < MaxCrashes
    /\ crashes' = crashes + 1
    /\ minted' = [minted EXCEPT ![i] = Absent]
    /\ back' = [c \in Callback |-> IF back[c].host = i THEN [back[c] EXCEPT !.at = "over"] ELSE back[c]]
    /\ flow' = IF flow.host = i /\ flow.step # "over"
               THEN [flow EXCEPT !.step = IF flow.step = "consenting" THEN "over" ELSE "failed"]
               ELSE flow
    /\ \/ row' = row
       \/ flow.host = i /\ flow.step = "putting" /\ row' = grantEnd + Grace
    /\ UNCHANGED <<shared, conditional, now, grantEnd, answer>>

Tick ==
    /\ now < MaxTime
    /\ now' = now + 1
    /\ UNCHANGED <<shared, conditional, row, minted, grantEnd, flow, back, answer, crashes>>

Finished ==
    /\ now = MaxTime /\ (\A c \in Callback : back[c].at = "over")
    /\ UNCHANGED oauthVars

GrantNext ==
    \/ \E i \in Instance : Crash(i) \/ (\E mock \in BOOLEAN : Authorize(i, mock)) \/ \E c \in Callback : Ask(c, i)
    \/ \E c \in Callback : ReadRow(c) \/ DeleteRow(c) \/ Open(c) \/ TakeLocal(c)
    \/ \E ok \in BOOLEAN : ClientSecret(ok) \/ Metadata(ok) \/ PutRow(ok)
    \/ Put \/ AskConsent \/ Consented \/ Tick \/ Finished

GrantSpec == GrantInit /\ [][GrantNext]_oauthVars

-----------------------------------------------------------------------------
(* A grant is handed to one callback at most, whichever instances the callbacks reach, wherever a delete of a row can *)
(* tell that it landed or the value never left the memory of one instance. *)
GrantTakenOnce ==
    conditional \/ ~shared => Cardinality({c \in Callback : answer[c] # "none" /\ answer[c] # "missing"}) <= 1

(* Nobody is sent to a provider for a grant that is not kept: when the URL goes out, the grant is where a callback *)
(* looks for it, so a callback that is told "missing" came to a grant that was taken, has lapsed or went with its *)
(* instance. *)
KeptBeforeConsent ==
    [][~UrlIsOut /\ UrlIsOut' => row # Absent \/ minted[flow.host] # Absent]_oauthVars

(* No grant is handed out after its life, however long its credential is kept; and one that is still kept is *)
(* reported expired, not missing, unless somebody else consumed it, it was shared and is past its grace, or it is *)
(* in the memory of another instance. *)
ExpiryIsTold ==
    [][\A c \in Callback : answer'[c] # answer[c] =>
         /\ answer'[c] = "grant" => now <= grantEnd
         /\ answer'[c] = "expired" => now > grantEnd
         /\ answer'[c] = "missing" /\ ~shared /\ back[c].host \in {i \in Instance : minted[i] # Absent}
              => now >= grantEnd + Grace]_oauthVars
-----------------------------------------------------------------------------
(* The mock provider *)

Empty == [x \in {} |-> x]
Without(f, S) == Restrict(f, DOMAIN f \ S)
With(f, x, y) == [z \in DOMAIN f \cup {x} |-> IF z = x THEN y ELSE f[z]]
Held(r) == [refresh |-> r, expiresAt |-> mockNow + TokenLife]

MockInit ==
  /\ tokens = Empty /\ refreshes = Empty
  /\ subjects = {} /\ used = {} /\ revoked = {} /\ mockNow = 0

MockTokenPut(a, r) ==
  /\ {a, r} \cap used = {}
  /\ tokens' = With(tokens, a, Held(r))
  /\ refreshes' = With(refreshes, r, a)
  /\ used' = used \cup {a, r}
  /\ UNCHANGED <<subjects, revoked, mockNow>>

SubjectRemember(a) ==
  /\ a \in DOMAIN tokens /\ subjects' = subjects \cup {a}
  /\ UNCHANGED <<tokens, refreshes, used, revoked, mockNow>>

SubjectForget(a) ==
  /\ a \in subjects /\ subjects' = subjects \ {a}
  /\ UNCHANGED <<tokens, refreshes, used, revoked, mockNow>>

\* A mutant: the token that is replaced stays valid until it expires.
ReplacesNone(r) == {}

Replaces(r) == {refreshes[r]}

MockTokenRefresh(r, a) ==
  /\ r \in DOMAIN refreshes /\ a \notin used
  /\ tokens' = With(Without(tokens, Replaces(r)), a, Held(r))
  /\ refreshes' = With(refreshes, r, a)
  /\ subjects' = (subjects \ {refreshes[r]})
                 \cup (IF refreshes[r] \in subjects THEN {a} ELSE {})
  /\ used' = used \cup {a}
  /\ UNCHANGED <<revoked, mockNow>>

\* Of an access token, or of a refresh token: its partner goes with it.
RevokeAccess(a) ==
  /\ a \in DOMAIN tokens
  /\ tokens' = Without(tokens, {a})
  /\ refreshes' = Without(refreshes, {tokens[a].refresh})
  /\ subjects' = subjects \ {a}
  /\ revoked' = revoked \cup {tokens[a].refresh}
  /\ UNCHANGED <<used, mockNow>>

RevokeRefresh(r) ==
  /\ r \in DOMAIN refreshes
  /\ refreshes' = Without(refreshes, {r})
  /\ tokens' = Without(tokens, {refreshes[r]})
  /\ subjects' = subjects \ {refreshes[r]}
  /\ revoked' = revoked \cup {r}
  /\ UNCHANGED <<used, mockNow>>

\* A check drops what has expired; the refresh token is kept.
MockTokenCheck(a) ==
  /\ a \in DOMAIN tokens /\ mockNow > tokens[a].expiresAt
  /\ tokens' = Without(tokens, {a})
  /\ subjects' = subjects \ {a}
  /\ UNCHANGED <<refreshes, used, revoked, mockNow>>

MockTick == mockNow < MaxMockTime /\ mockNow' = mockNow + 1
        /\ UNCHANGED <<tokens, refreshes, subjects, used, revoked>>

MockNext ==
  \/ \E a \in Access, r \in Refresh : MockTokenPut(a, r) \/ MockTokenRefresh(r, a)
  \/ \E a \in Access : SubjectRemember(a) \/ SubjectForget(a) \/ RevokeAccess(a) \/ MockTokenCheck(a)
  \/ \E r \in Refresh : RevokeRefresh(r)
  \/ MockTick

MockSpec == MockInit /\ [][MockNext]_tokenVars

(***************************************************************************)
(* Whatever is refreshed, found expired and revoked, and by either token   *)
(* of a pair: a refresh token has one access token that is valid at most,  *)
(* the last it gave, and a revoked pair has none; nobody is remembered by  *)
(* a token that is not held.                                               *)
(***************************************************************************)
OneTokenPerGrant ==
  /\ \A a \in DOMAIN tokens : LET r == tokens[a].refresh IN
       r \in DOMAIN refreshes /\ refreshes[r] = a /\ r \notin revoked
  /\ subjects \subseteq DOMAIN tokens
=============================================================================
