--------------------------- MODULE OAuthPortProofs ---------------------------
(***************************************************************************)
(* Theorems about OAuth on the host, for any instances, callbacks, times   *)
(* and restarts, and for any tokens.                                       *)
(*                                                                         *)
(* The grants: the invariant says where a grant may be kept (in the row,   *)
(* or in the memory of the instance that put it, never in both), that      *)
(* nobody asks for it before its URL is out, and who holds it: a callback  *)
(* whose delete landed or who was answered.  Two holders cannot come from  *)
(* one grant because whoever holds it left nothing behind: its row is      *)
(* deleted and no memory has it.  That last fact is the strengthening.     *)
(*                                                                         *)
(* The mock tokens: an access token and its refresh token point at each    *)
(* other, and nothing that was handed out or revoked is handed out again.  *)
(***************************************************************************)
EXTENDS OAuthPort, FiniteSetTheorems, TLAPS

GrantBounds == Life \in Nat /\ Grace \in Nat /\ MaxTime \in Nat

\* The types the argument needs.
Typed ==
  /\ now \in Nat \ {0}
  /\ row \in Nat /\ minted \in [Instance -> Nat] /\ grantEnd \in Nat
  /\ flow \in [step : FlowStep, host : Instance \cup {"-"}, mock : BOOLEAN]
  /\ back \in [Callback -> [at : {"new", "reading", "deleting", "won", "local", "over"},
                            host : Instance \cup {"-"}, since : Nat, seen : Nat]]
  /\ answer \in [Callback -> {"none", "grant", "expired", "missing"}]

\* Before the grant is put, and until its URL is out.
Unput == {"new", "secret", "metadata", "ready", "putting"}
\* A callback that has the grant in hand, or was answered with it.
HasIt(c) == back[c].at = "won" \/ answer[c] \in {"grant", "expired"}

\* Where a grant may be kept.
Places ==
  /\ shared => minted = [i \in Instance |-> Absent]
  /\ ~shared => /\ row = Absent /\ flow.step # "putting"
                /\ \A c \in Callback : back[c].at \notin {"reading", "deleting", "won"}
  /\ \A i \in Instance : minted[i] # Absent => i = flow.host /\ minted[i] = grantEnd + Grace
  /\ flow.step \in Unput => row = Absent /\ minted = [i \in Instance |-> Absent]
  /\ flow.step # "new" => flow.host \in Instance
  /\ \A c \in Callback : back[c].at \notin {"new", "over"} => back[c].host \in Instance

\* Until the URL is out no callback came, and the grant is kept from its put on.
Unheard ==
  /\ ~UrlIsOut => \A c \in Callback : back[c].at \in {"new", "over"} /\ answer[c] = "none"
  /\ flow.step = "putting" => grantEnd # 0
  /\ flow.step = "put" => row # Absent \/ minted[flow.host] # Absent

\* Whoever has the grant is alone with it, and it is kept no more.
OneHolder == conditional \/ ~shared =>
  /\ \A c, d \in Callback : HasIt(c) /\ HasIt(d) => c = d
  /\ \A c \in Callback : HasIt(c) => row = Absent /\ minted = [i \in Instance |-> Absent]

IInv == Typed /\ Places /\ Unheard /\ OneHolder

\* It holds at the start.
LEMMA InitInv == ASSUME GrantBounds, GrantInit PROVE IInv
BY DEF GrantInit, IInv, Typed, Places, Unheard, OneHolder, HasIt, UrlIsOut, Waiting, Absent, FlowStep, Unput

-----------------------------------------------------------------------------
\* oauth-authorize up to the put: nothing is kept and nobody asks.
LEMMA FlowInv ==
  ASSUME GrantBounds, IInv,
         \/ \E i \in Instance, mock \in BOOLEAN : Authorize(i, mock)
         \/ \E ok \in BOOLEAN : ClientSecret(ok) \/ Metadata(ok)
  PROVE  IInv'
<1> USE DEF IInv, FlowOnly, Authorize, ClientSecret, Metadata
<1>1. UNCHANGED <<shared, conditional, now, row, minted, grantEnd, back, answer>>
  OBVIOUS
<1>2. /\ flow.step \in {"new", "secret", "metadata"}
      /\ flow'.step \in {"secret", "metadata", "ready", "failed"}
      /\ flow'.host \in Instance
      /\ flow' \in [step : FlowStep, host : Instance \cup {"-"}, mock : BOOLEAN]
  BY DEF Typed, Places, FlowStep
<1>3. Typed'
  BY <1>1, <1>2 DEF Typed
<1>4. Places'
  BY <1>1, <1>2 DEF Places, Unput, Typed
<1>5. Unheard'
  BY <1>1, <1>2 DEF Unheard, UrlIsOut
<1>6. OneHolder'
  BY <1>1 DEF OneHolder, HasIt
<1> QED BY <1>3, <1>4, <1>5, <1>6

\* pendingPut into memory, or on its way to the row: the first place the grant is kept.
LEMMA PutInv ==
  ASSUME GrantBounds, IInv, Put
  PROVE  IInv'
<1> USE DEF IInv, Put, GrantBounds
<1>1. Typed'
  BY DEF Typed, FlowStep, Absent
<1>2. Places'
  BY DEF Places, Typed, Unput, Absent
<1>3. Unheard'
  BY DEF Unheard, UrlIsOut, Typed, Places, Absent
<1>4. OneHolder'
  <2>1. \A c \in Callback : ~HasIt(c)'
    BY DEF HasIt, Unheard, UrlIsOut
  <2> QED BY <2>1 DEF OneHolder
<1> QED BY <1>1, <1>2, <1>3, <1>4

\* The store takes the row or rejects it.
LEMMA PutRowInv ==
  ASSUME GrantBounds, IInv, NEW kept \in BOOLEAN, PutRow(kept)
  PROVE  IInv'
<1> USE DEF IInv, PutRow, GrantBounds
<1>1. Typed'
  BY DEF Typed, FlowStep
<1>2. Places'
  BY DEF Places, Typed, Unput, Absent
<1>3. Unheard'
  BY DEF Unheard, UrlIsOut, Typed, Absent
<1>4. OneHolder'
  <2>1. \A c \in Callback : ~HasIt(c)'
    BY DEF HasIt, Unheard, UrlIsOut
  <2> QED BY <2>1 DEF OneHolder
<1> QED BY <1>1, <1>2, <1>3, <1>4

\* The URL goes out.
LEMMA UrlInv ==
  ASSUME GrantBounds, IInv, AskConsent \/ Consented
  PROVE  IInv'
<1>1. /\ UNCHANGED <<shared, conditional, now, row, minted, grantEnd, back, answer>>
      /\ flow.step \in {"put", "consenting"} /\ flow'.step \in {"consenting", "over"}
      /\ flow'.host = flow.host
      /\ flow' \in [step : FlowStep, host : Instance \cup {"-"}, mock : BOOLEAN]
  BY DEF AskConsent, Consented, GrantKept, FlowOnly, IInv, Typed, FlowStep
<1> QED BY <1>1 DEF IInv, Typed, Places, Unheard, OneHolder, HasIt, UrlIsOut, Unput

\* A callback asks and reads the row: it has nothing yet.
LEMMA AskInv ==
  ASSUME GrantBounds, IInv, NEW c \in Callback,
         \/ \E i \in Instance : Ask(c, i)
         \/ ReadRow(c)
  PROVE  IInv'
<1> USE DEF IInv, Ask, ReadRow
<1>1. /\ UNCHANGED <<shared, conditional, now, row, minted, grantEnd, flow, answer>>
      /\ back' = [back EXCEPT ![c] = back'[c]]
      /\ back'[c].at \in {"reading", "local", "deleting"}
      /\ back[c].at \in {"new", "reading"}
      /\ ~shared => back'[c].at \in {"local"}
  BY DEF Typed, Places
<1>2. back'[c] \in [at : {"new", "reading", "deleting", "won", "local", "over"},
                   host : Instance \cup {"-"}, since : Nat, seen : Nat]
  BY DEF Typed, Absent
<1>3. UrlIsOut
  BY DEF UrlIsOut, Unheard
<1>4. Typed'
  BY <1>1, <1>2 DEF Typed
<1>5. Places'
  <2>1. back'[c].host \in Instance
    BY DEF Places, Typed
  <2> QED BY <1>1, <1>2, <2>1 DEF Places, Typed
<1>6. Unheard'
  BY <1>1, <1>3 DEF Unheard, UrlIsOut
<1>7. OneHolder'
  BY <1>1, <1>2 DEF OneHolder, HasIt, Typed
<1> QED BY <1>4, <1>5, <1>6, <1>7

\* The delete of the row: with a conditional one, who wins found the row there, so nobody had it.
LEMMA DeleteRowInv ==
  ASSUME GrantBounds, IInv, NEW c \in Callback, DeleteRow(c)
  PROVE  IInv'
<1> USE DEF IInv, DeleteRow
<1>1. Typed'
  BY DEF Typed, Absent
<1>2. Places'
  BY DEF Places, Typed, Absent
<1>3. Unheard'
  BY DEF Unheard, UrlIsOut, Typed
<1>4. OneHolder'
  BY DEF OneHolder, HasIt, Typed, Places, Absent
<1> QED BY <1>1, <1>2, <1>3, <1>4

\* The winner opens what it read: it stays the holder, or gives up and asks memory, which is empty.
LEMMA OpenInv ==
  ASSUME GrantBounds, IInv, NEW c \in Callback, Open(c)
  PROVE  IInv'
<1> USE DEF IInv, Open, PortAnswers
<1>1. Typed'
  BY DEF Typed
<1>2. Places'
  BY DEF Places, Typed
<1>3. Unheard'
  BY DEF Unheard, UrlIsOut, Typed
<1>4. OneHolder'
  BY DEF OneHolder, HasIt, Typed
<1> QED BY <1>1, <1>2, <1>3, <1>4

\* Memory is read and deleted in one go: who finds a value is the first, and leaves none.
LEMMA TakeLocalInv ==
  ASSUME GrantBounds, IInv, NEW c \in Callback, TakeLocal(c)
  PROVE  IInv'
<1> USE DEF IInv, TakeLocal, PortAnswers
<1>1. Typed'
  BY DEF Typed, Absent
<1>2. Places'
  BY DEF Places, Typed, Absent
<1>3. Unheard'
  BY DEF Unheard, UrlIsOut, Typed
<1> DEFINE h == back[c].host
           held == minted[h]
<1>4. ASSUME held > now
      PROVE  OneHolder'
  <2>1. held # Absent /\ h \in Instance
    BY <1>4 DEF Typed, Places, Absent
  <2>2. ~shared /\ h = flow.host /\ row = Absent
    BY <2>1 DEF Places
  <2>3. minted' = [i \in Instance |-> Absent] /\ row' = Absent
    BY <2>1, <2>2 DEF Places, Typed
  <2>4. conditional \/ ~shared => \A d \in Callback : ~HasIt(d)
    BY <2>1, <2>2 DEF OneHolder
  <2>5. \A d \in Callback \ {c} : HasIt(d)' <=> HasIt(d)
    BY DEF HasIt, Typed
  <2> QED BY <2>2, <2>3, <2>4, <2>5 DEF OneHolder
<1>5. ASSUME ~(held > now)
      PROVE  OneHolder'
  <2>1. \A d \in Callback : HasIt(d)' => HasIt(d)
    BY <1>5 DEF HasIt, Typed
  <2>2. minted = [i \in Instance |-> Absent] => minted' = minted
    BY DEF Typed
  <2> QED BY <2>1, <2>2 DEF OneHolder
<1> QED BY <1>1, <1>2, <1>3, <1>4, <1>5

\* A restart only takes away, but for a row that was being written, before anybody asks for it.
LEMMA CrashInv ==
  ASSUME GrantBounds, IInv, NEW i \in Instance, Crash(i)
  PROVE  IInv'
<1> USE DEF IInv, Crash, GrantBounds
<1>1. Typed'
  BY DEF Typed, Absent, FlowStep
<1>2. Places'
  <2>1. /\ shared' = shared /\ grantEnd' = grantEnd /\ flow'.host = flow.host
        /\ flow'.step = flow.step \/ flow'.step \in {"over", "failed"}
        /\ flow'.step # flow.step => flow.host \in Instance
    BY DEF Typed
  <2>2. \A c \in Callback : back'[c].host = back[c].host /\ back'[c].at \in {back[c].at, "over"}
    BY DEF Typed
  <2>3. \A j \in Instance : minted'[j] = minted[j] \/ minted'[j] = Absent
    BY DEF Typed
  <2>4. minted = [j \in Instance |-> Absent] => minted' = minted
    BY DEF Typed
  <2>5. row' = row \/ (flow.step = "putting" /\ flow'.step = "failed")
    BY DEF Typed
  <2> HIDE DEF Crash
  <2>6. shared' => minted' = [j \in Instance |-> Absent]
    BY <2>1, <2>4 DEF Places
  <2>7. ~shared' => /\ row' = Absent /\ flow'.step # "putting"
                    /\ \A c \in Callback : back'[c].at \notin {"reading", "deleting", "won"}
    BY <2>1, <2>2, <2>5 DEF Places
  <2>8. \A j \in Instance : minted'[j] # Absent => j = flow'.host /\ minted'[j] = grantEnd' + Grace
    BY <2>1, <2>3 DEF Places
  <2>9. flow'.step \in Unput => row' = Absent /\ minted' = [j \in Instance |-> Absent]
    BY <2>1, <2>4, <2>5 DEF Places, Unput
  <2>10. flow'.step # "new" => flow'.host \in Instance
    BY <2>1 DEF Places
  <2>11. \A c \in Callback : back'[c].at \notin {"new", "over"} => back'[c].host \in Instance
    BY <2>2 DEF Places
  <2> QED BY <2>6, <2>7, <2>8, <2>9, <2>10, <2>11 DEF Places
<1>3. Unheard'
  BY DEF Unheard, UrlIsOut, Typed, Absent
<1>4. \A c \in Callback : HasIt(c)' => HasIt(c)
  BY DEF HasIt, Typed
<1>5. minted = [j \in Instance |-> Absent] => minted' = minted
  BY DEF Typed
<1>6. row' # row => \A c \in Callback : ~HasIt(c)
  BY DEF HasIt, Unheard, UrlIsOut
<1>7. OneHolder'
  BY <1>4, <1>5, <1>6 DEF OneHolder
<1> QED BY <1>1, <1>2, <1>3, <1>7

\* Time and the end of the story.
LEMMA IdleInv ==
  ASSUME IInv, Tick \/ UNCHANGED oauthVars
  PROVE  IInv'
BY DEF IInv, Typed, Places, Unheard, OneHolder, HasIt, UrlIsOut, Tick, oauthVars

-----------------------------------------------------------------------------
\* The invariant of the grants: where they are kept, who may ask, and that one callback has each.
THEOREM Invariant == ASSUME GrantBounds PROVE GrantSpec => []IInv
<1>1. IInv /\ [GrantNext]_oauthVars => IInv'
  <2> SUFFICES ASSUME IInv, [GrantNext]_oauthVars
               PROVE  IInv'
    OBVIOUS
  <2>1. CASE UNCHANGED oauthVars \/ Finished
    BY <2>1, IdleInv DEF Finished
  <2>2. CASE GrantNext
    BY <2>1, <2>2, FlowInv, PutInv, PutRowInv, UrlInv, AskInv, DeleteRowInv, OpenInv,
       TakeLocalInv, CrashInv, IdleInv DEF GrantNext
  <2> QED BY <2>1, <2>2
<1> QED BY <1>1, InitInv, PTL DEF GrantSpec

\* GrantTakenOnce: a grant is handed to one callback at most, whichever instances the callbacks reach, where a
\* delete of a row tells whether it landed or the value never left one memory (pendingTake, takeDerived).
THEOREM TakenOnce == ASSUME GrantBounds, IsFiniteSet(Callback) PROVE GrantSpec => []GrantTakenOnce
<1>1. IInv => GrantTakenOnce
  <2> SUFFICES ASSUME IInv, conditional \/ ~shared
               PROVE  Cardinality({c \in Callback : answer[c] # "none" /\ answer[c] # "missing"}) <= 1
    BY DEF GrantTakenOnce
  <2> DEFINE Told == {c \in Callback : answer[c] # "none" /\ answer[c] # "missing"}
  <2>1. \A c \in Told : HasIt(c)
    BY DEF IInv, Typed, HasIt
  <2>2. ASSUME Told = {}
        PROVE  Cardinality(Told) <= 1
    <3> HIDE DEF Told
    <3> QED BY <2>2, FS_EmptySet
  <2>3. ASSUME Told # {}
        PROVE  Cardinality(Told) <= 1
    <3>1. PICK c : c \in Told
      BY <2>3
    <3>2. Told = {c}
      BY <2>1, <3>1 DEF IInv, OneHolder
    <3>3. Cardinality({c}) = 1
      BY FS_Singleton
    <3> HIDE DEF Told
    <3> QED BY <3>2, <3>3
  <2>4. Cardinality(Told) <= 1
    <3> HIDE DEF Told
    <3> QED BY <2>2, <2>3
  <2> QED BY <2>4
<1> QED BY <1>1, Invariant, PTL

\* KeptBeforeConsent: when the URL of an authorization goes out, pendingPut has landed: the grant is in the row
\* or in the memory of its instance.
THEOREM SentForAKeptGrant == ASSUME GrantBounds PROVE GrantSpec => KeptBeforeConsent
<1>1. IInv /\ [GrantNext]_oauthVars =>
        [~UrlIsOut /\ UrlIsOut' => row # Absent \/ minted[flow.host] # Absent]_oauthVars
  <2> SUFFICES ASSUME IInv, GrantNext, ~UrlIsOut, UrlIsOut'
               PROVE  row # Absent \/ minted[flow.host] # Absent
    OBVIOUS
  <2>1. flow.step = "put"
    <3> USE DEF UrlIsOut, FlowOnly, IInv, Typed
    <3>1. ASSUME NEW i \in Instance, NEW mock \in BOOLEAN, Authorize(i, mock) PROVE FALSE
      BY <3>1 DEF Authorize
    <3>2. ASSUME NEW ok \in BOOLEAN, ClientSecret(ok) \/ Metadata(ok) \/ PutRow(ok) PROVE FALSE
      BY <3>2 DEF ClientSecret, Metadata, PutRow
    <3>3. ASSUME Put \/ Consented PROVE FALSE
      BY <3>3 DEF Put, Consented
    <3>4. ASSUME NEW i \in Instance, Crash(i) PROVE FALSE
      BY <3>4 DEF Crash
    <3>5. ASSUME NEW c \in Callback, (\E i \in Instance : Ask(c, i)) \/ ReadRow(c) \/ DeleteRow(c) \/ Open(c) \/ TakeLocal(c) PROVE FALSE
      BY <3>5 DEF Ask, ReadRow, DeleteRow, Open, TakeLocal
    <3>6. ASSUME Tick \/ Finished PROVE FALSE
      BY <3>6 DEF Tick, Finished, oauthVars
    <3>7. CASE AskConsent
      BY <3>7 DEF AskConsent, GrantKept
    <3> QED BY <3>1, <3>2, <3>3, <3>4, <3>5, <3>6, <3>7 DEF GrantNext
  <2> QED BY <2>1 DEF IInv, Unheard
<1> QED BY <1>1, Invariant, PTL DEF GrantSpec, KeptBeforeConsent

\* ExpiryIsTold: no callback gets a grant after its life, none is told "expired" within it, and one that finds
\* the value in the memory of its instance is told "missing" only after the grace (PendingGrants.take).
THEOREM LifeIsTold == ASSUME GrantBounds PROVE GrantSpec => ExpiryIsTold
<1> DEFINE Told == \A c \in Callback : answer'[c] # answer[c] =>
         /\ answer'[c] = "grant" => now <= grantEnd
         /\ answer'[c] = "expired" => now > grantEnd
         /\ answer'[c] = "missing" /\ ~shared /\ back[c].host \in {i \in Instance : minted[i] # Absent}
              => now >= grantEnd + Grace
<1>1. IInv /\ [GrantNext]_oauthVars => [Told]_oauthVars
  <2> SUFFICES ASSUME IInv, GrantNext
               PROVE  Told
    OBVIOUS
  <2>1. ASSUME NEW c \in Callback, Open(c)
        PROVE  Told
    BY <2>1 DEF IInv, Typed, Open, PortAnswers
  <2>2. ASSUME NEW c \in Callback, TakeLocal(c)
        PROVE  Told
    BY <2>2 DEF IInv, Typed, Places, TakeLocal, PortAnswers, GrantBounds
  <2>3. CASE UNCHANGED answer
    BY <2>3
  <2>4. CASE ~(\E c \in Callback : Open(c) \/ TakeLocal(c))
    <3>1. UNCHANGED answer
      BY <2>4 DEF GrantNext, FlowOnly, Authorize, ClientSecret, Metadata, Put, PutRow, AskConsent,
         Consented, Ask, ReadRow, DeleteRow, Crash, Tick, Finished, oauthVars
    <3> QED BY <2>3, <3>1
  <2> QED BY <2>1, <2>2, <2>4
<1> QED BY <1>1, Invariant, PTL DEF GrantSpec, ExpiryIsTold

-----------------------------------------------------------------------------
\* The two tables of the mock provider: each token held is the one its refresh token gave last, and the
\* tables hold what was handed out, a revoked refresh token never.
Partners ==
  /\ DOMAIN tokens \subseteq Access
  /\ \A a \in DOMAIN tokens : LET r == tokens[a].refresh IN
       r \in DOMAIN refreshes /\ refreshes[r] = a
  /\ DOMAIN refreshes \subseteq used \ revoked /\ revoked \subseteq used
  /\ \A a \in DOMAIN tokens : a \in used
  /\ \A r \in DOMAIN refreshes : refreshes[r] \in Access
  /\ subjects \subseteq DOMAIN tokens

\* What Without leaves.
LEMMA WithoutFact == ASSUME NEW f, NEW S
  PROVE /\ DOMAIN Without(f, S) = DOMAIN f \ S
        /\ \A z \in DOMAIN f \ S : Without(f, S)[z] = f[z]
BY DEF Without, Restrict

\* The tables agree, whatever is refreshed, revoked or found expired (mockTokenPut to mockTokenCheck).
THEOREM PartnersInvariant == MockSpec => []Partners
<1>1. MockInit => Partners
  BY DEF MockInit, Partners, Empty
<1>2. Partners /\ [MockNext]_tokenVars => Partners'
  <2> SUFFICES ASSUME Partners, [MockNext]_tokenVars
               PROVE  Partners'
    OBVIOUS
  <2>1. ASSUME NEW a \in Access, NEW r \in Refresh, MockTokenPut(a, r)
        PROVE  Partners'
    <3>1. /\ DOMAIN tokens' = DOMAIN tokens \cup {a} /\ tokens'[a].refresh = r
          /\ \A z \in DOMAIN tokens : z # a => tokens'[z] = tokens[z]
      BY <2>1 DEF MockTokenPut, Held, With
    <3>2. /\ DOMAIN refreshes' = DOMAIN refreshes \cup {r} /\ refreshes'[r] = a
          /\ \A z \in DOMAIN refreshes : z # r => refreshes'[z] = refreshes[z]
      BY <2>1 DEF MockTokenPut, With
    <3>3. /\ a \notin used /\ r \notin used
          /\ used' = used \cup {a, r} /\ revoked' = revoked /\ subjects' = subjects
      BY <2>1 DEF MockTokenPut
    <3> QED BY <3>1, <3>2, <3>3 DEF Partners
  <2>2. ASSUME NEW a \in Access, NEW r \in Refresh, MockTokenRefresh(r, a)
        PROVE  Partners'
    <3> DEFINE b == refreshes[r]
    <3>1. /\ DOMAIN tokens' = (DOMAIN tokens \ {b}) \cup {a} /\ tokens'[a].refresh = r
          /\ \A z \in DOMAIN tokens \ {b} : z # a => tokens'[z] = tokens[z]
      <4>1. tokens' = With(Without(tokens, {b}), a, Held(r))
        BY <2>2 DEF MockTokenRefresh, Replaces
      <4>2. DOMAIN Without(tokens, {b}) = DOMAIN tokens \ {b}
        BY WithoutFact
      <4>3. \A z \in DOMAIN tokens \ {b} : Without(tokens, {b})[z] = tokens[z]
        BY WithoutFact
      <4> QED BY <4>1, <4>2, <4>3 DEF Held, With
    <3>2. /\ DOMAIN refreshes' = DOMAIN refreshes \cup {r} /\ refreshes'[r] = a
          /\ \A z \in DOMAIN refreshes : z # r => refreshes'[z] = refreshes[z]
      BY <2>2 DEF MockTokenRefresh, With
    <3>3. /\ r \in DOMAIN refreshes /\ a \notin used
          /\ used' = used \cup {a} /\ revoked' = revoked
          /\ subjects' \subseteq (subjects \ {b}) \cup {a}
      BY <2>2 DEF MockTokenRefresh
    <3>4. \A z \in DOMAIN tokens \ {b} : tokens[z].refresh # r
      BY DEF Partners
    <3> HIDE DEF b
    <3>5. /\ DOMAIN tokens' \subseteq Access
          /\ DOMAIN refreshes' \subseteq used' \ revoked' /\ revoked' \subseteq used'
          /\ subjects' \subseteq DOMAIN tokens'
      BY <3>1, <3>2, <3>3 DEF Partners
    <3>6. \A z \in DOMAIN tokens' : LET q == tokens'[z].refresh IN
            q \in DOMAIN refreshes' /\ refreshes'[q] = z
      BY <3>1, <3>2, <3>3, <3>4 DEF Partners
    <3> QED BY <3>1, <3>2, <3>3, <3>5, <3>6 DEF Partners
  <2>3. ASSUME NEW a \in Access, SubjectRemember(a) \/ SubjectForget(a)
        PROVE  Partners'
    BY <2>3 DEF SubjectRemember, SubjectForget, Partners
  <2>4. ASSUME NEW a \in Access, RevokeAccess(a)
        PROVE  Partners'
    <3> DEFINE q == tokens[a].refresh
    <3>1. /\ DOMAIN tokens' = DOMAIN tokens \ {a}
          /\ \A z \in DOMAIN tokens \ {a} : tokens'[z] = tokens[z]
      BY <2>4, WithoutFact DEF RevokeAccess
    <3>2. /\ DOMAIN refreshes' = DOMAIN refreshes \ {q}
          /\ \A z \in DOMAIN refreshes \ {q} : refreshes'[z] = refreshes[z]
      BY <2>4, WithoutFact DEF RevokeAccess
    <3>3. /\ a \in DOMAIN tokens /\ used' = used /\ revoked' = revoked \cup {q}
          /\ subjects' = subjects \ {a}
      BY <2>4 DEF RevokeAccess
    <3>4. q \in DOMAIN refreshes /\ refreshes[q] = a
      BY <3>3 DEF Partners
    <3> HIDE DEF q
    <3> QED BY <3>1, <3>2, <3>3, <3>4 DEF Partners
  <2>5. ASSUME NEW a \in Access, MockTokenCheck(a)
        PROVE  Partners'
    <3>1. /\ DOMAIN tokens' = DOMAIN tokens \ {a}
          /\ \A z \in DOMAIN tokens \ {a} : tokens'[z] = tokens[z]
      BY <2>5, WithoutFact DEF MockTokenCheck
    <3>2. /\ UNCHANGED <<refreshes, used, revoked>> /\ subjects' = subjects \ {a}
      BY <2>5 DEF MockTokenCheck
    <3> QED BY <3>1, <3>2 DEF Partners
  <2>6. ASSUME NEW r \in Refresh, RevokeRefresh(r)
        PROVE  Partners'
    <3> DEFINE b == refreshes[r]
    <3>1. /\ DOMAIN tokens' = DOMAIN tokens \ {b}
          /\ \A z \in DOMAIN tokens \ {b} : tokens'[z] = tokens[z]
      BY <2>6, WithoutFact DEF RevokeRefresh
    <3>2. /\ DOMAIN refreshes' = DOMAIN refreshes \ {r}
          /\ \A z \in DOMAIN refreshes \ {r} : refreshes'[z] = refreshes[z]
      BY <2>6, WithoutFact DEF RevokeRefresh
    <3>3. /\ r \in DOMAIN refreshes /\ used' = used /\ revoked' = revoked \cup {r}
          /\ subjects' = subjects \ {b}
      BY <2>6 DEF RevokeRefresh
    <3>4. \A z \in DOMAIN tokens \ {b} : tokens[z].refresh # r
      BY DEF Partners
    <3> HIDE DEF b
    <3> QED BY <3>1, <3>2, <3>3, <3>4 DEF Partners
  <2>7. CASE MockTick \/ UNCHANGED tokenVars
    BY <2>7 DEF MockTick, tokenVars, Partners
  <2> QED BY <2>1, <2>2, <2>3, <2>4, <2>5, <2>6, <2>7 DEF MockNext
<1> QED BY <1>1, <1>2, PTL DEF MockSpec

\* OneTokenPerGrant: a refresh token has one access token at most, the last it gave, a revoked pair has none,
\* and nobody is remembered by a token that is not held.
THEOREM OneLiveToken == MockSpec => []OneTokenPerGrant
<1>1. Partners => OneTokenPerGrant
  BY DEF Partners, OneTokenPerGrant
<1> QED BY <1>1, PartnersInvariant, PTL
=============================================================================
