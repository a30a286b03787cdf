---------------------------- MODULE ServicesProofs ----------------------------
(***************************************************************************)
(* Theorems about the smaller parts of the bot's server, each about the    *)
(* specification of its part and for every value of the constants.         *)
(***************************************************************************)
EXTENDS MetricsCache, Subscription, Dialogue, MiniApp, Migrations, Traffic,
FiniteSetTheorems, TLAPS

-----------------------------------------------------------------------------
(* MetricsCache.                                                          *)

\* Type correctness of the cache, whatever is asked, measured and dropped.
THEOREM CacheTypes == CacheSpec => []CacheTypeOK
<1>1. CacheInit => CacheTypeOK
  BY CacheAssumption DEF CacheInit, CacheTypeOK, NoReading, Fetch, Unused
<1>2. CacheTypeOK /\ [CacheNext]_cacheVars => CacheTypeOK'
  <2> SUFFICES ASSUME CacheTypeOK, [CacheNext]_cacheVars PROVE CacheTypeOK'
    OBVIOUS
  <2> USE CacheAssumption DEF CacheTypeOK, NoReading, NotRead, Settled, Unused
  <2>1. ASSUME NEW a \in Askers, Ask(a) PROVE CacheTypeOK'
    BY <2>1 DEF Ask, Fetch
  <2>2. ASSUME NEW f \in Fetch, Measure(f) PROVE CacheTypeOK'
    BY <2>2 DEF Measure
  <2>3. ASSUME NEW f \in Fetch, Resolve(f) PROVE CacheTypeOK'
    BY <2>3 DEF Resolve, Fetch
  <2>4. ASSUME NEW f \in Fetch, Reject(f) PROVE CacheTypeOK'
    BY <2>4 DEF Reject, Fetch
  <2>5. CASE Expire
    BY <2>5 DEF Expire
  <2>6. CASE Change
    BY <2>6 DEF Change
  <2>7. CASE Invalidate
    BY <2>7 DEF Invalidate
  <2>8. CASE UNCHANGED cacheVars
    BY <2>8 DEF cacheVars
  <2> QED
    BY <2>1, <2>2, <2>3, <2>4, <2>5, <2>6, <2>7, <2>8 DEF CacheNext
<1> QED BY <1>1, <1>2, PTL DEF CacheSpec

-----------------------------------------------------------------------------

\* What the answers rest on: the measurement the cache tracks, once it has
\* read the machine, read it after the last invalidation.
FreshInv ==
  /\ invalidated <= reading
  /\ cached # NoReading => cached >= invalidated
  /\ fetching # 0 /\ fetches[fetching] >= 0 => fetches[fetching] >= invalidated
  /\ \A a \in Askers :
       /\ floor[a] <= invalidated
       /\ asked[a] # 0 /\ fetches[asked[a]] >= 0 => fetches[asked[a]] >= floor[a]

LEMMA FreshInit == CacheInit => FreshInv
BY CacheAssumption DEF CacheInit, FreshInv, Fetch, Unused

LEMMA FreshNext == CacheTypeOK /\ FreshInv /\ [CacheNext]_cacheVars => FreshInv'
<1> SUFFICES ASSUME CacheTypeOK, FreshInv, [CacheNext]_cacheVars PROVE FreshInv'
  OBVIOUS
<1> USE CacheAssumption DEF CacheTypeOK, FreshInv, NoReading, NotRead, Settled,
        Unused, Fetch
<1>1. ASSUME NEW a \in Askers, Ask(a) PROVE FreshInv'
  <2>1. PICK f \in Fetch :
          /\ IF fetching # 0 THEN f = fetching /\ UNCHANGED fetches
             ELSE fetches' = [fetches EXCEPT ![f] = NotRead]
          /\ fetching' = f
          /\ asked' = [asked EXCEPT ![a] = f]
    BY <1>1 DEF Ask
  <2>2. floor' = [floor EXCEPT ![a] = invalidated]
        /\ UNCHANGED <<reading, cached, invalidated>>
    BY <1>1 DEF Ask
  <2>3. fetches'[f] >= 0 => fetching = f /\ fetches'[f] >= invalidated
    BY <2>1
  <2>4. ASSUME NEW b \in Askers, asked'[b] # 0, fetches'[asked'[b]] >= 0
        PROVE  fetches'[asked'[b]] >= floor'[b]
    <3>1. CASE b = a
      BY <3>1, <2>1, <2>2, <2>3, <2>4
    <3>2. CASE b # a
      BY <3>2, <2>1, <2>2, <2>4
    <3> QED BY <3>1, <3>2
  <2> QED BY <2>1, <2>2, <2>3, <2>4
<1>2. ASSUME NEW f \in Fetch, Measure(f) PROVE FreshInv'
  BY <1>2 DEF Measure
<1>3. ASSUME NEW f \in Fetch, Resolve(f) PROVE FreshInv'
  BY <1>3 DEF Resolve
<1>4. ASSUME NEW f \in Fetch, Reject(f) PROVE FreshInv'
  BY <1>4 DEF Reject
<1>5. CASE Expire
  BY <1>5 DEF Expire
<1>6. CASE Change
  BY <1>6 DEF Change
<1>7. CASE Invalidate
  BY <1>7 DEF Invalidate
<1>8. CASE UNCHANGED cacheVars
  BY <1>8 DEF cacheVars
<1> QED
  BY <1>1, <1>2, <1>3, <1>4, <1>5, <1>6, <1>7, <1>8 DEF CacheNext

\* No caller is given a reading older than the last invalidation before its
\* question, for any number of measurements in flight and however they end.
THEOREM AnswersFresh == CacheSpec => []NoStaleAnswer
<1>1. FreshInv => NoStaleAnswer
  BY DEF FreshInv, NoStaleAnswer
<1> QED BY <1>1, FreshInit, FreshNext, CacheTypes, PTL DEF CacheSpec

-----------------------------------------------------------------------------
(* Subscription.                                                          *)

\* Handler h holds token t, on which the reply or the message will tell it.
Holds(h, t) == sending[h].op \in {"rotate", "card"} /\ sending[h].tok = t

\* Every token a rotation made was shown, or a handler that will show it has
\* it, or its link was dropped; past its message the card has shown its own.
HeldInv ==
  /\ \A t \in rotatedTo : t # 0 /\ (t \in handed \/ dropped \/ \E h \in SubHandlers : Holds(h, t))
  /\ \A h \in SubHandlers : sending[h].at = "photo" => sending[h].tok \in handed

LEMMA SubInitInv == SubInit => SubTypeOK /\ HeldInv
<1> SUFFICES ASSUME SubInit PROVE SubTypeOK /\ HeldInv
  OBVIOUS
<1> USE SubAssumption DEF SubInit, Free
<1>1. SubTypeOK
  <2>1. token \in Tokens /\ minted \in Tokens /\ archived \in Tokens
    BY DEF Tokens
  <2>2. dropped \in BOOLEAN
    OBVIOUS
  <2>3. rotatedTo \subseteq Tokens /\ handed \subseteq Tokens
    OBVIOUS
  <2>4. sending \in [SubHandlers -> [op : {"none", "send", "rotate", "card"},
                    at : {"idle", "message", "photo", "failed"}, tok : Tokens]]
    BY DEF Tokens
  <2> QED BY <2>1, <2>2, <2>3, <2>4 DEF SubTypeOK
<1>2. HeldInv
  BY DEF HeldInv
<1> QED BY <1>1, <1>2

LEMMA SubTypesNext == SubTypeOK /\ [SubNext]_subVars => SubTypeOK'
<1> SUFFICES ASSUME SubTypeOK, [SubNext]_subVars PROVE SubTypeOK'
  OBVIOUS
<1> USE SubAssumption DEF SubTypeOK, Tokens, Free
<1>1. CASE Info
  BY <1>1 DEF Info, Ensured
<1>2. CASE RotateOnly
  BY <1>2 DEF RotateOnly, Rotated
<1>3. CASE Archive
  BY <1>3 DEF Archive
<1>4. CASE SubRestart
  BY <1>4 DEF SubRestart
<1>5. ASSUME NEW h \in SubHandlers, BeginSend(h) PROVE SubTypeOK'
  BY <1>5 DEF BeginSend, Ensured
<1>6. ASSUME NEW h \in SubHandlers, BeginRotate(h) PROVE SubTypeOK'
  BY <1>6 DEF BeginRotate, Rotated
<1>7. ASSUME NEW h \in SubHandlers, MessageSent(h) PROVE SubTypeOK'
  BY <1>7 DEF MessageSent
<1>8. ASSUME NEW h \in SubHandlers, Reply(h) PROVE SubTypeOK'
  <2>1. dropped' \in BOOLEAN
    BY <1>8 DEF Reply
  <2>2. sending' = [sending EXCEPT ![h] = Free] /\ UNCHANGED <<token, minted, rotatedTo, archived>>
    BY <1>8 DEF Reply
  <2>3. handed' \subseteq Tokens
    BY <1>8 DEF Reply
  <2> QED BY <2>1, <2>2, <2>3
<1>9. CASE UNCHANGED subVars
  BY <1>9 DEF subVars
<1> QED
  BY <1>1, <1>2, <1>3, <1>4, <1>5, <1>6, <1>7, <1>8, <1>9 DEF SubNext

LEMMA HeldNext == SubTypeOK /\ HeldInv /\ [SubNext]_subVars => HeldInv'
<1> SUFFICES ASSUME SubTypeOK, HeldInv, [SubNext]_subVars PROVE HeldInv'
  OBVIOUS
<1> USE SubAssumption DEF SubTypeOK, Tokens, Free, HeldInv, Holds
<1>1. CASE Info
  BY <1>1 DEF Info, Ensured
<1>2. CASE RotateOnly
  BY <1>2 DEF RotateOnly, Rotated
<1>3. CASE Archive
  BY <1>3 DEF Archive
<1>4. CASE SubRestart
  BY <1>4 DEF SubRestart
<1>5. ASSUME NEW h \in SubHandlers, BeginSend(h) PROVE HeldInv'
  BY <1>5 DEF BeginSend, Ensured
<1>6. ASSUME NEW h \in SubHandlers, BeginRotate(h) PROVE HeldInv'
  BY <1>6 DEF BeginRotate, Rotated
<1>7. ASSUME NEW h \in SubHandlers, MessageSent(h) PROVE HeldInv'
  BY <1>7 DEF MessageSent
<1>8. ASSUME NEW h \in SubHandlers, Reply(h) PROVE HeldInv'
  <2>1. /\ sending' = [sending EXCEPT ![h] = Free] /\ rotatedTo' = rotatedTo
        /\ handed \subseteq handed'
    BY <1>8 DEF Reply
  <2>2. dropped => dropped'
    BY <1>8 DEF Reply
  <2>3. ASSUME NEW t, Holds(h, t) PROVE t \in handed' \/ dropped'
    <3>1. CASE sending[h].op = "rotate"
      BY <1>8, <2>3, <3>1 DEF Reply
    <3>2. CASE sending[h].op = "card" /\ sending[h].at = "photo"
      BY <2>1, <2>3, <3>2
    <3>3. CASE sending[h].op = "card" /\ sending[h].at = "failed"
      BY <1>8, <3>3 DEF Reply
    <3> QED BY <1>8, <2>3, <3>1, <3>2, <3>3 DEF Reply
  <2>4. ASSUME NEW t, NEW g \in SubHandlers, Holds(g, t), g # h PROVE Holds(g, t)'
    BY <2>1, <2>4
  <2>5. ASSUME NEW t \in rotatedTo'
        PROVE  t # 0 /\ (t \in handed' \/ dropped' \/ \E g \in SubHandlers : Holds(g, t)')
    BY <2>1, <2>2, <2>3, <2>4 DEF HeldInv
  <2>6. ASSUME NEW g \in SubHandlers, sending'[g].at = "photo"
        PROVE  sending'[g].tok \in handed'
    BY <2>1, <2>6
  <2> QED BY <2>5, <2>6
<1>9. CASE UNCHANGED subVars
  BY <1>9 DEF subVars
<1> QED
  BY <1>1, <1>2, <1>3, <1>4, <1>5, <1>6, <1>7, <1>8, <1>9 DEF SubNext

\* Type correctness of the subscription links.
THEOREM SubTypes == SubSpec => []SubTypeOK
BY SubInitInv, SubTypesNext, PTL DEF SubSpec

\* For any number of handlers, an administrator whose links were rotated has a
\* link that answers once nothing is under way and no link was dropped.
THEOREM LinkStaysInHand == SubSpec => []LinkInHand
<1>1. SubTypeOK /\ HeldInv => LinkInHand
  <2> SUFFICES ASSUME HeldInv, \A h \in SubHandlers : sending[h] = Free, ~dropped,
                      token \in rotatedTo
               PROVE  \E t \in handed : Answers(t)
    BY DEF LinkInHand
  <2>1. ~ \E h \in SubHandlers : Holds(h, token)
    BY DEF Holds, Free
  <2>2. token # 0 /\ token \in handed
    BY <2>1 DEF HeldInv
  <2> QED BY <2>2 DEF Answers
<1> QED BY <1>1, SubInitInv, SubTypesNext, HeldNext, PTL DEF SubSpec

-----------------------------------------------------------------------------
(* Dialogue.                                                              *)

\* What NameTyped makes of a session.
Resolved(s) ==
  [type      |-> IF s.clientType = Unset THEN "xray" ELSE s.clientType,
   transport |-> IF s.transport = Unset THEN "xray" ELSE s.transport]

\* A session that awaits a name holds what the last tapped button said.
TappedInv ==
  /\ DialogueTypeOK
  /\ session.step = "awaiting_client_name" => Resolved(session) = tapped
  /\ ClientAsTapped

LEMMA TappedInit == DialogueInit => TappedInv
BY DEF DialogueInit, TappedInv, DialogueTypeOK, ClientAsTapped, Initial, Default,
   Draft,
       Transports, Unset, NoClient

LEMMA TappedNext == TappedInv /\ [DialogueNext]_dialogueVars => TappedInv'
<1> SUFFICES ASSUME TappedInv, [DialogueNext]_dialogueVars PROVE TappedInv'
  OBVIOUS
<1> USE DEF TappedInv, DialogueTypeOK, ClientAsTapped, Draft, Transports, Unset,
        Resolved
<1>1. ASSUME NEW t \in {"wg", "xray", "hysteria2"}, TapAdd(t) PROVE TappedInv'
  BY <1>1 DEF TapAdd
<1>2. ASSUME NEW u \in Transports, TapTransport(u) PROVE TappedInv'
  BY <1>2 DEF TapTransport
<1>3. ASSUME NEW n \in ClientNames, ConfirmDelete(n) PROVE TappedInv'
  <2>1. session' = [session EXCEPT !.step = "awaiting_delete_confirm", !.clientId = n]
        /\ UNCHANGED <<tapped, known, born>>
    BY <1>3 DEF ConfirmDelete
  <2>2. session'.step = "awaiting_delete_confirm"
    BY <2>1
  <2>3. DialogueTypeOK'
    BY <2>1
  <2> QED BY <2>1, <2>2, <2>3
<1>4. ASSUME NEW n \in ClientNames, Delete(n) PROVE TappedInv'
  BY <1>4 DEF Delete, Initial, NoClient
<1>5. ASSUME NEW n \in ClientNames, NameTyped(n) PROVE TappedInv'
  <2>1. session' = Initial /\ tapped' = tapped
    BY <1>5 DEF NameTyped
  <2>2. Resolved(session) = tapped
    BY <1>5 DEF NameTyped
  <2>3. CASE UNCHANGED <<known, born>>
    BY <2>1, <2>3 DEF Initial, NoClient
  <2>4. CASE known' = known \cup {n} /\ born' = [got |-> Resolved(session),
        meant |-> tapped]
    BY <2>1, <2>2, <2>4 DEF Initial, NoClient
  <2> QED
    BY <1>5, <2>3, <2>4 DEF NameTyped
<1>6. CASE OthersEdit
  BY <1>6 DEF OthersEdit
<1>7. CASE BotRestart
  BY <1>7 DEF BotRestart, Initial, NoClient
<1>8. CASE UNCHANGED dialogueVars
  BY <1>8 DEF dialogueVars
<1> QED
  BY <1>1, <1>2, <1>3, <1>4, <1>5, <1>6, <1>7, <1>8 DEF DialogueNext

\* Type correctness of the dialogue.
THEOREM DialogueTypes == DialogueSpec => []DialogueTypeOK
<1>1. TappedInv => DialogueTypeOK
  BY DEF TappedInv
<1> QED BY <1>1, TappedInit, TappedNext, PTL DEF DialogueSpec

\* A client made from a typed name is of the type and the transport that the
\* last tapped button said, whatever menus were used and in what order.
THEOREM MadeAsTapped == DialogueSpec => []ClientAsTapped
<1>1. TappedInv => ClientAsTapped
  BY DEF TappedInv
<1> QED BY <1>1, TappedInit, TappedNext, PTL DEF DialogueSpec

-----------------------------------------------------------------------------
(* MiniApp.                                                                *)

LEMMA ScreenValues ==
  /\ Unmade \in Values /\ Gone \in Values /\ New \in Values /\ Alive \subseteq Values
  /\ \A v \in Values : v.power \in 0..1
  /\ \A v \in Values, e \in Edits, x \in 0..1 :
       v.life = "here" => [v EXCEPT ![e] = x] \in Values
<1>1. New \in Alive
  BY DEF New, Alive
<1>2. ASSUME NEW v \in Values PROVE v.power \in 0..1
  <2>1. Unmade.power = 0 /\ Gone.power = 0
    BY DEF Unmade, Gone
  <2>2. \A w \in Alive : w.power \in 0..1
    BY DEF Alive
  <2> QED BY <2>1, <2>2 DEF Values
<1>3. ASSUME NEW v \in Values, NEW e \in Edits, NEW x \in 0..1, v.life = "here"
      PROVE  [v EXCEPT ![e] = x] \in Values
  <2>1. Unmade.life = "none" /\ Gone.life = "gone"
    BY DEF Unmade, Gone
  <2>2. v \in Alive
    BY <1>3, <2>1 DEF Values
  <2>3. CASE e = "quota"
    BY <2>2, <2>3 DEF Values, Alive
  <2>4. CASE e = "power"
    BY <2>2, <2>4 DEF Values, Alive
  <2> QED BY <2>3, <2>4 DEF Edits
<1> QED BY <1>1, <1>2, <1>3 DEF Values

\* What a screen that opens or asks may change.
LEMMA OpenedTypes ==
  AppTypeOK /\ (Asks \/ Opens \/ Invalidated) =>
    /\ shown' = shown /\ fresh' \in BOOLEAN /\ confirmed' \in {"no", "yes", "late"}
    /\ refetch' \in [at : {"none", "sent", "read"}, got : Values]
<1>1. Asking \in [at : {"none", "sent", "read"}, got : Values]
  BY ScreenValues DEF Asking
<1> QED BY <1>1 DEF AppTypeOK, Asks, Opens, Invalidated, cacheState

LEMMA ChangeTypes ==
  \A c \in Changes :
    /\ c.edit \in Edits /\ c.to \in 0..1
    /\ [c EXCEPT !.by = "nobody"] \in Changes
    /\ \A a \in {"ok", "error"} : [c EXCEPT !.at = a, !.to = 0] \in Changes
<1> SUFFICES ASSUME NEW c \in Changes
             PROVE  /\ c.edit \in Edits /\ c.to \in 0..1
                    /\ [c EXCEPT !.by = "nobody"] \in Changes
                    /\ \A a \in {"ok", "error"} : [c EXCEPT !.at = a, !.to = 0] \in Changes
  OBVIOUS
<1>1. [c EXCEPT !.by = "nobody"] \in Changes
  BY DEF Changes
<1>2. ASSUME NEW a \in {"ok", "error"} PROVE [c EXCEPT !.at = a, !.to = 0] \in Changes
  <2>1. [c EXCEPT !.at = a] \in Changes
    BY DEF Changes
  <2>2. \A d \in Changes : [d EXCEPT !.to = 0] \in Changes
    BY DEF Changes
  <2>3. [c EXCEPT !.at = a, !.to = 0] = [[c EXCEPT !.at = a] EXCEPT !.to = 0]
    OBVIOUS
  <2> QED BY <2>1, <2>2, <2>3, Zenon
<1> QED BY <1>1, <1>2 DEF Changes

LEMMA AppTypesNext == AppTypeOK /\ [AppNext]_appVars => AppTypeOK'
<1> SUFFICES ASSUME AppTypeOK, [AppNext]_appVars PROVE AppTypeOK'
  OBVIOUS
<1>r. /\ Asking \in [at : {"none", "sent", "read"}, got : Values]
      /\ NoFetch \in [at : {"none", "sent", "read"}, got : Values]
      /\ NotFound \in [state : {"loading", "ok", "error"}, row : Values]
  BY ScreenValues DEF Asking, NoFetch, NotFound
<1>a. Abandoned \subseteq Changes
  BY ChangeTypes DEF Abandoned, AppTypeOK
<1>1. CASE SubmitClient
  BY <1>1 DEF SubmitClient, AppTypeOK, cacheState
<1>2. CASE ServerCreates
  BY <1>2, ScreenValues DEF ServerCreates, AppTypeOK
<1>3. CASE CreateAnswered
  BY <1>3, OpenedTypes DEF CreateAnswered, AppTypeOK, Opens, cacheState
<1>4. ASSUME NEW p \in {"client", "other"}, GoTo(p) PROVE AppTypeOK'
  BY <1>4, <1>a, OpenedTypes DEF GoTo, AppTypeOK, Opens, cacheState
<1>5. CASE ServerReads
  BY <1>5 DEF ServerReads, AppTypeOK
<1>6. CASE FetchAnswered \/ FetchFailed
  <2>1. refetch.got \in Values
    BY DEF AppTypeOK
  <2>2. [state |-> "ok", row |-> refetch.got] \in [state : {"loading", "ok", "error"}, row : Values]
    BY <2>1
  <2>3. shown' \in {[state |-> "ok", row |-> refetch.got], NotFound} /\ refetch' = NoFetch
        /\ fresh' \in {TRUE, fresh} /\ UNCHANGED <<stored, place, creating, changes, confirmed>>
    BY <1>6 DEF FetchAnswered, FetchFailed
  <2> QED BY <2>2, <2>3, <1>r DEF AppTypeOK
<1>7. ASSUME NEW e \in Edits, Save(e) PROVE AppTypeOK'
  <2>1. shown.row.power \in 0..1
    BY ScreenValues DEF AppTypeOK
  <2>2. Offered(e) \subseteq 0..1
    BY <2>1 DEF Offered
  <2>3. changes' \subseteq Changes
    BY <1>7, <2>2 DEF Save, AppTypeOK, Changes
  <2> QED BY <1>7, <2>3 DEF Save, AppTypeOK, cacheState
<1>8. ASSUME NEW c \in changes, ServerApplies(c) PROVE AppTypeOK'
  <2>1. c \in Changes
    BY DEF AppTypeOK
  <2>t. c.edit \in Edits /\ c.to \in 0..1
    BY <2>1, ChangeTypes
  <2>2. stored' \in Values
    <3>1. stored.life = "here" => [stored EXCEPT ![c.edit] = c.to] \in Values
      BY <2>t, ScreenValues DEF AppTypeOK
    <3>2. \/ stored.life = "here" /\ stored' = [stored EXCEPT ![c.edit] = c.to]
          \/ stored' = stored
      BY <1>8, Zenon DEF ServerApplies
    <3> QED BY <3>1, <3>2, Zenon DEF AppTypeOK
  <2>3. changes' \subseteq Changes
    <3>1. PICK a \in {"ok", "error"} :
            changes' = (changes \ {c}) \cup {[c EXCEPT !.at = a, !.to = 0]}
      BY <1>8, Zenon DEF ServerApplies
    <3>2. [c EXCEPT !.at = a, !.to = 0] \in Changes
      BY <2>1, ChangeTypes
    <3> QED BY <3>1, <3>2, Zenon DEF AppTypeOK
  <2> QED BY <1>8, <2>2, <2>3 DEF ServerApplies, AppTypeOK
<1>9. ASSUME NEW c \in changes, Confirmed(c) \/ Refused(c) PROVE AppTypeOK'
  BY <1>9, OpenedTypes DEF Confirmed, Refused, AppTypeOK, cacheState
<1>10. CASE DeleteTapped \/ RowChanged
  BY <1>10, <1>a, ScreenValues DEF DeleteTapped, RowChanged, AppTypeOK
<1>11. CASE Ages \/ Refocus
  BY <1>11, OpenedTypes DEF Ages, Refocus, AppTypeOK
<1>12. CASE UNCHANGED appVars
  BY <1>12 DEF appVars, AppTypeOK
<1> QED
  BY <1>1, <1>2, <1>3, <1>4, <1>5, <1>6, <1>7, <1>8, <1>9, <1>10, <1>11, <1>12 DEF AppNext

\* Type correctness of the Mini App's client.
THEOREM AppTypes == AppSpec => []AppTypeOK
<1>1. AppInit => AppTypeOK
  <2>1. [at |-> "none", got |-> Unmade] \in [at : {"none", "sent", "read"}, got : Values]
    BY ScreenValues
  <2>2. [state |-> "loading", row |-> Unmade] \in [state : {"loading", "ok", "error"}, row : Values]
    BY ScreenValues
  <2> QED BY <2>1, <2>2, ScreenValues DEF AppInit, AppTypeOK, NoFetch, Loading
<1> QED BY <1>1, AppTypesNext, PTL DEF AppSpec

\* The last edit is confirmed, nobody else wrote the row, and no answer from
\* before it outlived its screen: what is in flight has read the row as it is;
\* a cached answer that is fresh is the row; and an open screen that still
\* loads has a GET in flight, since a screen only closes on the cache it had.
CaughtUp ==
  /\ ScreenCatchesUp
  /\ confirmed = "yes" /\ refetch.at = "read" => refetch.got = stored
  /\ confirmed = "yes" /\ fresh => shown.row = stored
  /\ fresh => shown.state = "ok" /\ refetch.at = "none"
  /\ place = "client" /\ shown.state = "loading" => refetch.at # "none"

LEMMA CaughtUpNext == AppTypeOK /\ CaughtUp /\ [AppNext]_appVars => CaughtUp'
<1> SUFFICES ASSUME AppTypeOK, CaughtUp, [AppNext]_appVars PROVE CaughtUp'
  OBVIOUS
<1> USE DEF AppTypeOK, CaughtUp, ScreenCatchesUp, Asking, NoFetch, NotFound, cacheState
<1>1. CASE SubmitClient \/ ServerCreates
  BY <1>1 DEF SubmitClient, ServerCreates
<1>2. CASE CreateAnswered
  BY <1>2 DEF CreateAnswered, Opens, Asks
<1>3. ASSUME NEW p \in {"client", "other"}, GoTo(p) PROVE CaughtUp'
  BY <1>3 DEF GoTo, Opens, Asks
<1>4. CASE ServerReads \/ FetchFailed
  BY <1>4 DEF ServerReads, FetchFailed
<1>5. CASE FetchAnswered
  BY <1>5 DEF FetchAnswered
<1>6. ASSUME NEW e \in Edits, Save(e) PROVE CaughtUp'
  BY <1>6 DEF Save
<1>7. ASSUME NEW c \in changes, ServerApplies(c) PROVE CaughtUp'
  <2>1. (confirmed' = "yes" => confirmed = "yes" /\ stored' = stored)
        /\ UNCHANGED <<place, shown, fresh, refetch>>
    BY <1>7 DEF ServerApplies
  <2> QED BY <2>1
<1>8. ASSUME NEW c \in changes, Confirmed(c) PROVE CaughtUp'
  BY <1>8 DEF Confirmed, Invalidated
<1>9. ASSUME NEW c \in changes, Refused(c) PROVE CaughtUp'
  BY <1>9 DEF Refused
<1>10. CASE DeleteTapped \/ RowChanged
  BY <1>10 DEF DeleteTapped, RowChanged
<1>11. CASE Ages \/ Refocus
  BY <1>11 DEF Ages, Refocus, Asks
<1>12. CASE UNCHANGED appVars
  BY <1>12 DEF appVars
<1> QED
  BY <1>1, <1>2, <1>3, <1>4, <1>5, <1>6, <1>7, <1>8, <1>9, <1>10, <1>11, <1>12 DEF AppNext

\* After an edit that the server confirmed the screen comes to show the row,
\* whatever edits, answers, failures, closings and openings of the screen
\* overlap, unless a GET outlived its screen and the confirmation: a screen
\* that opens on a fresh cache does not ask, and need not.
THEOREM ScreenRight == AppSpec => []ScreenCatchesUp
<1>1. AppInit => CaughtUp
  BY DEF AppInit, CaughtUp, ScreenCatchesUp
<1>2. CaughtUp => ScreenCatchesUp
  BY DEF CaughtUp
<1> QED BY <1>1, <1>2, CaughtUpNext, AppTypes, PTL DEF AppSpec

-----------------------------------------------------------------------------
(* Migrations.                                                             *)

\* No start has lost what the database held when the process last ran.
NothingLost ==
  /\ disk.rows = origin.rows /\ disk.snapshots = disk.rows /\ origin.snapshots = origin.rows
  /\ \A r \in Rows : origin.token[r] # NoToken => disk.token[r] = origin.token[r]
  /\ ~disk.wide => \A r \in Rows : origin.token[r] = NoToken
  /\ \A k \in Keys :
       \/ disk.settings[k] = origin.settings[k]
       \/ disk.settings[k] = "seeded" /\ origin.settings[k] = "absent"

\* The rebuild works on a table without tokens, whose rows it keeps, and with
\* the keys off.
RebuildSafe ==
  IF at \in 5..7
  THEN /\ ~fk /\ ~disk.wide
       /\ tx.snapshots = disk.snapshots /\ tx.settings = disk.settings
       /\ "hy2_rx" \in tx.columns \cup swallowed
       /\ tx.rows = disk.rows
       /\ at >= 6 => "late" \in tx.columns
       /\ at = 6 => tx.copied = disk.rows
       /\ at = 7 => tx.wide /\ "hy2_password" \in tx.columns
  ELSE fk

\* What the steps behind the present one have brought about.
StepsDone ==
  /\ at >= 4 => "hy2_rx" \in disk.columns \cup swallowed
  /\ disk.wide => {"late", "hy2_password"} \subseteq disk.columns
  /\ at >= 8 => disk.wide
  /\ at >= 10 => "sub_token" \in disk.columns
  /\ at >= 10 => \A r \in disk.rows \cap Capable : disk.token[r] # NoToken
  /\ at = 11 => \A k \in Keys : disk.settings[k] # "absent"

UpgradeInv == NothingLost /\ RebuildSafe /\ StepsDone

LEMMA StepAt ==
  ASSUME at \in 1..11
  PROVE  /\ StepIs("tables") <=> at = 1
         /\ StepIs("late") <=> at = 2
         /\ StepIs("hy2_rx") <=> at = 3
         /\ StepIs("begin") <=> at = 4
         /\ StepIs("copy") <=> at = 5
         /\ StepIs("drop") <=> at = 6
         /\ StepIs("commit") <=> at = 7
         /\ StepIs("sub_token") <=> at = 8
         /\ StepIs("backfill") <=> at = 9
         /\ StepIs("seed") <=> at = 10
         /\ StepIs("up") <=> at = 11
         /\ ~ StepIs("hy2_password")
BY DEF StepIs, MigrationSteps

LEMMA StepCount == Len(MigrationSteps) = 11
BY DEF MigrationSteps

\* A shape is a known database: its snapshots are of its rows, it has tokens
\* only on the wide table, and that one has the columns of the rebuild.
Known(d) ==
  /\ d \in Databases /\ d.snapshots = d.rows
  /\ ~ d.wide => \A r \in Rows : d.token[r] = NoToken
  /\ d.wide => {"late", "hy2_password"} \subseteq d.columns

LEMMA ShapesKnown == ASSUME NEW d \in Shapes PROVE Known(d)
<1> USE DEF Nowhere, NoSettings, NoToken, OldToken, NewToken
<1>1. Known(Fresh)
  BY DEF Known, Fresh, Databases, Columns, Keys
<1>2. ASSUME NEW c \in {{}, {"late"}, {"late", "hy2_rx"}}, NEW r \in SUBSET Rows
      PROVE  Known(BeforeHysteria(c, r))
  BY DEF Known, BeforeHysteria, Fresh, Databases, Columns, Keys
<1>3. ASSUME NEW c \in {Columns, Columns \ {"hy2_rx"}}, NEW r \in SUBSET Rows
      PROVE  Known(BeforeTokens(c, r))
  BY DEF Known, BeforeTokens, BeforeHysteria, Fresh, Databases, Columns, Keys
<1>4. ASSUME NEW c \in {Columns, Columns \ {"hy2_rx"}}, NEW r \in SUBSET Rows
      PROVE  Known(Present(c, r))
  BY DEF Known, Present, BeforeHysteria, Fresh, Databases, Columns, Keys
<1> QED BY <1>1, <1>2, <1>3, <1>4 DEF Shapes

LEMMA MigrationsTypesNext == MigrationsTypeOK /\ [MigrationsNext]_migrationVars => MigrationsTypeOK'
<1> SUFFICES ASSUME MigrationsTypeOK,
    [MigrationsNext]_migrationVars PROVE MigrationsTypeOK'
  OBVIOUS
<1> USE StepAt, StepCount DEF MigrationsTypeOK, GoOn
<1>0. NoTx \in Databases /\ at \in 1..11
  BY DEF NoTx, Fresh, Nowhere, NoSettings, NoToken, Databases, Columns, Keys
<1>1. CASE CreateTables
  <2>1. /\ disk' = [disk EXCEPT !.tables = TRUE] /\ at' = 2
        /\ UNCHANGED <<tx, fk, swallowed, origin>>
    BY <1>0, <1>1 DEF CreateTables
  <2>2. disk' \in Databases
    BY <2>1 DEF Databases
  <2> QED BY <2>1, <2>2
<1>2. ASSUME NEW c \in Columns, AddColumn(c) PROVE MigrationsTypeOK'
  BY <1>0, <1>2 DEF AddColumn, Databases, Columns
<1>3. CASE SkipRebuild
  <2>1. at' = 8 /\ UNCHANGED <<disk, tx, fk, swallowed, origin>>
    BY <1>0, <1>3 DEF SkipRebuild
  <2> QED BY <2>1
<1>13. CASE BeginRebuild
  <2>1. at' = 5 /\ UNCHANGED <<disk, swallowed, origin>> /\ tx' = disk
    BY <1>0, <1>13 DEF BeginRebuild
  <2>2. fk' \in BOOLEAN
    BY <1>13 DEF BeginRebuild
  <2> QED BY <2>1, <2>2
<1>4. CASE CopyRows
  BY <1>0, <1>4 DEF CopyRows, Databases
<1>5. CASE DropAndRename
  <2> DEFINE kept == IF fk THEN {} ELSE tx.snapshots
             cols == (tx.columns \ {"sub_token"}) \cup {"hy2_password"}
  <2>1. /\ tx' = [tx EXCEPT !.rows = tx.copied, !.copied = {}, !.wide = TRUE,
                            !.snapshots = kept, !.columns = cols, !.token = Nowhere]
        /\ at' = 7 /\ UNCHANGED <<disk, fk, swallowed, origin>>
    BY <1>0, <1>5 DEF DropAndRename, Databases
  <2>2. /\ kept \in SUBSET Rows /\ cols \in SUBSET Columns
        /\ Nowhere \in [Rows -> {NoToken, OldToken, NewToken}]
    BY DEF Databases, Columns, Nowhere
  <2> HIDE DEF kept, cols
  <2>3. tx' \in Databases
    BY <2>1, <2>2 DEF Databases
  <2> QED BY <2>1, <2>3
<1>6. CASE CommitRebuild
  BY <1>0, <1>6 DEF CommitRebuild
<1>7. CASE Backfill
  BY <1>0, <1>7 DEF Backfill, Databases, NewToken, NoToken
<1>8. CASE Seed
  BY <1>0, <1>8 DEF Seed, Databases
<1>9. CASE Serve
  <2>1. ASSUME NEW r \in Rows,
               disk' = [disk EXCEPT !.rows = @ \cup {r}, !.snapshots = @ \cup {r},
                          !.token[r] = IF r \in Capable THEN NewToken ELSE NoToken]
        PROVE  disk' \in Databases
    BY <2>1 DEF Databases, NewToken, NoToken
  <2>2. ASSUME NEW r \in Rows,
               disk' = [disk EXCEPT !.rows = @ \ {r}, !.snapshots = @ \ {r},
               !.token[r] = NoToken]
        PROVE  disk' \in Databases
    BY <2>2 DEF Databases, NoToken
  <2>3. ASSUME disk' = [disk EXCEPT !.settings = [k \in Keys |-> "edited"]]
        PROVE  disk' \in Databases
    BY <2>3 DEF Databases
  <2>4. disk.rows \subseteq Rows
    BY DEF Databases
  <2>5. disk' \in Databases /\ origin' = disk' /\ UNCHANGED <<tx, fk, at, swallowed>>
    BY <1>9, <2>1, <2>2, <2>3, <2>4, Zenon DEF Serve
  <2> QED BY <2>5
<1>10. CASE Die
  BY <1>0, <1>10 DEF Die
<1>11. CASE DieForRestore
  BY <1>0, <1>11, ShapesKnown DEF DieForRestore, Known
<1>12. CASE UNCHANGED migrationVars
  BY <1>12 DEF migrationVars
<1> QED
  BY <1>1, <1>2, <1>3, <1>4, <1>5, <1>6, <1>7, <1>8, <1>9, <1>10, <1>11, <1>12, <1>13
     DEF MigrationsNext

LEMMA UpgradeInit == MigrationsInit => MigrationsTypeOK /\ UpgradeInv
<1> SUFFICES ASSUME MigrationsInit PROVE MigrationsTypeOK /\ UpgradeInv
  OBVIOUS
<1>1. Known(disk) /\ origin = disk /\ at = 1 /\ tx = NoTx
  BY ShapesKnown DEF MigrationsInit
<1>2. fk = TRUE
  BY DEF MigrationsInit
<1>3. NoTx \in Databases
  BY DEF NoTx, Fresh, Nowhere, NoSettings, NoToken, Databases, Columns, Keys
<1>4. MigrationsTypeOK
  <2>1. disk \in Databases /\ origin \in Databases /\ tx \in Databases /\ at \in 1..11
    BY <1>1, <1>3 DEF Known
  <2>2. fk \in BOOLEAN /\ swallowed \subseteq Columns
    BY <1>2 DEF MigrationsInit
  <2> QED BY <2>1, <2>2, StepCount DEF MigrationsTypeOK
<1>5. NothingLost
  BY <1>1 DEF Known, NothingLost
<1>6. RebuildSafe
  BY <1>1, <1>2 DEF RebuildSafe
<1>7. StepsDone
  BY <1>1 DEF Known, StepsDone
<1> QED BY <1>4, <1>5, <1>6, <1>7 DEF UpgradeInv

\* What a database is while the process runs on it.
Served(d) ==
  /\ d.rows = d.snapshots /\ d.wide /\ Columns \ {"hy2_rx"} \subseteq d.columns
  /\ "hy2_rx" \in d.columns \cup swallowed
  /\ \A r \in d.rows \cap Capable : d.token[r] # NoToken
  /\ \A k \in Keys : d.settings[k] # "absent"

LEMMA UpgradeNext ==
  MigrationsTypeOK /\ UpgradeInv /\ [MigrationsNext]_migrationVars => UpgradeInv'
<1> SUFFICES ASSUME MigrationsTypeOK, UpgradeInv, [MigrationsNext]_migrationVars
             PROVE  UpgradeInv'
  OBVIOUS
<1> USE StepAt DEF GoOn
<1>0. /\ disk \in Databases /\ origin \in Databases /\ tx \in Databases /\ at \in 1..11
      /\ NothingLost /\ RebuildSafe /\ StepsDone
  BY StepCount DEF MigrationsTypeOK, UpgradeInv
<1>1. CASE CreateTables
  <2>1. /\ at = 1 /\ at' = 2 /\ disk' = [disk EXCEPT !.tables = TRUE]
        /\ UNCHANGED <<tx, fk, swallowed, origin>>
    BY <1>0, <1>1 DEF CreateTables
  <2>2. /\ disk'.rows = disk.rows /\ disk'.snapshots = disk.snapshots /\ disk'.token = disk.token
        /\ disk'.settings = disk.settings /\ disk'.columns = disk.columns
    BY <1>0, <2>1 DEF Databases
  <2>3. disk'.wide = disk.wide
    BY <1>0, <2>1 DEF Databases
  <2>4. NothingLost'
    BY <1>0, <2>1, <2>2, <2>3 DEF NothingLost
  <2>5. RebuildSafe'
    BY <1>0, <2>1 DEF RebuildSafe
  <2>6. StepsDone'
    BY <1>0, <2>1, <2>2, <2>3 DEF StepsDone
  <2> QED BY <2>4, <2>5, <2>6 DEF UpgradeInv
<1>2. ASSUME NEW c \in Columns, AddColumn(c) PROVE UpgradeInv'
  <2>0. /\ at' = at + 1 /\ UNCHANGED <<tx, fk, origin>>
        /\ \/ disk' = [disk EXCEPT !.columns = @ \cup {c}] /\ swallowed' = swallowed
           \/ disk' = disk /\ swallowed' = swallowed \cup {c}
    BY <1>2 DEF AddColumn
  <2>1. \/ c = "late" /\ at = 2
        \/ c = "hy2_rx" /\ at = 3
        \/ c = "sub_token" /\ at = 8
    <3>1. StepIs(c) /\ c # "hy2_password"
      BY <1>0, <1>2 DEF AddColumn
    <3> QED BY <1>0, <3>1 DEF Columns
  <2>2. /\ disk'.rows = disk.rows /\ disk'.snapshots = disk.snapshots /\ disk'.token = disk.token
        /\ disk'.settings = disk.settings /\ disk.columns \subseteq disk'.columns
        /\ c \in disk'.columns \cup swallowed' /\ swallowed \subseteq swallowed'
    BY <1>0, <2>0 DEF Databases
  <2>3. disk'.wide = disk.wide
    BY <1>0, <2>0 DEF Databases
  <2>4. NothingLost'
    BY <1>0, <2>0, <2>2, <2>3 DEF NothingLost
  <2>5. RebuildSafe'
    BY <1>0, <2>0, <2>1 DEF RebuildSafe
  <2>6. StepsDone'
    BY <1>0, <2>0, <2>1, <2>2, <2>3 DEF StepsDone
  <2> QED BY <2>4, <2>5, <2>6 DEF UpgradeInv
<1>3. CASE SkipRebuild
  <2>1. at = 4 /\ at' = 8 /\ disk.wide /\ UNCHANGED <<disk, tx, fk, swallowed, origin>>
    BY <1>0, <1>3 DEF SkipRebuild
  <2> QED BY <1>0, <2>1 DEF UpgradeInv, NothingLost, RebuildSafe, StepsDone
<1>4. CASE BeginRebuild
  <2>1. /\ at = 4 /\ at' = 5 /\ ~ disk.wide /\ ~ fk' /\ tx' = disk
        /\ UNCHANGED <<disk, swallowed, origin>>
    BY <1>0, <1>4 DEF BeginRebuild
  <2>2. NothingLost'
    BY <1>0, <2>1 DEF NothingLost
  <2>3. RebuildSafe'
    BY <1>0, <2>1 DEF RebuildSafe, StepsDone
  <2>4. StepsDone'
    BY <1>0, <2>1 DEF StepsDone
  <2> QED BY <2>2, <2>3, <2>4 DEF UpgradeInv
<1>5. CASE CopyRows
  <2>1. /\ at = 5 /\ at' = 6 /\ tx' = [tx EXCEPT !.copied = tx.rows] /\ "late" \in tx.columns
        /\ UNCHANGED <<disk, fk, swallowed, origin>>
    BY <1>0, <1>5 DEF CopyRows
  <2>2. /\ tx'.copied = tx.rows /\ tx'.rows = tx.rows /\ tx'.snapshots = tx.snapshots
        /\ tx'.settings = tx.settings /\ tx'.columns = tx.columns
    BY <1>0, <2>1 DEF Databases
  <2>3. NothingLost'
    BY <1>0, <2>1 DEF NothingLost
  <2>4. RebuildSafe'
    BY <1>0, <2>1, <2>2 DEF RebuildSafe
  <2>5. StepsDone'
    BY <1>0, <2>1 DEF StepsDone
  <2> QED BY <2>3, <2>4, <2>5 DEF UpgradeInv
<1>6. CASE DropAndRename
  <2>1. /\ at = 6 /\ at' = 7 /\ UNCHANGED <<disk, fk, swallowed, origin>> /\ ~ fk
    BY <1>0, <1>6 DEF DropAndRename, RebuildSafe
  <2>2. /\ tx'.rows = tx.copied /\ tx'.snapshots = tx.snapshots /\ tx'.settings = tx.settings
        /\ tx'.columns = (tx.columns \ {"sub_token"}) \cup {"hy2_password"}
    BY <1>0, <1>6, <2>1 DEF DropAndRename, Databases
  <2>3. tx'.wide
    BY <1>0, <1>6 DEF DropAndRename, Databases
  <2>4. NothingLost'
    BY <1>0, <2>1 DEF NothingLost
  <2>5. RebuildSafe'
    BY <1>0, <2>1, <2>2, <2>3 DEF RebuildSafe
  <2>6. StepsDone'
    BY <1>0, <2>1 DEF StepsDone
  <2> QED BY <2>4, <2>5, <2>6 DEF UpgradeInv
<1>7. CASE CommitRebuild
  <2>1. at = 7 /\ at' = 8 /\ disk' = tx /\ fk' /\ UNCHANGED <<swallowed, origin>>
    BY <1>0, <1>7 DEF CommitRebuild
  <2>2. /\ tx.rows = disk.rows /\ tx.snapshots = disk.snapshots /\ tx.settings = disk.settings
        /\ {"late", "hy2_password"} \subseteq tx.columns /\ tx.wide
        /\ "hy2_rx" \in tx.columns \cup swallowed
        /\ \A r \in Rows : origin.token[r] = NoToken
    BY <1>0, <2>1 DEF RebuildSafe, NothingLost
  <2>3. NothingLost'
    BY <1>0, <2>1, <2>2 DEF NothingLost
  <2>4. RebuildSafe'
    BY <2>1 DEF RebuildSafe
  <2>5. StepsDone'
    BY <1>0, <2>1, <2>2 DEF StepsDone
  <2> QED BY <2>3, <2>4, <2>5 DEF UpgradeInv
<1>8. CASE Backfill
  <2> DEFINE filled == [r \in Rows |-> IF r \in disk.rows \cap Capable /\ disk.token[r] = NoToken
                                       THEN NewToken ELSE disk.token[r]]
  <2>1. /\ at = 9 /\ at' = 10 /\ disk' = [disk EXCEPT !.token = filled]
        /\ "sub_token" \in disk.columns
        /\ UNCHANGED <<tx, fk, swallowed, origin>>
    BY <1>0, <1>8 DEF Backfill, Databases
  <2>2. /\ disk'.rows = disk.rows /\ disk'.snapshots = disk.snapshots /\ disk'.token = filled
        /\ disk'.settings = disk.settings /\ disk'.columns = disk.columns
    BY <1>0, <2>1 DEF Databases
  <2>3. disk'.wide = disk.wide /\ disk.wide
    BY <1>0, <2>1 DEF Databases, StepsDone
  <2>4. NothingLost'
    <3>1. \A r \in Rows : origin.token[r] # NoToken => disk'.token[r] = origin.token[r]
      BY <1>0, <2>2 DEF NothingLost
    <3> QED BY <1>0, <2>1, <2>2, <2>3, <3>1 DEF NothingLost
  <2>5. RebuildSafe'
    BY <1>0, <2>1 DEF RebuildSafe
  <2>6. StepsDone'
    <3>1. \A r \in disk'.rows \cap Capable : disk'.token[r] # NoToken
      BY <1>0, <2>2 DEF Databases, NewToken, NoToken
    <3> QED BY <1>0, <2>1, <2>2, <2>3, <3>1 DEF StepsDone
  <2> QED BY <2>4, <2>5, <2>6 DEF UpgradeInv
<1>9. CASE Seed
  <2>1. at = 10 /\ UNCHANGED <<tx, fk, swallowed, origin>>
    BY <1>0, <1>9 DEF Seed
  <2>2. ASSUME NEW k \in Keys, disk.settings[k] = "absent",
               disk' = [disk EXCEPT !.settings[k] = "seeded"], at' = at
        PROVE  UpgradeInv'
    <3>1. /\ disk'.rows = disk.rows /\ disk'.snapshots = disk.snapshots
          /\ disk'.token = disk.token /\ disk'.columns = disk.columns
          /\ \A j \in Keys : disk'.settings[j] = IF j = k THEN "seeded" ELSE disk.settings[j]
      BY <1>0, <2>2 DEF Databases
    <3>2. disk'.wide = disk.wide
      BY <1>0, <2>2 DEF Databases
    <3>3. NothingLost'
      <4>1. \A j \in Keys : \/ disk'.settings[j] = origin.settings[j]
                            \/ disk'.settings[j] = "seeded" /\ origin.settings[j] = "absent"
        BY <1>0, <2>2, <3>1 DEF NothingLost
      <4> QED BY <1>0, <2>1, <3>1, <3>2, <4>1 DEF NothingLost
    <3>4. RebuildSafe'
      BY <1>0, <2>1, <2>2 DEF RebuildSafe
    <3>5. StepsDone'
      BY <1>0, <2>1, <2>2, <3>1, <3>2 DEF StepsDone
    <3> QED BY <3>3, <3>4, <3>5 DEF UpgradeInv
  <2>3. CASE /\ \A k \in Keys : disk.settings[k] # "absent"
             /\ at' = at + 1 /\ UNCHANGED disk
    BY <1>0, <2>1, <2>3 DEF UpgradeInv, NothingLost, RebuildSafe, StepsDone
  <2> QED BY <1>9, <2>2, <2>3 DEF Seed
<1>10. CASE Serve
  <2>1. at = 11 /\ origin' = disk' /\ UNCHANGED <<tx, fk, at, swallowed>>
    BY <1>0, <1>10 DEF Serve
  <2>2. Served(disk) /\ fk
    BY <1>0, <2>1 DEF Served, NothingLost, RebuildSafe, StepsDone, Columns
  <2>3. Served(disk')
    <3>1. ASSUME NEW r \in Rows,
                 disk' = [disk EXCEPT !.rows = @ \cup {r}, !.snapshots = @ \cup {r},
                            !.token[r] = IF r \in Capable THEN NewToken ELSE NoToken]
          PROVE  Served(disk')
      BY <1>0, <2>2, <3>1 DEF Served, Databases, NewToken, NoToken
    <3>2. ASSUME NEW r \in Rows,
                 disk' = [disk EXCEPT !.rows = @ \ {r}, !.snapshots = @ \ {r},
                            !.token[r] = NoToken]
          PROVE  Served(disk')
      BY <1>0, <2>2, <3>2 DEF Served, Databases, NoToken
    <3>3. ASSUME disk' = [disk EXCEPT !.settings = [k \in Keys |-> "edited"]]
          PROVE  Served(disk')
      BY <1>0, <2>2, <3>3 DEF Served, Databases
    <3>4. disk.rows \subseteq Rows
      BY <1>0 DEF Databases
    <3> QED BY <1>10, <3>1, <3>2, <3>3, <3>4, Zenon DEF Serve
  <2>4. NothingLost'
    BY <2>1, <2>3 DEF NothingLost, Served
  <2>5. RebuildSafe'
    BY <2>1, <2>2 DEF RebuildSafe
  <2>6. StepsDone'
    BY <2>1, <2>2, <2>3 DEF StepsDone, Served, Columns
  <2> QED BY <2>4, <2>5, <2>6 DEF UpgradeInv
<1>11. CASE Die
  <2>1. at' = 1 /\ fk' /\ UNCHANGED <<disk, origin>>
    BY <1>11 DEF Die
  <2> QED BY <1>0, <2>1 DEF UpgradeInv, NothingLost, RebuildSafe, StepsDone
<1>12. CASE DieForRestore
  <2>1. at = 11 /\ at' = 1 /\ Known(disk') /\ origin' = disk' /\ UNCHANGED fk
    BY <1>0, <1>12, ShapesKnown DEF DieForRestore
  <2> QED BY <1>0, <2>1 DEF UpgradeInv, NothingLost, RebuildSafe, StepsDone, Known
<1>13. CASE UNCHANGED migrationVars
  BY <1>0, <1>13 DEF migrationVars, UpgradeInv, NothingLost, RebuildSafe, StepsDone
<1> QED
  BY <1>1, <1>2, <1>3, <1>4, <1>5, <1>6, <1>7, <1>8, <1>9, <1>10, <1>11, <1>12, <1>13
     DEF MigrationsNext

LEMMA UpgradeHolds == MigrationsSpec => [](MigrationsTypeOK /\ UpgradeInv)
BY UpgradeInit, UpgradeNext, MigrationsTypesNext, PTL DEF MigrationsSpec

\* The schema steps keep the database's types.
THEOREM MigrationsTypes == MigrationsSpec => []MigrationsTypeOK
BY UpgradeHolds, PTL

\* Whatever shape the database had, wherever earlier starts died and whatever
\* ALTERs failed unnoticed, a process that runs has the rows, snapshots, tokens
\* and settings it was given, and every column but that of the traffic when its
\* ALTER failed in this start (db/index.ts).
THEOREM SchemaUpgraded == MigrationsSpec => []Upgraded
<1>1. MigrationsTypeOK /\ UpgradeInv => Upgraded
  <2> SUFFICES ASSUME MigrationsTypeOK, UpgradeInv, StepIs("up") PROVE Upgraded
    BY DEF Upgraded
  <2>1. at = 11 /\ disk \in Databases /\ origin \in Databases
    BY StepAt, StepCount DEF MigrationsTypeOK
  <2>2. NothingLost /\ RebuildSafe /\ StepsDone
    BY DEF UpgradeInv
  <2>3. Columns \ disk.columns \subseteq swallowed \cap {"hy2_rx"} /\ disk.wide /\ fk
    BY <2>1, <2>2 DEF RebuildSafe, StepsDone, Databases, Columns
  <2>4. disk.rows = origin.rows /\ disk.snapshots = origin.snapshots
    BY <2>2 DEF NothingLost
  <2>5. \A r \in disk.rows : /\ origin.token[r] # NoToken => disk.token[r] = origin.token[r]
                             /\ r \in Capable => disk.token[r] # NoToken
    BY <2>1, <2>2 DEF NothingLost, StepsDone, Databases
  <2>6. \A k \in Keys : disk.settings[k] =
          IF origin.settings[k] = "absent" THEN "seeded" ELSE origin.settings[k]
    BY <2>1, <2>2 DEF NothingLost, StepsDone
  <2> QED BY <2>3, <2>4, <2>5, <2>6 DEF Upgraded
<1> QED BY <1>1, UpgradeHolds, PTL

-----------------------------------------------------------------------------
(* Traffic.                                                               *)

\* The units that runs hold of which p holds f[p], and how many they are.
Units(f) == UNION {{p} \X (1..f[p]) : p \in Polls}
Sum(f)   == Cardinality(Units(f))

\* When one run's amount changes the sum changes by as much.
LEMMA SumOfOneChanged ==
  ASSUME IsFiniteSet(Polls), NEW f \in [Polls -> Nat], NEW p \in Polls, NEW n \in Nat
  PROVE  /\ Sum(f) \in Nat /\ f[p] <= Sum(f)
         /\ Sum([f EXCEPT ![p] = n]) = Sum(f) - f[p] + n
<1> DEFINE Parts(T) == {{q} \X (1..f[q]) : q \in T}
           Others == UNION Parts(Polls \ {p})
           g == [f EXCEPT ![p] = n]
<1>1. ASSUME NEW q \in Polls, NEW k \in Nat
      PROVE  /\ IsFiniteSet({q} \X (1..k)) /\ Cardinality({q} \X (1..k)) = k
  <2>1. IsFiniteSet(1..k) /\ Cardinality(1..k) = k
    <3>1. IsFiniteSet(1..k) /\ Cardinality(1..k) = IF 1 > k THEN 0 ELSE k - 1 + 1
      <4>1. 1 \in Int /\ k \in Int
        OBVIOUS
      <4> QED BY <4>1, FS_Interval
    <3> QED BY <3>1
  <2>2. IsFiniteSet({q}) /\ Cardinality({q}) = 1
    BY FS_Singleton
  <2> DEFINE S == {q}
             T == 1..k
  <2> HIDE DEF S, T
  <2>3. IsFiniteSet(S \X T) /\ Cardinality(S \X T) = Cardinality(S) * Cardinality(T)
    BY <2>1, <2>2, FS_Product DEF S, T
  <2> QED BY <2>1, <2>2, <2>3 DEF S, T
<1>2. IsFiniteSet(Others)
  <2>1. Polls \ {p} \subseteq Polls /\ IsFiniteSet(Polls \ {p})
    BY FS_Subset
  <2>2. \A S \in Parts(Polls \ {p}) : IsFiniteSet(S)
    BY <1>1
  <2>3. IsFiniteSet(Parts(Polls \ {p}))
    <3> DEFINE h == [q \in Polls \ {p} |-> {q} \X (1..f[q])]
    <3>1. h \in Surjection(Polls \ {p}, Parts(Polls \ {p}))
      BY DEF Surjection
    <3> HIDE DEF h, Parts
    <3> QED BY <2>1, <3>1, FS_Surjection
  <2> HIDE DEF Parts
  <2> QED BY <2>2, <2>3, FS_UNION
<1>3. ASSUME NEW e \in [Polls -> Nat], \A q \in Polls \ {p} : e[q] = f[q]
      PROVE  Sum(e) = Cardinality(Others) + e[p]
  <2> DEFINE Own == {p} \X (1..e[p])
  <2>1. Units(e) = Others \cup Own
    BY <1>3 DEF Units
  <2>2. Others \cap Own = {}
    OBVIOUS
  <2>3. IsFiniteSet(Own) /\ Cardinality(Own) = e[p]
    BY <1>1
  <2> HIDE DEF Others, Own
  <2>4. Cardinality(Others \cup Own) = Cardinality(Others) + Cardinality(Own) - 0
    BY <1>2, <2>2, <2>3, FS_Union, FS_EmptySet
  <2>5. Cardinality(Others) \in Nat /\ e[p] \in Nat
    BY <1>2, FS_CardinalityType
  <2> QED BY <2>1, <2>3, <2>4, <2>5 DEF Sum
<1>4. Sum(f) = Cardinality(Others) + f[p]
  BY <1>3
<1>5. Sum(g) = Cardinality(Others) + n
  <2>1. g \in [Polls -> Nat] /\ g[p] = n /\ \A q \in Polls \ {p} : g[q] = f[q]
    OBVIOUS
  <2> HIDE DEF g, Others
  <2> QED BY <1>3, <2>1
<1>6. Cardinality(Others) \in Nat /\ f[p] \in Nat
  BY <1>2, FS_CardinalityType
<1> HIDE DEF Others
<1> QED BY <1>4, <1>5, <1>6

\* What the runs hold, per run.
Taken == [p \in Polls |-> poll[p].taken]

LEMMA InHandIsSum == InHand = Sum(Taken)
BY DEF InHand, Held, Sum, Units, Taken

LEMMA SumOfNone ==
  ASSUME NEW f \in [Polls -> {0}]
  PROVE  Sum(f) = 0
<1>1. Units(f) = {}
  BY DEF Units
<1> QED BY <1>1, FS_EmptySet DEF Sum

\* What is recorded, held and still to be read, but for WireGuard's counter.
Counted == young + old + monthly + InHand + counter["xray"] + counter["hy2"]

\* The types; what is held and counted was exchanged; and while no two runs
\* held a reading of WireGuard at once, nothing is counted twice, be it after
\* the reading that a run holds is recorded.
OnceInv ==
  /\ carried \in Amounts /\ counter \in [{"xray", "hy2", "wg"} -> Nat]
  /\ poll \in [Polls -> [at : {"idle", "hy2", "ssh", "insert"}, taken : Nat,
                         wg : Nat \cup {Unknown}]]
  /\ lastWg \in Nat \cup {Unknown}
  /\ present \in BOOLEAN /\ crossed \in BOOLEAN
  /\ young \in Nat /\ old \in Nat /\ monthly \in Nat
  /\ InHand \in Nat
  /\ InHand + counter["xray"] + counter["hy2"] + counter["wg"] <= carried
  /\ lastWg <= carried /\ \A p \in Polls : poll[p].wg <= carried
  /\ ~ crossed =>
       /\ Counted + Delta(counter["wg"], lastWg) <= carried
       /\ \A p \in Polls : poll[p].wg # Unknown =>
            Counted + Delta(poll[p].wg, lastWg) + Delta(counter["wg"], poll[p].wg) <= carried

LEMMA OnceInit == TrafficInit => OnceInv
<1> SUFFICES ASSUME TrafficInit PROVE OnceInv
  OBVIOUS
<1> USE DEF TrafficInit
<1>1. InHand = 0
  <2>1. Taken \in [Polls -> {0}]
    BY DEF Taken, NoPoll
  <2> QED BY <2>1, InHandIsSum, SumOfNone
<1>2. poll \in [Polls -> [at : {"idle", "hy2", "ssh", "insert"}, taken : Nat,
                          wg : Nat \cup {Unknown}]]
  BY DEF NoPoll
<1>3. /\ counter \in [{"xray", "hy2", "wg"} -> Nat]
      /\ counter["xray"] = 0 /\ counter["hy2"] = 0 /\ counter["wg"] = 0
  OBVIOUS
<1>4. \A p \in Polls : poll[p].wg = Unknown
  BY DEF NoPoll
<1>5. carried \in Amounts
  BY TrafficAssumption DEF Amounts
<1>6. carried = 0 /\ Delta(counter["wg"], lastWg) = 0 /\ Unknown <= 0
  BY <1>3 DEF Delta, Unknown
<1>7. Counted = 0
  BY <1>1, <1>3 DEF Counted
<1>8. /\ InHand \in Nat /\ InHand + counter["xray"] + counter["hy2"] + counter["wg"] <= carried
      /\ Counted + Delta(counter["wg"], lastWg) <= carried
      /\ lastWg <= carried /\ \A p \in Polls : poll[p].wg <= carried
  BY <1>1, <1>3, <1>4, <1>6, <1>7
<1>9. counter \in [{"xray", "hy2", "wg"} -> Nat]
  BY <1>3
<1>10. /\ lastWg \in Nat \cup {Unknown} /\ present \in BOOLEAN /\ crossed \in BOOLEAN
       /\ young \in Nat /\ old \in Nat /\ monthly \in Nat
  OBVIOUS
<1> QED BY <1>2, <1>4, <1>5, <1>8, <1>9, <1>10 DEF OnceInv

\* One run's turn: it holds n afterwards, and what it holds fits its type.
LEMMA HandChanges ==
  ASSUME OnceInv, NEW p \in Polls, NEW n \in Nat,
         NEW a \in {"idle", "hy2", "ssh", "insert"}, NEW w \in Nat \cup {Unknown},
         poll' = [poll EXCEPT ![p] = [at |-> a, taken |-> n, wg |-> w]]
  PROVE  /\ poll' \in [Polls -> [at : {"idle", "hy2", "ssh", "insert"}, taken : Nat,
                                 wg : Nat \cup {Unknown}]]
         /\ InHand' = InHand - poll[p].taken + n /\ InHand' \in Nat
         /\ poll[p].taken \in Nat /\ poll[p].taken <= InHand
         /\ poll'[p].wg = w /\ \A q \in Polls \ {p} : poll'[q] = poll[q]
<1> DEFINE Run == [at : {"idle", "hy2", "ssh", "insert"}, taken : Nat,
    wg : Nat \cup {Unknown}]
           r == [at |-> a, taken |-> n, wg |-> w]
<1>1. poll \in [Polls -> Run] /\ IsFiniteSet(Polls) /\ InHand \in Nat
  BY TrafficAssumption DEF OnceInv
<1>2. r \in Run /\ r.taken = n /\ r.wg = w
  OBVIOUS
<1>3. poll' = [poll EXCEPT ![p] = r]
  OBVIOUS
<1>4. Taken \in [Polls -> Nat] /\ Taken[p] = poll[p].taken
  BY <1>1 DEF Taken
<1>5. (Taken)' = [Taken EXCEPT ![p] = n]
  BY <1>1, <1>2, <1>3 DEF Taken
<1>6. InHand' = Sum((Taken)')
  BY DEF InHand, Held, Sum, Units, Taken
<1>7. Sum([Taken EXCEPT ![p] = n]) = Sum(Taken) - Taken[p] + n /\ Taken[p] <= Sum(Taken)
  BY <1>1, <1>4, SumOfOneChanged
<1>8. poll' \in [Polls -> Run] /\ poll'[p] = r /\ \A q \in Polls \ {p} : poll'[q] = poll[q]
  BY <1>1, <1>2, <1>3
<1> HIDE DEF r
<1> QED BY <1>1, <1>2, <1>4, <1>5, <1>6, <1>7, <1>8, InHandIsSum

LEMMA DeltaType ==
  /\ \A a \in Nat, b \in Nat \cup {Unknown} : Delta(a, b) \in Nat /\ Delta(a, b) <= a
  /\ \A a \in Nat : Delta(a, a) = 0
  /\ \A b \in Nat \cup {Unknown} : Delta(0, b) = 0
  /\ \A a \in Nat, b \in Nat \cup {Unknown} : Delta(a + 1, b) <= Delta(a, b) + 1
BY DEF Delta, Unknown

\* A service's counter moves while the runs stay as they are.
LEMMA CounterMoves ==
  ASSUME OnceInv, counter' \in [{"xray", "hy2", "wg"} -> Nat], NEW k \in Nat,
         carried' = carried + k, carried' \in Amounts,
         UNCHANGED <<poll, lastWg, young, old, monthly, present, crossed>>,
         counter'["xray"] + counter'["hy2"] + counter'["wg"]
           <= counter["xray"] + counter["hy2"] + counter["wg"] + k,
         \A b \in Nat \cup {Unknown} :
           counter'["xray"] + counter'["hy2"] + Delta(counter'["wg"], b)
             <= counter["xray"] + counter["hy2"] + Delta(counter["wg"], b) + k
  PROVE  OnceInv'
<1> DEFINE x == counter["xray"]
           h == counter["hy2"]
           w == counter["wg"]
           Run == [at : {"idle", "hy2", "ssh", "insert"}, taken : Nat,
           wg : Nat \cup {Unknown}]
<1>1. /\ x \in Nat /\ h \in Nat /\ w \in Nat /\ carried \in Nat
      /\ counter'["xray"] \in Nat /\ counter'["hy2"] \in Nat /\ counter'["wg"] \in Nat
      /\ InHand \in Nat /\ InHand' = InHand /\ carried' \in Nat
      /\ young \in Nat /\ old \in Nat /\ monthly \in Nat
      /\ lastWg \in Nat \cup {Unknown} /\ Unknown \in Int
  BY TrafficAssumption DEF OnceInv, Amounts, InHand, Held, Unknown
<1>2. ASSUME NEW p \in Polls PROVE poll[p].wg \in Nat \cup {Unknown} /\ poll'[p] = poll[p]
  BY DEF OnceInv
<1>3. /\ lastWg' <= carried'
      /\ InHand' + counter'["xray"] + counter'["hy2"] + counter'["wg"] <= carried'
  BY <1>1 DEF OnceInv
<1>4. ASSUME NEW p \in Polls PROVE poll'[p].wg <= carried'
  BY <1>1, <1>2 DEF OnceInv
<1>5. ASSUME NEW a \in Nat, NEW b \in Nat \cup {Unknown},
             Counted + a + Delta(w, b) <= carried
      PROVE  Counted' + a + Delta(counter'["wg"], b) <= carried'
  <2>1. Delta(w, b) \in Nat /\ Delta(counter'["wg"], b) \in Nat
    BY <1>1, DeltaType
  <2> QED BY <1>1, <1>5, <2>1 DEF Counted
<1>6. ASSUME ~ crossed' PROVE Counted' + Delta(counter'["wg"], lastWg) <= carried'
  <2>1. Counted + 0 + Delta(w, lastWg) <= carried
    <3>1. Delta(w, lastWg) \in Nat
      BY <1>1, DeltaType
    <3> QED BY <1>1, <1>6, <3>1 DEF OnceInv, Counted
  <2>2. Counted' + 0 + Delta(counter'["wg"], lastWg) <= carried'
    BY <1>1, <1>5, <2>1
  <2>3. Delta(counter'["wg"], lastWg) \in Nat
    BY <1>1, DeltaType
  <2> QED BY <1>1, <2>2, <2>3 DEF Counted
<1>7. ASSUME ~ crossed', NEW p \in Polls, poll[p].wg # Unknown
      PROVE  Counted' + Delta(poll[p].wg, lastWg) + Delta(counter'["wg"], poll[p].wg) <= carried'
  <2>1. poll[p].wg \in Nat /\ Delta(poll[p].wg, lastWg) \in Nat
    BY <1>1, <1>2, <1>7, DeltaType
  <2>2. Counted + Delta(poll[p].wg, lastWg) + Delta(w, poll[p].wg) <= carried
    BY <1>7 DEF OnceInv
  <2> QED BY <1>5, <2>1, <2>2
<1> QED BY <1>1, <1>2, <1>3, <1>4, <1>6, <1>7 DEF OnceInv, Counted

\* A run takes the reading of a counter of its own, or its reset is all that
\* happens.
LEMMA TakeKeeps ==
  ASSUME OnceInv, NEW p \in Polls, NEW s \in {"xray", "hy2"},
         NEW a \in {"hy2", "ssh"},
         Take(p, s, a),
         UNCHANGED <<carried, lastWg, young, old, monthly, present, crossed>>
  PROVE  OnceInv'
<1>0. /\ carried \in Nat /\ InHand \in Nat /\ young \in Nat /\ old \in Nat /\ monthly \in Nat
      /\ counter["xray"] \in Nat /\ counter["hy2"] \in Nat /\ counter["wg"] \in Nat
      /\ lastWg \in Nat \cup {Unknown} /\ Unknown \in Int
      /\ poll[p].taken \in Nat /\ poll[p].wg \in Nat \cup {Unknown}
      /\ counter \in [{"xray", "hy2", "wg"} -> Nat]
  BY TrafficAssumption DEF OnceInv, Amounts, Unknown
<1>1. PICK n \in Nat :
        /\ poll' = [poll EXCEPT ![p] = [at |-> a, taken |-> n, wg |-> poll[p].wg]]
        /\ \/ n = poll[p].taken + counter[s] /\ counter' = [counter EXCEPT ![s] = 0]
           \/ n = poll[p].taken /\ counter' \in {counter, [counter EXCEPT ![s] = 0]}
  <2>1. poll[p].taken + counter[s] \in Nat
    BY <1>0
  <2> QED BY <1>0, <2>1 DEF Take, Becomes
<1>2. /\ poll' \in [Polls -> [at : {"idle", "hy2", "ssh", "insert"}, taken : Nat,
                              wg : Nat \cup {Unknown}]]
      /\ InHand' = InHand - poll[p].taken + n /\ InHand' \in Nat
      /\ \A q \in Polls : poll'[q].wg = poll[q].wg
  <2>1. a \in {"idle", "hy2", "ssh", "insert"}
    OBVIOUS
  <2>2. poll' = [poll EXCEPT ![p] = [at |-> a, taken |-> n, wg |-> poll[p].wg]]
    BY <1>1
  <2> QED BY <1>0, <2>1, <2>2, HandChanges
<1>3. /\ counter' \in [{"xray", "hy2", "wg"} -> Nat] /\ counter'["wg"] = counter["wg"]
      /\ counter'["xray"] \in Nat /\ counter'["hy2"] \in Nat
      /\ InHand' + counter'["xray"] + counter'["hy2"]
           <= InHand + counter["xray"] + counter["hy2"]
  <2>1. CASE s = "xray"
    BY <1>0, <1>1, <1>2, <2>1
  <2>2. CASE s = "hy2"
    BY <1>0, <1>1, <1>2, <2>2
  <2> QED BY <2>1, <2>2
<1>4. /\ Counted' \in Nat /\ Counted \in Nat /\ Counted' <= Counted
  BY <1>0, <1>2, <1>3 DEF Counted
<1>5. ASSUME NEW b \in Nat \cup {Unknown} PROVE Delta(counter["wg"], b) \in Nat
  BY <1>0, DeltaType
<1>6. ASSUME ~ crossed' PROVE (Counted + Delta(counter["wg"], lastWg) <= carried)'
  <2>1. Counted + Delta(counter["wg"], lastWg) <= carried
    BY <1>6 DEF OnceInv
  <2>2. Delta(counter["wg"], lastWg)' = Delta(counter["wg"], lastWg)
    BY <1>3 DEF Delta
  <2> QED BY <1>0, <1>4, <1>5, <2>1, <2>2
<1>7. ASSUME ~ crossed', NEW q \in Polls, poll[q].wg # Unknown
      PROVE  (Counted + Delta(poll[q].wg, lastWg) + Delta(counter["wg"], poll[q].wg) <= carried)'
  <2>1. Counted + Delta(poll[q].wg, lastWg) + Delta(counter["wg"], poll[q].wg) <= carried
    BY <1>7 DEF OnceInv
  <2>2. /\ Delta(poll[q].wg, lastWg)' = Delta(poll[q].wg, lastWg)
        /\ Delta(counter["wg"], poll[q].wg)' = Delta(counter["wg"], poll[q].wg)
    BY <1>2, <1>3 DEF Delta
  <2>3. poll[q].wg \in Nat
    BY <1>7 DEF OnceInv
  <2>4. Delta(poll[q].wg, lastWg) \in Nat /\ Delta(counter["wg"], poll[q].wg) \in Nat
    BY <1>0, <2>3, DeltaType
  <2> QED BY <1>0, <1>4, <2>1, <2>2, <2>4
<1>8. InHand' + counter'["xray"] + counter'["hy2"] + counter'["wg"] <= carried'
  BY <1>0, <1>2, <1>3 DEF OnceInv
<1>9. \A q \in Polls : poll'[q].wg <= carried'
  BY <1>2 DEF OnceInv
<1> QED BY <1>2, <1>3, <1>6, <1>7, <1>8, <1>9 DEF OnceInv

LEMMA SumsOrdered ==
  /\ \A a, b, c \in Nat : a + b + c \in Nat
  /\ \A a, b, c, x \in Nat : x <= a => x + 0 + (c + b) <= a + b + c
OBVIOUS

LEMMA OnceNext == OnceInv /\ [TrafficNext]_trafficVars => OnceInv'
<1> SUFFICES ASSUME OnceInv, [TrafficNext]_trafficVars PROVE OnceInv'
  OBVIOUS
<1>0. /\ carried \in Nat /\ InHand \in Nat /\ young \in Nat /\ old \in Nat /\ monthly \in Nat
      /\ counter["xray"] \in Nat /\ counter["hy2"] \in Nat /\ counter["wg"] \in Nat
      /\ lastWg \in Nat \cup {Unknown} /\ Unknown \in Int /\ Unknown < 0 /\ Unknown \notin Nat
      /\ MaxBytes \in Nat /\ counter \in [{"xray", "hy2", "wg"} -> Nat] /\ Counted \in Nat
  BY TrafficAssumption DEF OnceInv, Amounts, Unknown, Counted
<1>r. young \in Nat /\ old \in Nat /\ monthly \in Nat
  BY DEF OnceInv
<1>00. ASSUME NEW p \in Polls
       PROVE  /\ poll[p].taken \in Nat /\ poll[p].wg \in Nat \cup {Unknown}
              /\ poll[p].at \in {"idle", "hy2", "ssh", "insert"}
  BY DEF OnceInv
\* Rows are moved or dropped; readings, counters and runs stay.
<1>a. ASSUME UNCHANGED <<carried, counter, poll, lastWg, crossed>>,
present' \in BOOLEAN,
             young' \in Nat, old' \in Nat, monthly' \in Nat,
             young' + old' + monthly' <= young + old + monthly
      PROVE  OnceInv'
  <2>1. InHand' = InHand /\ Counted' \in Nat /\ Counted' <= Counted
    <3>1. InHand' = InHand
      BY <1>a DEF InHand, Held
    <3>2. /\ Counted = (young + old + monthly) + (InHand + counter["xray"] + counter["hy2"])
          /\ Counted' = (young' + old' + monthly') + (InHand + counter["xray"] + counter["hy2"])
      BY <1>0, <1>a, <3>1 DEF Counted
    <3> DEFINE n == young + old + monthly
               m == young' + old' + monthly'
               k == InHand + counter["xray"] + counter["hy2"]
    <3>3. n \in Nat /\ m \in Nat /\ k \in Nat /\ m <= n
      <4>1. /\ young' \in Nat /\ old' \in Nat /\ monthly' \in Nat
            /\ young' + old' + monthly' <= young + old + monthly
        BY <1>a
      <4>2. n \in Nat /\ m \in Nat
        BY <1>r, <4>1, SumsOrdered
      <4>m. m <= n
        BY <4>1
      <4>3. k \in Nat
        BY <1>0
      <4> QED BY <4>2, <4>3, <4>m
    <3> HIDE DEF n, m, k
    <3>4. Counted = n + k /\ Counted' = m + k
      BY <3>2 DEF n, m, k
    <3> QED BY <3>1, <3>3, <3>4
  <2>2. ASSUME ~ crossed' PROVE Counted' + Delta(counter["wg"], lastWg) <= carried
    <3>1. Delta(counter["wg"], lastWg) \in Nat
      BY <1>0, DeltaType
    <3> QED BY <1>0, <1>a, <2>1, <2>2, <3>1 DEF OnceInv
  <2>3. ASSUME ~ crossed', NEW p \in Polls, poll[p].wg # Unknown
        PROVE  Counted' + Delta(poll[p].wg, lastWg) + Delta(counter["wg"], poll[p].wg) <= carried
    <3>1. Delta(poll[p].wg, lastWg) \in Nat /\ Delta(counter["wg"], poll[p].wg) \in Nat
      BY <1>0, <1>00, <2>3, DeltaType
    <3> QED BY <1>0, <1>a, <2>1, <2>3, <3>1 DEF OnceInv
  <2> QED BY <1>a, <2>1, <2>2, <2>3 DEF OnceInv, Delta
<1>1. ASSUME NEW s \in {"xray", "hy2", "wg"}, Carry(s) PROVE OnceInv'
  <2>1. /\ carried' = carried + 1 /\ counter' = [counter EXCEPT ![s] = @ + 1]
        /\ UNCHANGED <<poll, lastWg, young, old, monthly, present, crossed>>
    BY <1>1 DEF Carry, rows
  <2>2. carried' \in Amounts /\ counter' \in [{"xray", "hy2", "wg"} -> Nat] /\ 1 \in Nat
    BY <1>0, <1>1, <2>1 DEF Carry, Amounts
  <2>3. /\ counter'["xray"] = IF s = "xray" THEN counter["xray"] + 1 ELSE counter["xray"]
        /\ counter'["hy2"] = IF s = "hy2" THEN counter["hy2"] + 1 ELSE counter["hy2"]
        /\ counter'["wg"] = IF s = "wg" THEN counter["wg"] + 1 ELSE counter["wg"]
    BY <1>0, <2>1
  <2>4. counter'["xray"] + counter'["hy2"] + counter'["wg"]
          <= counter["xray"] + counter["hy2"] + counter["wg"] + 1
    BY <1>0, <2>3
  <2>5. ASSUME NEW b \in Nat \cup {Unknown}
        PROVE  counter'["xray"] + counter'["hy2"] + Delta(counter'["wg"], b)
                 <= counter["xray"] + counter["hy2"] + Delta(counter["wg"], b) + 1
    <3>1. /\ Delta(counter["wg"], b) \in Nat /\ Delta(counter["wg"] + 1, b) \in Nat
          /\ Delta(counter["wg"] + 1, b) <= Delta(counter["wg"], b) + 1
      <4>1. counter["wg"] + 1 \in Nat
        BY <1>0
      <4> QED BY <1>0, <4>1, DeltaType
    <3> QED BY <1>0, <2>3, <3>1
  <2> QED BY <2>1, <2>2, <2>4, <2>5, CounterMoves
<1>2. ASSUME NEW s \in {"xray", "hy2", "wg"}, CounterLost(s) PROVE OnceInv'
  <2>1. /\ carried' = carried + 0 /\ counter' = [counter EXCEPT ![s] = 0]
        /\ UNCHANGED <<poll, lastWg, young, old, monthly, present, crossed>>
    BY <1>0, <1>2 DEF CounterLost, rows
  <2>2. carried' \in Amounts /\ counter' \in [{"xray", "hy2", "wg"} -> Nat] /\ 0 \in Nat
    BY <1>0, <1>2, <2>1 DEF CounterLost, OnceInv
  <2>3. /\ counter'["xray"] = IF s = "xray" THEN 0 ELSE counter["xray"]
        /\ counter'["hy2"] = IF s = "hy2" THEN 0 ELSE counter["hy2"]
        /\ counter'["wg"] = IF s = "wg" THEN 0 ELSE counter["wg"]
    BY <1>0, <2>1
  <2>4. counter'["xray"] + counter'["hy2"] + counter'["wg"]
          <= counter["xray"] + counter["hy2"] + counter["wg"] + 0
    BY <1>0, <2>3
  <2>5. ASSUME NEW b \in Nat \cup {Unknown}
        PROVE  counter'["xray"] + counter'["hy2"] + Delta(counter'["wg"], b)
                 <= counter["xray"] + counter["hy2"] + Delta(counter["wg"], b) + 0
    <3>1. Delta(counter["wg"], b) \in Nat /\ Delta(0, b) = 0
      BY <1>0, DeltaType
    <3> QED BY <1>0, <2>3, <3>1
  <2> QED BY <2>1, <2>2, <2>4, <2>5, CounterMoves
<1>3. ASSUME NEW p \in Polls, BeginPoll(p) PROVE OnceInv'
  BY <1>3, TakeKeeps DEF BeginPoll, rows
<1>4. ASSUME NEW p \in Polls, Hy2Answers(p) PROVE OnceInv'
  BY <1>4, TakeKeeps DEF Hy2Answers, rows
<1>5. ASSUME NEW p \in Polls, WgAnswers(p) PROVE OnceInv'
  <2>1. /\ UNCHANGED <<carried, counter, lastWg, young, old, monthly, present, crossed>>
        /\ poll[p].at = "ssh"
    BY <1>5 DEF WgAnswers, rows
  <2>3. PICK w \in {counter["wg"], Unknown} :
          poll' = [poll EXCEPT ![p] = [at |-> "insert", taken |-> poll[p].taken,
          wg |-> w]]
    BY <1>5 DEF WgAnswers, Becomes
  <2>4. /\ poll' \in [Polls -> [at : {"idle", "hy2", "ssh", "insert"}, taken : Nat,
                                wg : Nat \cup {Unknown}]]
        /\ InHand' = InHand - poll[p].taken + poll[p].taken /\ InHand' \in Nat
        /\ poll'[p].wg = w /\ \A q \in Polls \ {p} : poll'[q] = poll[q]
    <3>1. w \in Nat \cup {Unknown} /\ poll[p].taken \in Nat
      BY <1>0, <1>00
    <3> QED BY <2>3, <3>1, HandChanges
  <2>5. InHand' = InHand /\ Counted' = Counted
    BY <1>0, <1>00, <2>1, <2>4 DEF Counted
  <2>6. ASSUME ~ crossed', NEW q \in Polls, poll'[q].wg # Unknown
        PROVE  Counted + Delta(poll'[q].wg, lastWg) + Delta(counter["wg"], poll'[q].wg) <= carried
    <3>1. CASE q = p
      <4>1. poll'[q].wg = counter["wg"] /\ Delta(counter["wg"], counter["wg"]) = 0
        BY <1>0, <2>4, <2>6, <3>1, DeltaType
      <4>2. Counted + Delta(counter["wg"], lastWg) <= carried
        BY <2>1, <2>6 DEF OnceInv
      <4>3. Delta(counter["wg"], lastWg) \in Nat
        BY <1>0, DeltaType
      <4> QED BY <1>0, <4>1, <4>2, <4>3
    <3>2. CASE q # p
      BY <2>1, <2>4, <2>6, <3>2 DEF OnceInv
    <3> QED BY <3>1, <3>2
  <2>7. ASSUME NEW q \in Polls PROVE poll'[q].wg <= carried
    <3>1. CASE q = p
      <4>1. counter["wg"] <= carried
        BY <1>0 DEF OnceInv
      <4> QED BY <1>0, <2>4, <3>1, <4>1
    <3>2. CASE q # p
      BY <2>4, <3>2 DEF OnceInv
    <3> QED BY <3>1, <3>2
  <2> QED BY <2>1, <2>4, <2>5, <2>6, <2>7 DEF OnceInv, Counted, Delta
<1>6. ASSUME NEW p \in Polls, Insert(p) PROVE OnceInv'
  <2> DEFINE v == poll[p].wg
             d == IF v = Unknown THEN 0 ELSE Delta(v, lastWg)
             t == poll[p].taken
  <2>1. /\ UNCHANGED <<carried, counter, old, monthly, present>>
        /\ poll' = [poll EXCEPT ![p] = [at |-> "idle", taken |-> 0, wg |-> Unknown]]
        /\ v = Unknown => lastWg' = lastWg /\ crossed' = crossed
        /\ v # Unknown => /\ lastWg' = v
                          /\ crossed' = (crossed \/ \E q \in Polls \ {p} : poll[q].wg # Unknown)
        /\ young' = young \/ young' = young + t + d
    BY <1>6 DEF Insert, NoPoll
  <2>2. /\ poll' \in [Polls -> [at : {"idle", "hy2", "ssh", "insert"}, taken : Nat,
                                wg : Nat \cup {Unknown}]]
        /\ InHand' = InHand - t + 0 /\ InHand' \in Nat
        /\ t \in Nat /\ t <= InHand
        /\ poll'[p].wg = Unknown /\ \A q \in Polls \ {p} : poll'[q] = poll[q]
    <3>1. 0 \in Nat /\ Unknown \in Nat \cup {Unknown}
      OBVIOUS
    <3> QED BY <2>1, <3>1, HandChanges
  <2>3. /\ d \in Nat /\ v \in Nat \cup {Unknown}
    BY <1>0, <1>00, DeltaType
  <2>4. /\ Counted' \in Nat /\ Counted' <= Counted + d /\ young' \in Nat
    <3> HIDE DEF d, t
    <3> QED BY <1>0, <2>1, <2>2, <2>3 DEF Counted
  <2>5. /\ crossed' \in BOOLEAN
        /\ ~ crossed' => ~ crossed
        /\ lastWg' \in Nat \cup {Unknown} /\ lastWg' <= carried'
    <3>1. lastWg' \in Nat \cup {Unknown} /\ lastWg' <= carried'
      BY <2>1, <2>3 DEF OnceInv
    <3>2. crossed \in BOOLEAN
      BY DEF OnceInv
    <3>3. crossed' = crossed \/ crossed' = (crossed \/ \E q \in Polls \ {p} : poll[q].wg # Unknown)
      BY <2>1, Zenon
    <3> QED BY <3>1, <3>2, <3>3, Zenon
  <2>c. /\ ~ crossed' => Counted + Delta(counter["wg"], lastWg) <= carried
        /\ ~ crossed' => \A q \in Polls : poll[q].wg # Unknown =>
             Counted + Delta(poll[q].wg, lastWg) + Delta(counter["wg"], poll[q].wg) <= carried
    <3>1. ~ crossed' => ~ crossed
      BY <2>5, Zenon
    <3>2. /\ ~ crossed => Counted + Delta(counter["wg"], lastWg) <= carried
          /\ ~ crossed => \A q \in Polls : poll[q].wg # Unknown =>
               Counted + Delta(poll[q].wg, lastWg) + Delta(counter["wg"], poll[q].wg) <= carried
      BY DEF OnceInv
    <3> QED BY <3>1, <3>2, Zenon
  <2>6. InHand' + counter'["xray"] + counter'["hy2"] + counter'["wg"] <= carried'
    <3> HIDE DEF t
    <3> QED BY <1>0, <2>1, <2>2 DEF OnceInv
  <2>7. ASSUME ~ crossed' PROVE Counted' + Delta(counter["wg"], lastWg') <= carried
    <3>1. CASE v = Unknown
      <4>1. Counted + Delta(counter["wg"], lastWg) <= carried /\ d = 0 /\ lastWg' = lastWg
        BY <2>1, <2>5, <2>7, <3>1 DEF OnceInv
      <4>2. Delta(counter["wg"], lastWg) \in Nat
        BY <1>0, DeltaType
      <4> HIDE DEF d, v
      <4> QED BY <1>0, <2>4, <4>1, <4>2
    <3>2. CASE v # Unknown
      <4>1. Counted + Delta(v, lastWg) + Delta(counter["wg"], v) <= carried
        BY <2>c, <2>7, <3>2
      <4>2. lastWg' = v /\ d = Delta(v, lastWg) /\ Delta(counter["wg"], v) \in Nat
        BY <1>0, <2>1, <2>3, <3>2, DeltaType
      <4> HIDE DEF d, v
      <4> QED BY <1>0, <2>3, <2>4, <4>1, <4>2
    <3> QED BY <3>1, <3>2
  <2>8. ASSUME ~ crossed', NEW q \in Polls, poll'[q].wg # Unknown
        PROVE  Counted' + Delta(poll'[q].wg, lastWg') + Delta(counter["wg"], poll'[q].wg)
                 <= carried
    <3>1. q # p /\ poll'[q] = poll[q]
      BY <2>2, <2>8
    <3>2. v = Unknown
      BY <2>1, <2>8, <3>1
    <3>3. d = 0 /\ lastWg' = lastWg
      BY <2>1, <3>2
    <3>4. Counted + Delta(poll[q].wg, lastWg) + Delta(counter["wg"], poll[q].wg) <= carried
      BY <2>c, <2>8, <3>1
    <3>5. poll[q].wg \in Nat
      BY <1>00, <2>8, <3>1
    <3>6. Delta(poll[q].wg, lastWg) \in Nat /\ Delta(counter["wg"], poll[q].wg) \in Nat
      BY <1>0, <3>5, DeltaType
    <3> HIDE DEF d
    <3> QED BY <1>0, <2>4, <3>1, <3>3, <3>4, <3>6
  <2>9. ASSUME NEW q \in Polls PROVE poll'[q].wg <= carried
    <3>1. CASE q = p
      BY <1>0, <2>2, <3>1
    <3>2. CASE q # p
      BY <2>2, <3>2 DEF OnceInv
    <3> QED BY <3>1, <3>2
  <2>10. /\ carried' = carried /\ carried' \in Amounts /\ counter' = counter
         /\ old' \in Nat /\ monthly' \in Nat /\ present' \in BOOLEAN
    BY <2>1 DEF OnceInv
  <2>11. ~ crossed' => (Counted + Delta(counter["wg"], lastWg) <= carried)'
    BY <2>7, <2>10 DEF Delta
  <2>12. ~ crossed' => \A q \in Polls : poll'[q].wg # Unknown =>
           (Counted + Delta(poll[q].wg, lastWg) + Delta(counter["wg"], poll[q].wg) <= carried)'
    BY <2>8, <2>10 DEF Delta
  <2>13. \A q \in Polls : (poll[q].wg <= carried)'
    BY <2>9, <2>10
  <2>14. InHand' \in Nat
    BY <2>2
  <2>15. counter' \in [{"xray", "hy2", "wg"} -> Nat]
    BY <1>0, <2>10
  <2> HIDE DEF v, d, t
  <2> QED BY <2>2, <2>4, <2>5, <2>6, <2>10, <2>11, <2>12, <2>13, <2>14,
             <2>15 DEF OnceInv
<1>7. CASE Age
  BY <1>0, <1>7, <1>a DEF Age, OnceInv
<1>8. CASE Rollup
  <2>1. /\ UNCHANGED <<carried, counter, poll, lastWg, crossed, present>>
        /\ monthly' = monthly + old /\ old' = 0 /\ young' \in {young, 0}
    BY <1>8 DEF Rollup
  <2>2. young' \in Nat /\ young' <= young /\ monthly' \in Nat /\ present' \in BOOLEAN
    <3>1. present \in BOOLEAN
      BY DEF OnceInv
    <3> QED BY <1>0, <2>1, <3>1
  <2>3. young' + old' + monthly' <= young + old + monthly /\ old' \in Nat
    <3>1. monthly' = monthly + old /\ old' = 0 /\ young' \in Nat /\ young' <= young
      BY <2>1, <2>2
    <3> QED BY <1>r, <3>1, SumsOrdered
  <2> QED BY <1>a, <2>1, <2>2, <2>3
<1>9. CASE ClientDeleted
  <2>1. /\ UNCHANGED <<carried, counter, poll, lastWg, crossed, monthly>>
        /\ present' = FALSE /\ old' = 0 /\ young' = 0
    BY <1>9 DEF ClientDeleted
  <2>2. /\ young' \in Nat /\ old' \in Nat /\ monthly' \in Nat
        /\ young' + old' + monthly' <= young + old + monthly
    BY <1>r, <2>1
  <2>3. present' \in BOOLEAN
    BY <2>1
  <2> QED BY <1>a, <2>1, <2>2, <2>3
<1>10. CASE WorkerRestart
  <2>1. /\ UNCHANGED <<carried, counter, young, old, monthly, present, crossed>>
        /\ poll' = [p \in Polls |-> NoPoll] /\ lastWg' = Unknown
    BY <1>10 DEF WorkerRestart, rows
  <2>2. InHand' = 0
    <3>1. (Taken)' \in [Polls -> {0}]
      BY <2>1 DEF Taken, NoPoll
    <3>2. InHand' = Sum((Taken)')
      BY DEF InHand, Held, Sum, Units, Taken
    <3> QED BY <3>1, <3>2, SumOfNone
  <2>3. /\ poll' \in [Polls -> [at : {"idle", "hy2", "ssh", "insert"}, taken : Nat,
                                wg : Nat \cup {Unknown}]]
        /\ \A p \in Polls : poll'[p].wg = Unknown
    BY <2>1 DEF NoPoll
  <2>4. Delta(counter'["wg"], lastWg') = 0
    BY <2>1 DEF Delta
  <2>5. ~ crossed' => Counted' <= carried'
    <3>1. ~ crossed => Counted + Delta(counter["wg"], lastWg) <= carried
      BY DEF OnceInv
    <3>2. Delta(counter["wg"], lastWg) \in Nat
      BY <1>0, DeltaType
    <3> QED BY <1>0, <2>1, <2>2, <3>1, <3>2 DEF Counted
  <2>6. /\ Counted' \in Nat
        /\ InHand' + counter'["xray"] + counter'["hy2"] + counter'["wg"] <= carried'
    BY <1>0, <2>1, <2>2 DEF Counted, OnceInv
  <2>7. ~ crossed' => Counted' + Delta(counter'["wg"], lastWg') <= carried'
    BY <2>4, <2>5, <2>6
  <2>8. lastWg' <= carried' /\ \A p \in Polls : (poll[p].wg <= carried)'
    BY <1>0, <2>1, <2>3
  <2>9. /\ carried' \in Amounts /\ counter' \in [{"xray", "hy2", "wg"} -> Nat]
        /\ present' \in BOOLEAN /\ crossed' \in BOOLEAN /\ InHand' \in Nat
        /\ young' \in Nat /\ old' \in Nat /\ monthly' \in Nat
        /\ lastWg' \in Nat \cup {Unknown}
    BY <1>0, <2>1, <2>2 DEF OnceInv
  <2>10. ~ crossed' => (Counted + Delta(counter["wg"], lastWg) <= carried)'
    BY <2>7 DEF Delta
  <2> QED BY <2>3, <2>6, <2>8, <2>9, <2>10 DEF OnceInv
<1>11. CASE UNCHANGED trafficVars
  BY <1>0, <1>11, <1>a DEF trafficVars, rows, OnceInv
<1> QED BY <1>1, <1>2, <1>3, <1>4, <1>5, <1>6, <1>7, <1>8, <1>9, <1>10, <1>11
        DEF TrafficNext

LEMMA OnceHolds == TrafficSpec => []OnceInv
BY OnceInit, OnceNext, PTL DEF TrafficSpec

\* Amounts stay within what was exchanged, whatever overlaps and restarts.
THEOREM TrafficTypes == TrafficSpec => []TrafficTypeOK
<1>1. OnceInv => TrafficTypeOK
  <2> SUFFICES ASSUME OnceInv PROVE TrafficTypeOK
    OBVIOUS
  <2>0. carried \in Nat /\ carried <= MaxBytes /\ MaxBytes \in Nat /\ InHand \in Nat
        /\ counter["xray"] \in Nat /\ counter["hy2"] \in Nat /\ counter["wg"] \in Nat
    BY TrafficAssumption DEF OnceInv, Amounts
  <2>1. \A n \in Nat : n <= carried => n \in Amounts
    BY <2>0 DEF Amounts
  <2>2. /\ InHand <= carried /\ counter["xray"] <= carried /\ counter["hy2"] <= carried
        /\ counter["wg"] <= carried
    BY <2>0 DEF OnceInv
  <2>3. counter \in [{"xray", "hy2", "wg"} -> Amounts]
    BY <2>0, <2>1, <2>2 DEF OnceInv
  <2>4. ASSUME NEW p \in Polls
        PROVE  poll[p] \in [at : {"idle", "hy2", "ssh", "insert"}, taken : Amounts,
                            wg : Amounts \cup {Unknown}]
    <3>1. Taken \in [Polls -> Nat] /\ Taken[p] = poll[p].taken
      BY DEF Taken, OnceInv
    <3>2. poll[p].taken \in Nat /\ poll[p].taken <= InHand
      BY <3>1, SumOfOneChanged, InHandIsSum, TrafficAssumption
    <3>3. poll[p].taken \in Amounts
      BY <2>0, <2>1, <2>2, <3>2
    <3>4. poll[p].wg \in Amounts \cup {Unknown}
      BY <2>1 DEF OnceInv
    <3> QED BY <3>3, <3>4 DEF OnceInv
  <2>5. poll \in [Polls -> [at : {"idle", "hy2", "ssh", "insert"}, taken : Amounts,
                            wg : Amounts \cup {Unknown}]]
    BY <2>4 DEF OnceInv
  <2>6. lastWg \in Amounts \cup {Unknown}
    BY <2>1 DEF OnceInv
  <2> QED BY <2>3, <2>5, <2>6 DEF OnceInv, TrafficTypeOK
<1> QED BY <1>1, OnceHolds, PTL

\* For any number of overlapping runs no byte is counted twice, as long as no
\* two of them held a reading of WireGuard at once.
THEOREM CountsOnce == TrafficSpec => []CountedOnce
<1>1. OnceInv => CountedOnce
  BY DEF OnceInv, CountedOnce, Counted
<1> QED BY <1>1, OnceHolds, PTL
=============================================================================
