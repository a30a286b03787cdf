------------------------------ MODULE MiniApp ------------------------------
(***************************************************************************)
(* One client as the Mini App shows and edits it: making it                *)
(* (AddClient.tsx), its screen (ClientDetail.tsx) and the routes behind it *)
(* (api/routes/clients.ts).  The screen shows what the query cache holds   *)
(* (TanStack Query 5, staleTime 30 s in main.tsx): a screen that opens     *)
(* asks only when nothing fresh is cached and no GET is in flight; a       *)
(* mutation that succeeds marks the answer stale and, if the screen is     *)
(* open, drops the GET in flight and asks anew.  A GET in flight survives  *)
(* the screen, and its answer counts as fresh whenever it was read.        *)
(* (Left out: a closed screen's cache is dropped after five minutes.)      *)
(* Two mutations stand for the six, which have the same shape: "quota",    *)
(* whose form may hold anything, and "power" (suspend and resume).         *)
(***************************************************************************)
EXTENDS Integers, FiniteSets

CONSTANT MaxChanges   \* bound: PATCHes in flight

ASSUME MaxChangesAssumption == MaxChanges \in Nat

VARIABLES
  stored,     \* the client's row on the server
  place,      \* the screen: the client's, or another ("add" and the list)
  creating,   \* the POST of the add screen, guarded by submittedRef
  shown,      \* what the client's screen shows
  fresh,      \* the cached row is not invalidated, and younger than staleTime
  refetch,    \* the GET in flight, and what it has read
  changes,    \* the PATCHes in flight (two alike, at the same stage, are one)
  confirmed   \* history: "yes" if the last write to the row was this screen's, and
              \* it said so; "late" if it was said while a GET from before the write
              \* was in flight that is not dropped; "no" otherwise

appVars == <<stored, place, creating, shown, fresh, refetch, changes, confirmed>>
cacheState == <<shown, fresh, refetch, confirmed>>

Edits   == {"quota", "power"}
Unmade  == [life |-> "none", quota |-> 0, power |-> 0]
Gone    == [life |-> "gone", quota |-> 0, power |-> 0]
Alive   == [life : {"here"}, quota : 0..1, power : 0..1]
Values  == {Unmade, Gone} \cup Alive
New     == [life |-> "here", quota |-> 0, power |-> 1]
Changes == [edit : Edits, to : 0..1, at : {"sent", "ok", "error"},
            by : {"screen", "nobody"}]
NoFetch == [at |-> "none", got |-> Unmade]
Asking  == [at |-> "sent", got |-> Unmade]
Loading == [state |-> "loading", row |-> Unmade]
NotFound == [state |-> "error", row |-> Unmade]

AppTypeOK ==
  /\ stored \in Values /\ place \in {"client", "other"}
  /\ creating \in {"none", "sent", "made", "error"}
  /\ shown \in [state : {"loading", "ok", "error"}, row : Values]
  /\ refetch \in [at : {"none", "sent", "read"}, got : Values]
  /\ changes \subseteq Changes
  /\ fresh \in BOOLEAN /\ confirmed \in {"no", "yes", "late"}

-----------------------------------------------------------------------------
(* The query cache.                                                        *)

\* A new GET, which reads the row as it is by then.
Asks ==
  /\ refetch' = Asking
  /\ confirmed' = IF confirmed = "late" THEN "yes" ELSE confirmed
  /\ UNCHANGED <<shown, fresh>>

\* A screen that opens joins the GET in flight, or asks unless the cache is fresh.
Opens ==
  /\ place' = "client"
  /\ IF refetch.at = "none" /\ ~fresh THEN Asks ELSE UNCHANGED cacheState

\* The screen's mutations are nobody's when it closes: its buttons are new.
Abandoned == {[c EXCEPT !.by = "nobody"] : c \in changes}

\* invalidateQueries: an open screen, which has a row to show since its edit
\* was made on one, asks anew; the GET of a closed one goes on.
Invalidated ==
  /\ fresh' = FALSE /\ UNCHANGED shown
  /\ IF place = "client" THEN refetch' = Asking /\ confirmed' = "yes"
     ELSE /\ UNCHANGED refetch
          /\ confirmed' = IF refetch.at = "read" /\ refetch.got # stored
                          THEN "late" ELSE "yes"

\* staleTime has passed.
Ages ==
  /\ fresh /\ fresh' = FALSE
  /\ UNCHANGED <<stored, place, creating, shown, refetch, changes, confirmed>>

\* The window has the focus again: an open screen asks unless the cache is fresh.
Refocus ==
  /\ place = "client" /\ ~fresh /\ refetch.at = "none" /\ Asks
  /\ UNCHANGED <<stored, place, creating, changes>>

-----------------------------------------------------------------------------
(* Making the client.                                                      *)

\* The main button, deaf until the last POST has failed.  Once the client is
\* made, a POST of its name (the add screen's again, say) is refused.
SubmitClient ==
  /\ place = "other" /\ creating = "none" /\ stored = Unmade
  /\ creating' = "sent"
  /\ UNCHANGED <<stored, place, cacheState, changes>>

\* POST /api/clients: a name that exists is refused; the client may be made
\* and the answer be an error all the same, when its config cannot be sent.
ServerCreates ==
  /\ creating = "sent"
  /\ \/ stored = Unmade /\ stored' = New /\ creating' \in {"made", "error"}
     \/ creating' = "error" /\ UNCHANGED stored
  /\ confirmed' = "no"
  /\ UNCHANGED <<place, shown, fresh, refetch, changes>>

\* On success the client's screen is shown, wherever the user is by then.
CreateAnswered ==
  /\ creating \in {"made", "error"} /\ creating' = "none"
  /\ IF creating = "made" /\ place = "other" THEN Opens
     ELSE UNCHANGED <<place, cacheState>>
  /\ UNCHANGED <<stored, changes>>

-----------------------------------------------------------------------------
(* The client's screen.                                                    *)

\* Navigation, to a client that has been made.
GoTo(p) ==
  /\ p # place
  /\ IF p = "client" THEN stored # Unmade /\ Opens /\ UNCHANGED changes
     ELSE place' = p /\ changes' = Abandoned /\ UNCHANGED cacheState
  /\ UNCHANGED <<stored, creating>>

ServerReads ==
  /\ refetch.at = "sent" /\ refetch' = [at |-> "read", got |-> stored]
  /\ UNCHANGED <<stored, place, creating, shown, fresh, changes, confirmed>>

\* GET /api/clients/:id has answered: 404, an error, without a row.
FetchAnswered ==
  /\ refetch.at = "read" /\ refetch' = NoFetch
  /\ IF refetch.got.life = "here"
     THEN shown' = [state |-> "ok", row |-> refetch.got] /\ fresh' = TRUE
     ELSE shown' = NotFound /\ UNCHANGED fresh
  /\ UNCHANGED <<stored, place, creating, changes, confirmed>>

\* Both tries failed: "Client not found.", whatever the cache holds.
FetchFailed ==
  /\ refetch.at # "none" /\ refetch' = NoFetch
  /\ shown' = NotFound
  /\ UNCHANGED <<stored, place, creating, fresh, changes, confirmed>>

\* What the screen offers: any content of the quota form, and Suspend or
\* Resume, whichever the row it shows calls for.
Offered(e) == IF e = "quota" THEN 0..1 ELSE {1 - shown.row.power}

\* A button of the screen, which is disabled while its mutation is pending.
Save(e) ==
  /\ place = "client" /\ shown.state = "ok"
  /\ \A c \in changes : c.edit = e => c.by = "nobody"
  /\ Cardinality(changes) < MaxChanges
  /\ \E v \in Offered(e) :
       changes' = changes \cup {[edit |-> e, to |-> v, at |-> "sent", by |-> "screen"]}
  /\ UNCHANGED <<stored, place, creating, cacheState>>

\* PATCH /api/clients/:id writes what the form holds, or the state; it may
\* fail before the write, or after it (the rest of the handler needs SSH).
ServerApplies(c) ==
  /\ c.at = "sent"
  /\ \E a \in {"ok", "error"} :
       /\ changes' = (changes \ {c}) \cup {[c EXCEPT !.at = a, !.to = 0]}
       /\ \/ stored.life = "here" /\ stored' = [stored EXCEPT ![c.edit] = c.to]
          \/ a = "error" /\ UNCHANGED stored
  /\ confirmed' = IF stored' = stored THEN confirmed ELSE "no"
  /\ UNCHANGED <<place, creating, shown, fresh, refetch>>

\* Mutant: the cache is not told.
Confirmed_KeepsCache(c) ==
  /\ c.at = "ok" /\ changes' = changes \ {c} /\ confirmed' = "yes"
  /\ UNCHANGED <<stored, place, creating, shown, fresh, refetch>>

\* onSuccess, which runs though its screen be closed: the query is invalidated.
Confirmed(c) ==
  /\ c.at = "ok" /\ changes' = changes \ {c} /\ Invalidated
  /\ UNCHANGED <<stored, place, creating>>

\* onError: an alert, and nothing else.
Refused(c) ==
  /\ c.at = "error" /\ changes' = changes \ {c}
  /\ UNCHANGED <<stored, place, creating, cacheState>>

\* DELETE, confirmed in a dialog; on success the list is shown.
DeleteTapped ==
  /\ place = "client" /\ shown.state = "ok"
  /\ stored' = Gone /\ confirmed' = "no"
  /\ \/ place' = "client" /\ UNCHANGED changes
     \/ place' = "other" /\ changes' = Abandoned
  /\ UNCHANGED <<creating, shown, fresh, refetch>>

\* The bot, the workers and other devices write to the row as well; an id that
\* is gone never comes back.
RowChanged ==
  /\ stored.life = "here" /\ confirmed' = "no"
  /\ stored' \in ({Gone} \cup Alive) \ {stored}
  /\ UNCHANGED <<place, creating, shown, fresh, refetch, changes>>

AppInit ==
  /\ stored \in {Unmade, New} /\ place = "other" /\ creating = "none"
  /\ shown = Loading /\ fresh = FALSE /\ refetch = NoFetch
  /\ changes = {} /\ confirmed = "no"

AppNext ==
  \/ Ages \/ Refocus
  \/ SubmitClient \/ ServerCreates \/ CreateAnswered
  \/ \E p \in {"client", "other"} : GoTo(p)
  \/ ServerReads \/ FetchAnswered \/ FetchFailed
  \/ \E e \in Edits : Save(e)
  \/ \E c \in changes : ServerApplies(c) \/ Confirmed(c) \/ Refused(c)
  \/ DeleteTapped \/ RowChanged

AppSpec == AppInit /\ [][AppNext]_appVars

-----------------------------------------------------------------------------

\* After an edit the server confirmed, and until somebody else writes the row,
\* the client's screen shows the row as soon as nothing is under way, or says
\* that it could not be had: edits at once, and edits whose screen was closed,
\* do not hide each other, and an answer from before the edit stays only when
\* its GET outlived the screen and came in after the confirmation ("late").
ScreenCatchesUp ==
  confirmed = "yes" /\ place = "client" /\ refetch.at = "none" =>
    shown.state = "error" \/ shown.row = stored
=============================================================================
