------------------------------ MODULE Dialogue ------------------------------
(***************************************************************************)
(* The bot's dialogue with the administrator: the session kept in memory   *)
(* (bot/context.ts), the menus that fill it and the text handler that acts *)
(* on it.  Updates are handled one at a time; every menu ever sent can     *)
(* still be tapped, so its buttons come in any order.                      *)
(***************************************************************************)
EXTENDS Integers

CONSTANTS
  ClientNames,   \* valid names the administrator may type
  Hy2Uplink      \* wgHy2Available: is a WireGuard client asked for a transport

ASSUME DialogueAssumption == Hy2Uplink \in BOOLEAN

VARIABLES
  session,  \* step and data of the session
  tapped,   \* history: what the last tapped button of the add menus said
  known,    \* names of the clients there are
  born      \* history: the last client made from a text, and what was tapped

dialogueVars == <<session, tapped, known, born>>

Transports == {"xray", "hy2"}
Unset      == "unset"
NoClient   == "none"
Initial    == [step |-> "idle", clientType |-> Unset, transport |-> Unset,
               clientId |-> NoClient]
Draft      == [type : {"wg", "xray", "hysteria2"}, transport : Transports]
Default    == [type |-> "xray", transport |-> "xray"]

DialogueTypeOK ==
  /\ session \in [step : {"idle", "awaiting_client_name", "awaiting_delete_confirm"},
                  clientType : {"wg", "xray", "hysteria2", Unset},
                  transport : Transports \cup {Unset},
                  clientId : ClientNames \cup {NoClient}]
  /\ tapped \in Draft /\ known \subseteq ClientNames
  /\ born \in [got : Draft, meant : Draft]

-----------------------------------------------------------------------------

\* add:<type>.  A WireGuard client that has a choice is asked for its
\* transport first, and the step stays what it was.
TapAdd(t) ==
  /\ session' = [session EXCEPT
       !.transport = "xray", !.clientType = t,
       !.step = IF t = "wg" /\ Hy2Uplink THEN @ ELSE "awaiting_client_name"]
  /\ tapped' = [type |-> t, transport |-> "xray"]
  /\ UNCHANGED <<known, born>>

\* addwg:<transport>, of whatever menu: nobody asks whether there is a choice now.
TapTransport(u) ==
  /\ session' = [session EXCEPT !.clientType = "wg", !.transport = u,
                                !.step = "awaiting_client_name"]
  /\ tapped' = [type |-> "wg", transport |-> u]
  /\ UNCHANGED <<known, born>>

\* card:delete_confirm.
ConfirmDelete(n) ==
  /\ n \in known
  /\ session' = [session EXCEPT !.step = "awaiting_delete_confirm", !.clientId = n]
  /\ UNCHANGED <<tapped, known, born>>

\* Mutant: the data goes and the step stays.
Delete_KeepsStep(n) ==
  /\ n \in known
  /\ \/ known' = known \ {n} /\ session' = [Initial EXCEPT !.step = session.step]
     \/ UNCHANGED <<session, known>>
  /\ UNCHANGED <<tapped, born>>

\* card:delete, which does not ask what was to be confirmed; a deletion that
\* fails leaves the session alone.
Delete(n) ==
  /\ n \in known
  /\ \/ known' = known \ {n} /\ session' = Initial
     \/ UNCHANGED <<session, known>>
  /\ UNCHANGED <<tapped, born>>

\* A valid new name while one is awaited: the session is reset before the
\* client is made, which may fail.
NameTyped(n) ==
  /\ session.step = "awaiting_client_name" /\ n \notin known
  /\ session' = Initial
  /\ \/ /\ known' = known \cup {n}
        /\ born' = [got |-> [type |-> IF session.clientType = Unset THEN "xray"
                                      ELSE session.clientType,
                             transport |-> IF session.transport = Unset THEN "xray"
                                           ELSE session.transport],
                    meant |-> tapped]
     \/ UNCHANGED <<known, born>>
  /\ UNCHANGED tapped

\* The Mini App and the expiry make and remove clients as well.
OthersEdit ==
  /\ known' \in SUBSET ClientNames /\ UNCHANGED <<session, tapped, born>>

BotRestart ==
  /\ session' = Initial /\ UNCHANGED <<tapped, known, born>>

DialogueInit ==
  /\ session = Initial /\ tapped = Default
  /\ known = {} /\ born = [got |-> Default, meant |-> Default]

DialogueNext ==
  \/ \E t \in {"wg", "xray", "hysteria2"} : TapAdd(t)
  \/ \E u \in Transports : TapTransport(u)
  \/ \E n \in ClientNames : ConfirmDelete(n) \/ Delete(n) \/ NameTyped(n)
  \/ OthersEdit \/ BotRestart

DialogueSpec == DialogueInit /\ [][DialogueNext]_dialogueVars

-----------------------------------------------------------------------------

\* A client made from a typed name has the type and the transport the last
\* tapped button said, in whatever order old and new menus were used, names
\* refused, clients deleted and the bot restarted in between.
ClientAsTapped == born.got = born.meant
=============================================================================
