---------------------------- MODULE Subscription ----------------------------
(***************************************************************************)
(* The subscription link of one client that can have one                   *)
(* (services/subscription.service.ts, api/routes/subscription.ts and the   *)
(* token part of client.service.ts and client-card.ts).  A rotation kills  *)
(* the old link at once and hands the new one out later, after awaits.     *)
(* Tokens are numbered in the order they are minted; they are random.      *)
(***************************************************************************)
EXTENDS Integers

CONSTANTS
  SubHandlers,  \* requests and callbacks that may be under way
  MaxTokens     \* bound: tokens minted

ASSUME SubAssumption == MaxTokens \in Nat \ {0}

VARIABLES
  token,      \* clients.sub_token, 0 for NULL
  minted,     \* tokens minted so far
  rotatedTo,  \* history: the tokens rotations made
  sending,    \* per handler: what it does, where it awaits, the token it holds
  handed,     \* history: the tokens of the links the administrator was shown
  dropped,    \* history: a bot callback failed, or the process died, with a link
  archived    \* the token in the newest bundle

subVars == <<token, minted, rotatedTo, sending, handed, dropped, archived>>

Tokens == 0..MaxTokens
Free   == [op |-> "none", at |-> "idle", tok |-> 0]

SubTypeOK ==
  /\ token \in Tokens /\ minted \in Tokens /\ archived \in Tokens
  /\ rotatedTo \subseteq Tokens /\ handed \subseteq Tokens
  /\ sending \in [SubHandlers -> [op : {"none", "send", "rotate", "card"},
                                  at : {"idle", "message", "photo", "failed"}, tok : Tokens]]
  /\ dropped \in BOOLEAN

-----------------------------------------------------------------------------

\* GET /sub/:token: the row is looked up by its token; anything else is a 404.
Answers(t) == t # 0 /\ t = token

\* ensureSubToken: a row without a token gets one.
Ensured(t) ==
  IF token # 0 THEN t = token /\ UNCHANGED <<token, minted>>
  ELSE minted < MaxTokens /\ t = minted + 1 /\ token' = t /\ minted' = t

\* rotateSubToken: the old token stops answering here.
Rotated(t) ==
  /\ minted < MaxTokens /\ t = minted + 1
  /\ token' = t /\ minted' = t /\ rotatedTo' = rotatedTo \cup {t}

\* GET /api/clients/:id/sub.
Info ==
  /\ \E t \in Tokens : Ensured(t) /\ handed' = handed \cup {t}
  /\ UNCHANGED <<rotatedTo, sending, dropped, archived>>

\* POST .../rotate answers in the same synchronous stretch.
RotateOnly ==
  /\ \E t \in Tokens : Rotated(t) /\ handed' = handed \cup {t}
  /\ UNCHANGED <<sending, dropped, archived>>

\* POST .../send, and the bot's card.
BeginSend(h) ==
  /\ sending[h] = Free
  /\ \E t \in Tokens :
       /\ Ensured(t)
       /\ sending' = [sending EXCEPT ![h] = [op |-> "send", at |-> "message", tok |-> t]]
  /\ UNCHANGED <<rotatedTo, handed, dropped, archived>>

\* POST .../rotate-and-send ("rotate") and the card's button ("card").
BeginRotate(h) ==
  /\ sending[h] = Free
  /\ \E t \in Tokens, op \in {"rotate", "card"} :
       /\ Rotated(t)
       /\ sending' = [sending EXCEPT ![h] = [op |-> op, at |-> "message", tok |-> t]]
  /\ UNCHANGED <<handed, dropped, archived>>

\* The message with the link is delivered, then the picture of it; each may fail.
MessageSent(h) ==
  /\ sending[h].at = "message"
  /\ \/ /\ handed' = handed \cup {sending[h].tok}
        /\ sending' = [sending EXCEPT ![h].at = "photo"]
     \/ sending' = [sending EXCEPT ![h].at = "failed"] /\ UNCHANGED handed
  /\ UNCHANGED <<token, minted, rotatedTo, dropped, archived>>

\* Mutant: a delivery that failed is answered with an error, without the link.
Reply_NoLink(h) ==
  /\ sending[h].at \in {"photo", "failed"}
  /\ sending' = [sending EXCEPT ![h] = Free]
  /\ handed' = IF sending[h].op = "rotate" /\ sending[h].at = "photo"
               THEN handed \cup {sending[h].tok} ELSE handed
  /\ dropped' = (dropped \/ (sending[h].op = "card" /\ sending[h].at = "failed"))
  /\ UNCHANGED <<token, minted, rotatedTo, archived>>

\* rotate-and-send answers with the new link whatever became of the delivery;
\* the card's callback says it "could not regenerate the link".
Reply(h) ==
  /\ sending[h].at \in {"photo", "failed"}
  /\ sending' = [sending EXCEPT ![h] = Free]
  /\ handed' = IF sending[h].op = "rotate" THEN handed \cup {sending[h].tok} ELSE handed
  /\ dropped' = (dropped \/ (sending[h].op = "card" /\ sending[h].at = "failed"))
  /\ UNCHANGED <<token, minted, rotatedTo, archived>>

Archive ==
  /\ archived' = token
  /\ UNCHANGED <<token, minted, rotatedTo, sending, handed, dropped>>

\* The process restarts, on the same rows or on those of the bundle, and gives
\* a row without a token one; tokens rotated since then answer again.
SubRestart ==
  /\ sending' = [h \in SubHandlers |-> Free]
  /\ dropped' = (dropped \/ \E h \in SubHandlers : sending[h] # Free)
  /\ \E t \in {token, archived} :
       \/ t # 0 /\ token' = t /\ UNCHANGED minted
       \/ t = 0 /\ minted < MaxTokens /\ token' = minted + 1 /\ minted' = minted + 1
  /\ UNCHANGED <<rotatedTo, handed, archived>>

SubInit ==
  /\ token \in {0, 1} /\ minted = token /\ archived = 0
  /\ rotatedTo = {} /\ handed = {} /\ dropped = FALSE
  /\ sending = [h \in SubHandlers |-> Free]

SubNext ==
  \/ Info \/ RotateOnly \/ Archive \/ SubRestart
  \/ \E h \in SubHandlers : BeginSend(h) \/ BeginRotate(h) \/ MessageSent(h) \/ Reply(h)

SubSpec == SubInit /\ [][SubNext]_subVars

-----------------------------------------------------------------------------

\* A rotation never leaves the administrator with dead links only: once no
\* handler is under way, and unless one died or the bot's card failed, some
\* link that was shown answers, however rotations and deliveries overlapped
\* and failed and whichever database was restored (the comment above the
\* route calls the opposite the worst possible outcome).
LinkInHand ==
  (/\ \A h \in SubHandlers : sending[h] = Free
   /\ ~dropped /\ token \in rotatedTo) => \E t \in handed : Answers(t)
=============================================================================
