---------------------------- MODULE PasswordReveal ----------------------------
(* The one-time password of a workspace: browser pages with a reveal button  *)
(* and the handlers their clicks start.  A handler reads the secret row,     *)
(* decides on what it read, decrypts, marks the row and answers: four calls  *)
(* that other handlers run between.                                          *)
EXTENDS Naturals, FiniteSets

CONSTANTS Pages,     \* open detail pages of the workspace
          Requests,  \* the reveal requests ever sent (bound)
          NoPage     \* nobody waits for the answer

ASSUME RevealAssumption == NoPage \notin Pages

VARIABLES
  consumed,  \* ephemeral_secrets.consumed_at is set
  page,      \* page[p]: "ready" button enabled, "waiting" disabled, "shown" password on screen
  handler,   \* handler[r]: the handler's next call
  client,    \* client[r]: the page whose fetch waits for r
  answer,    \* answer[r]: what the handler answered
  late       \* history: requests sent after some handler had answered with the password
vars == <<consumed, page, handler, client, answer, late>>

Init == /\ consumed = FALSE
        /\ page = [p \in Pages |-> "ready"]
        /\ handler = [r \in Requests |-> "unsent"]
        /\ client = [r \in Requests |-> NoPage]
        /\ answer = [r \in Requests |-> "none"]
        /\ late = {}

Revealed == {r \in Requests : answer[r] = "password"}

Send(p, r) == /\ handler[r] = "unsent"
              /\ handler' = [handler EXCEPT ![r] = "read"]
              /\ client' = [client EXCEPT ![r] = p]
              /\ late' = IF Revealed # {} THEN late \cup {r} ELSE late
              /\ UNCHANGED <<consumed, answer>>

\* The click handler: disable the button, then fetch.
Click(p) == /\ page[p] = "ready"
            /\ page' = [page EXCEPT ![p] = "waiting"]
            /\ \E r \in Requests : Send(p, r)

\* The page is loaded again, with the button: a pending fetch is dropped, a shown password gone.
Reload(p) == /\ page[p] # "ready"
             /\ page' = [page EXCEPT ![p] = "ready"]
             /\ client' = [r \in Requests |-> IF client[r] = p THEN NoPage ELSE client[r]]
             /\ UNCHANGED <<consumed, handler, answer, late>>

Answer(r, what) == /\ handler' = [handler EXCEPT ![r] = "answered"]
                   /\ answer' = [answer EXCEPT ![r] = what]
                   /\ UNCHANGED <<page, client, late>>

\* Mutant: the row is not looked at.
ReadUnchecked(r) == /\ handler[r] = "read"
                    /\ handler' = [handler EXCEPT ![r] = "mark"]
                    /\ UNCHANGED <<consumed, page, client, answer, late>>

\* GetPasswordSecret, the test of ConsumedAt and decrypt, on the row as it was read.
ReadSecret(r) ==
  /\ handler[r] = "read"
  /\ \/ consumed /\ Answer(r, "error")
     \/ /\ ~consumed
        /\ handler' = [handler EXCEPT ![r] = "mark"]
        /\ UNCHANGED <<page, client, answer, late>>
  /\ UNCHANGED consumed

\* MarkSecretConsumed, whatever the row says by now; then the password is the answer.
MarkConsumed(r) == /\ handler[r] = "mark"
                   /\ consumed' = TRUE
                   /\ Answer(r, "password")

\* No such secret, a changed key, a failing store or a cancelled request context.
HandlerFails(r) == /\ handler[r] \in {"read", "mark"}
                   /\ Answer(r, "error")
                   /\ UNCHANGED consumed

\* Mutant: the catch block shows the error and leaves the button disabled.
DeliverStuck(r) ==
  /\ handler[r] = "answered" /\ client[r] # NoPage
  /\ page' = IF answer[r] = "password" THEN [page EXCEPT ![client[r]] = "shown"] ELSE page
  /\ client' = [client EXCEPT ![r] = NoPage]
  /\ UNCHANGED <<consumed, handler, answer, late>>

\* The fetch resolves: the page shows the password, or the error and the button.
Deliver(r) ==
  /\ handler[r] = "answered" /\ client[r] # NoPage
  /\ page' = [page EXCEPT ![client[r]] = IF answer[r] = "password" THEN "shown" ELSE "ready"]
  /\ client' = [client EXCEPT ![r] = NoPage]
  /\ UNCHANGED <<consumed, handler, answer, late>>

\* The connection breaks, before or after the answer was written: the fetch rejects.
LoseConnection(r) == /\ client[r] # NoPage
                     /\ page' = [page EXCEPT ![client[r]] = "ready"]
                     /\ client' = [client EXCEPT ![r] = NoPage]
                     /\ UNCHANGED <<consumed, handler, answer, late>>

Handle(r) == ReadSecret(r) \/ MarkConsumed(r) \/ Deliver(r)
Next == \/ \E p \in Pages : Click(p) \/ Reload(p)
        \/ \E r \in Requests : Handle(r) \/ HandlerFails(r) \/ LoseConnection(r)

Spec == Init /\ [][Next]_vars

\* net/http runs every handler to its end and the browser settles every fetch.
FairSpec == Spec /\ \A r \in Requests : WF_vars(Handle(r))

-----------------------------------------------------------------------------
(* Types of the secret row, the pages and the handlers. *)
TypeOK == /\ consumed \in BOOLEAN
          /\ page \in [Pages -> {"ready", "waiting", "shown"}]
          /\ handler \in [Requests -> {"unsent", "read", "mark", "answered"}]
          /\ client \in [Requests -> Pages \cup {NoPage}]
          /\ answer \in [Requests -> {"none", "password", "error"}]
          /\ late \subseteq Requests

(* After one reveal has been answered, a request sent later never gets the      *)
(* password, however many handlers of earlier requests are still between their  *)
(* read and their write.                                                        *)
NoLaterReveal == late \cap Revealed = {}

(* A page waits for one request at a time, so two answers never race for it.    *)
PageAsksOnce == \A q, r \in Requests : client[q] = client[r] /\ client[q] # NoPage => q = r

(* Every click comes to an end: the password, or the button again.              *)
ClicksEnd == \A p \in Pages : page[p] = "waiting" ~> page[p] # "waiting"

-----------------------------------------------------------------------------
(* README.md: "password-login fallback with one-time reveal".  Two handlers     *)
(* that read the row before either marks it both answer with the password.      *)
OneTimeReveal == Cardinality(Revealed) <= 1
=============================================================================
