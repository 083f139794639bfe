------------------------- MODULE PasswordRevealProofs -------------------------
(* What PasswordReveal keeps for any number of pages and requests. *)
EXTENDS PasswordReveal, TLAPS

\* A request sent after a reveal finds the row consumed, so it never comes to mark it.
LateRefused == /\ Revealed # {} => consumed
               /\ \A r \in late : consumed /\ handler[r] # "mark" /\ answer[r] # "password"

\* A page that waits, and only such a page, has a fetch pending.
FetchMeansWaiting == \A r \in Requests : client[r] # NoPage => page[client[r]] = "waiting"

\* A request that nobody has sent belongs to no page, is not late and has no answer.
UnsentIsNobodys == \A r \in Requests : handler[r] = "unsent" =>
                     client[r] = NoPage /\ r \notin late /\ answer[r] = "none"

RevealInv == TypeOK /\ LateRefused /\ UnsentIsNobodys /\ FetchMeansWaiting /\ PageAsksOnce

(* No request is sent and nothing is consumed at the start. *)
LEMMA RevealStarts == ASSUME RevealAssumption, Init PROVE RevealInv
  BY DEF RevealAssumption, Init, RevealInv, TypeOK, LateRefused, UnsentIsNobodys, FetchMeansWaiting, PageAsksOnce, Revealed

(* A click sends one request from a page that waits for none. *)
LEMMA ClickStep == ASSUME RevealAssumption, RevealInv, NEW p \in Pages, Click(p) PROVE RevealInv'
<1> USE DEF RevealInv, TypeOK
<1>1. PICK r \in Requests : Send(p, r)
  BY DEF Click
<1>2. page[p] = "ready" /\ page' = [page EXCEPT ![p] = "waiting"]
  BY DEF Click
<1>3. \A q \in Requests : client[q] # p
  BY <1>2 DEF FetchMeansWaiting, RevealAssumption
<1>4. TypeOK'
  BY <1>1, <1>2 DEF Send
<1>5. Revealed' = Revealed /\ LateRefused'
  BY <1>1 DEF Send, LateRefused, UnsentIsNobodys, Revealed
<1>6. UnsentIsNobodys'
  BY <1>1 DEF Send, UnsentIsNobodys
<1>7. FetchMeansWaiting' /\ PageAsksOnce'
  <2>1. client'[r] = p /\ \A q \in Requests \ {r} : client'[q] = client[q]
    BY <1>1 DEF Send
  <2>2. page'[p] = "waiting" /\ \A o \in Pages \ {p} : page'[o] = page[o]
    BY <1>2
  <2>3. FetchMeansWaiting'
    BY <1>3, <2>1, <2>2 DEF FetchMeansWaiting
  <2>4. PageAsksOnce'
    BY <1>3, <2>1 DEF PageAsksOnce
  <2> QED BY <2>3, <2>4
<1> QED BY <1>4, <1>5, <1>6, <1>7

(* Handlers, answers and pages keep the invariant. *)
LEMMA OtherStep == ASSUME RevealAssumption, RevealInv,
                          \/ \E p \in Pages : Reload(p)
                          \/ \E r \in Requests : Handle(r) \/ HandlerFails(r) \/ LoseConnection(r)
                   PROVE RevealInv'
<1> USE DEF RevealInv, TypeOK, LateRefused, UnsentIsNobodys, FetchMeansWaiting, PageAsksOnce, Revealed,
            RevealAssumption
<1>1. ASSUME NEW p \in Pages, Reload(p) PROVE RevealInv'
  BY <1>1 DEF Reload
<1>2. ASSUME NEW r \in Requests, ReadSecret(r) PROVE RevealInv'
  BY <1>2 DEF ReadSecret, Answer
<1>3. ASSUME NEW r \in Requests, MarkConsumed(r) PROVE RevealInv'
  BY <1>3 DEF MarkConsumed, Answer
<1>4. ASSUME NEW r \in Requests, Deliver(r) PROVE RevealInv'
  BY <1>4 DEF Deliver
<1>5. ASSUME NEW r \in Requests, HandlerFails(r) PROVE RevealInv'
  BY <1>5 DEF HandlerFails, Answer
<1>6. ASSUME NEW r \in Requests, LoseConnection(r) PROVE RevealInv'
  BY <1>6 DEF LoseConnection
<1> QED BY <1>1, <1>2, <1>3, <1>4, <1>5, <1>6 DEF Handle

(* A request sent after a reveal is refused, and answers never race for a page. *)
THEOREM RevealSafe == Spec => [](TypeOK /\ NoLaterReveal /\ PageAsksOnce)
<1>1. RevealInv => TypeOK /\ NoLaterReveal /\ PageAsksOnce
  BY DEF RevealInv, LateRefused, NoLaterReveal, Revealed
<1>2. ASSUME RevealInv, [Next]_vars PROVE RevealInv'
  <2>1. CASE UNCHANGED vars
    BY <1>2, <2>1 DEF vars, RevealInv, TypeOK, LateRefused, UnsentIsNobodys, FetchMeansWaiting, PageAsksOnce, Revealed
  <2> QED BY <1>2, <2>1, RevealAssumption, ClickStep, OtherStep DEF Next
<1> QED BY <1>1, <1>2, RevealAssumption, RevealStarts, PTL DEF Spec

(* The secret row, the pages and the handlers keep their types. *)
THEOREM RevealTyped == Spec => []TypeOK
  BY RevealSafe, PTL
=============================================================================
