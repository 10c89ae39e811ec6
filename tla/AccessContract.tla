--------------------------- MODULE AccessContract ---------------------------
(***************************************************************************)
(* What the identity service promises about access to one account.  Access *)
(* comes in generations.  A new one begins with no session; a session      *)
(* enters by its login, which happens once, or as the one whose change of  *)
(* password began the generation; and it may lose access at any time.      *)
(***************************************************************************)
EXTENDS Naturals

CONSTANTS Sessions, Nobody

VARIABLES
  generation,
  holders,    \* sessions with access
  entered,    \* sessions whose login has happened, with or without success
  maker       \* the session that began the generation and has still to enter it

accessVars == <<generation, holders, entered, maker>>

Init ==
  /\ generation \in Nat /\ maker = Nobody
  /\ entered \in SUBSET Sessions /\ holders \in SUBSET entered

\* a login, for a password that may have been replaced meanwhile
Login(s) ==
  /\ s \notin entered /\ entered' = entered \cup {s}
  /\ holders' \in {holders, holders \cup {s}}
  /\ UNCHANGED <<generation, maker>>

\* logout, expiry, the clean-up of a change or a revocation; a maker that dies
Lose ==
  /\ holders' \in SUBSET holders
  /\ maker' \in {maker, Nobody}
  /\ UNCHANGED <<generation, entered>>

\* a revocation, or a change of password by a session
Begin(m) ==
  /\ generation' = generation + 1
  /\ holders' = {} /\ maker' = m
  /\ UNCHANGED entered

\* the session that changed the password keeps its access
Keep ==
  /\ maker # Nobody
  /\ holders' \in SUBSET (holders \cup {maker}) /\ maker' = Nobody
  /\ UNCHANGED <<generation, entered>>

Next ==
  \/ \E s \in Sessions : Login(s)
  \/ \E m \in Sessions \cup {Nobody} : Begin(m)
  \/ Lose \/ Keep

Spec == Init /\ [][Next]_accessVars
=============================================================================
