----------------------------- MODULE LightSwitch -----------------------------
(***************************************************************************)
(* What the whole installation promises of its modes: orders are obeyed    *)
(* one after the other; an order may get lost, the light may fall back to  *)
(* a mode nobody ordered (a timeout, a restart) or return from there to    *)
(* the mode obeyed last, and nothing else happens.                         *)
(***************************************************************************)
EXTENDS Integers, Sequences, SequencesExt

CONSTANTS
  Mode,      \* the modes one can order
  Else,      \* an order about something else than the mode
  Fallback   \* what the light may show without an order

VARIABLES
  orders,
  shown,
  kept       \* the mode it may return to, in a set of at most one

switchVars == << orders, shown, kept >>

SwitchInit == orders = << >> /\ shown \in Fallback /\ kept = {}

Order(m) == orders' = Append(orders, m) /\ UNCHANGED << shown, kept >>

Obey ==
  /\ orders # << >>
  /\ shown' = IF Head(orders) = Else THEN shown ELSE Head(orders)
  /\ kept' = { Head(orders) } \ { Else }
  /\ orders' = Tail(orders)

Resume == shown' \in kept /\ UNCHANGED << orders, kept >>

Forget == kept' = {} /\ UNCHANGED << orders, shown >>

Lose(i) ==
  /\ orders' = RemoveAt(orders, i)
  /\ kept' \in { kept, {} }
  /\ UNCHANGED shown

(* A cut line loses all orders from the i-th on.                           *)
LoseMany(i) == orders' = SubSeq(orders, 1, i) /\ UNCHANGED << shown, kept >>

Lapse == shown' \in Fallback /\ UNCHANGED << orders, kept >>

(* A restart loses all orders up to the i-th.                              *)
Reset(i) ==
  /\ shown' \in Fallback
  /\ kept' = {}
  /\ orders' = SubSeq(orders, i + 1, Len(orders))

SwitchNext ==
  \/ \E m \in Mode \cup { Else } : Order(m)
  \/ Obey
  \/ \E i \in 1 .. Len(orders) : Lose(i)
  \/ \E i \in 0 .. Len(orders) : LoseMany(i) \/ Reset(i)
  \/ Resume \/ Forget \/ Lapse

SwitchSpec == SwitchInit /\ [][SwitchNext]_switchVars

(* Orders do not wait for ever: weak fairness of Obey, spelled out.        *)
NoOrderWaits == []<>(orders = << >>) \/ []<><<Obey>>_switchVars
=============================================================================
