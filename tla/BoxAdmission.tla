---------------------------- MODULE BoxAdmission ----------------------------
(***************************************************************************)
(* What box admission promises its callers: a client executes while it has *)
(* been granted capacity slots; grants are disjoint; a shared client gets  *)
(* exactly the weight it asked for; an exclusive client executes alone     *)
(* among the clients of this protocol and holds the whole configured       *)
(* capacity; slot-only clients of older checkouts take one slot each.      *)
(***************************************************************************)
EXTENDS Naturals

CONSTANTS Clients, Exclusive, Legacy, Capacity, Weight, Slots,
    Size(_)     \* how many elements a set has

VARIABLE granted

TypeOK == granted \in [Clients -> SUBSET Slots]

Init == granted = [c \in Clients |-> {}]

\* May c and d execute side by side?
Compatible(c, d) == {c, d} \cap Legacy # {} \/ {c, d} \cap Exclusive = {}

Wanted(c, S) ==
    /\ c \in Legacy => Size(S) = 1
    /\ c \in Exclusive => 0..(Capacity[c] - 1) \subseteq S
    /\ c \notin Exclusive \cup Legacy => Size(S) = Weight[c]

Admit(c, S) ==
    /\ granted[c] = {} /\ S # {} /\ Wanted(c, S)
    /\ \A d \in Clients \ {c} :
          /\ granted[d] \cap S = {}
          /\ granted[d] # {} => Compatible(c, d)
    /\ granted' = [granted EXCEPT ![c] = S]

Leave(c) == granted[c] # {} /\ granted' = [granted EXCEPT ![c] = {}]

Next == \E c \in Clients : Leave(c) \/ \E S \in SUBSET Slots : Admit(c, S)

Spec == Init /\ [][Next]_granted
=============================================================================
