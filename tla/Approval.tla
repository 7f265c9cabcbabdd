------------------------------ MODULE Approval -------------------------------
(***************************************************************************)
(* What the response orchestrator promises, without tiers, statuses,       *)
(* ledgers, clocks or engines: a thing asked for is carried out once, when *)
(* as many different people as it needs have backed it, none of them the   *)
(* one who asked, and never after it was closed.                           *)
(***************************************************************************)
EXTENDS Naturals, Sequences, FiniteSets

CONSTANT People

VARIABLE items

Item == [by : People, need : 0..2, backers : SUBSET People,
         state : {"open", "cleared", "closed", "tried"}, tries : 0..1]

Init == items = << >>

\* Something is asked for; what needs nobody is carried out at once.
Ask(by, need) ==
  items' = Append(items, [by |-> by, need |-> need, backers |-> {},
                          state |-> IF need = 0 THEN "tried" ELSE "open",
                          tries |-> IF need = 0 THEN 1 ELSE 0])

\* Something is rehearsed: it is there, and nothing comes of it.
Rehearse(by) ==
  items' = Append(items, [by |-> by, need |-> 0, backers |-> {},
                          state |-> "closed", tries |-> 0])

\* p backs item i, and is perhaps the last one it needed.
Back(i, p) ==
  LET B == items[i].backers \cup {p}
  IN /\ items[i].state = "open"
     /\ p # items[i].by /\ p \notin items[i].backers
     /\ items' = [items EXCEPT ![i].backers = B,
                               ![i].state = IF Cardinality(B) < items[i].need
                                              THEN "open" ELSE "cleared"]

\* Somebody objects, or time is up.
Close(S) ==
  /\ \A i \in S : items[i].state = "open"
  /\ items' = [i \in DOMAIN items |->
                 IF i \in S THEN [items[i] EXCEPT !.state = "closed"] ELSE items[i]]

CarryOut(S) ==
  /\ \A i \in S : items[i].state = "cleared"
  /\ items' = [i \in DOMAIN items |->
                 IF i \in S THEN [items[i] EXCEPT !.state = "tried", !.tries = 1]
                            ELSE items[i]]

Next ==
  \/ \E p \in People, n \in 0..2 : Ask(p, n)
  \/ \E p \in People : Rehearse(p)
  \/ \E i \in DOMAIN items, p \in People : Back(i, p)
  \/ \E S \in SUBSET DOMAIN items : Close(S)
  \/ \E S \in SUBSET DOMAIN items : CarryOut(S)

Spec == Init /\ [][Next]_items
=============================================================================
