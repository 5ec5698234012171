-------------------------- MODULE OptimisticStore --------------------------
(***************************************************************************)
(* What the versions of the map workspace promise, without versions, locks *)
(* or tables: people look at a record and later save it, and a save goes   *)
(* through only over the very value that was looked at. A save may put     *)
(* other records elsewhere and give birth to new ones; it never changes    *)
(* what another record says. Records about what companies share may end on *)
(* their own, and put others elsewhere when they do.                       *)
(*                                                                         *)
(* Two things are less than one would wish for. Who saves blindly saves    *)
(* over whatever there is. And who was right about a record when a shared  *)
(* one ended may be taken to be right still, though the record is          *)
(* elsewhere now; what it says is what was looked at.                      *)
(***************************************************************************)
CONSTANTS
  Clients,  \* those who look and save
  Records,  \* ids of records
  Shared,   \* the records that may end without anybody having looked
  None      \* no record: not one of Records

VARIABLES
  store,    \* what a record says (body) and where it is (place)
  copy      \* the record a client looked at last, what it saw, and whether it
            \* will save over it blindly

vars == <<store, copy>>

Unborn == [body |-> <<>>, place |-> None]
Ended == [body |-> <<None>>, place |-> None]
Nothing == [record |-> None, seen |-> Unborn, blind |-> FALSE]

Init == \A c \in Clients : copy[c] = Nothing

Look(c, r, blind) ==
  /\ copy' = [copy EXCEPT ![c] = [record |-> r, seen |-> store[r], blind |-> blind]]
  /\ UNCHANGED store

(* The records of `rest` keep their bodies; those that were not there yet    *)
(* may appear.                                                               *)
BodiesKept(rest) ==
  \A s \in rest : store[s] # Unborn => store'[s].body = store[s].body

(* The copy is what the record is.                                           *)
UpToDate(c) == copy[c].record # None /\ store[copy[c].record] = copy[c].seen

Overwrites(c) ==
  copy[c].record # None /\ copy[c].blind /\ store[copy[c].record] \notin {Unborn, Ended}

Save(c) ==
  /\ UpToDate(c) \/ Overwrites(c)
  /\ BodiesKept(Records \ {copy[c].record})
  /\ copy' = [copy EXCEPT ![c] = Nothing]

Create(c) ==
  /\ copy[c].record = None
  /\ \E r \in Records : store[r] = Unborn /\ BodiesKept(Records)
  /\ UNCHANGED copy

GiveUp(c) ==
  /\ copy' = [copy EXCEPT ![c] = Nothing]
  /\ UNCHANGED store

KeepsUp(c) ==
  [record |-> copy[c].record, seen |-> store'[copy[c].record], blind |-> copy[c].blind]

(* Those who are caught keep up with their records.                          *)
End(r, caught) ==
  /\ store'[r] = Ended
  /\ BodiesKept(Records \ {r})
  /\ \A c \in caught : UpToDate(c) /\ copy[c].record # r
  /\ copy' = [c \in Clients |-> IF c \in caught THEN KeepsUp(c) ELSE copy[c]]

Next ==
  \/ \E c \in Clients : Save(c) \/ Create(c) \/ GiveUp(c)
  \/ \E c \in Clients, r \in Records, blind \in BOOLEAN : Look(c, r, blind)
  \/ \E r \in Shared, caught \in SUBSET Clients : End(r, caught)

Spec == Init /\ [][Next]_vars
=============================================================================
