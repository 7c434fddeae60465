--------------------------- MODULE SessionRegister ---------------------------
(***************************************************************************)
(* What SessionPersister promises its callers (the guarantees its header   *)
(* and the comment on writeSession state): every session file behaves like *)
(* an atomic register.  Readers see the last installed value; a crash may  *)
(* take back installs that were not yet hardened, newest first, and never  *)
(* one that was acknowledged to a caller.                                  *)
(***************************************************************************)
EXTENDS Naturals, Sequences

CONSTANTS Sessions,  \* session ids
          Calls      \* write calls; a call's id stands for the payload it writes

VARIABLES hist,      \* hist[s]: the values installed for s, oldest first
          stable,    \* stable[s]: how many of them no crash can take back
          acked      \* calls whose promise was fulfilled

rvars == <<hist, stable, acked>>

RInit ==
  /\ hist = [s \in Sessions |-> <<>>]
  /\ stable = [s \in Sessions |-> 0]
  /\ acked = {}

(* One value replaces the whole previous content in a single step. *)
Install(s, c) ==
  /\ hist' = [hist EXCEPT ![s] = Append(@, c)]
  /\ UNCHANGED <<stable, acked>>

(* Some sessions' current values become crash-proof, which entitles calls
   whose value is covered by now to be acknowledged. *)
HardenAndAck(S, C) ==
  /\ stable' = [s \in Sessions |-> IF s \in S THEN Len(hist[s]) ELSE stable[s]]
  /\ \A c \in C : \E s \in S : \E i \in 1..Len(hist[s]) : hist[s][i] = c
  /\ acked' = acked \cup C
  /\ UNCHANGED hist

(* A crash keeps, for every session, the stable values and some prefix of the rest. *)
RCrash ==
  /\ stable' \in [Sessions -> Nat]
  /\ \A s \in Sessions : stable[s] <= stable'[s] /\ stable'[s] <= Len(hist[s])
  /\ hist' = [s \in Sessions |-> SubSeq(hist[s], 1, stable'[s])]
  /\ UNCHANGED acked

RNext ==
  \/ \E s \in Sessions, c \in Calls : Install(s, c)
  \/ \E S \in SUBSET Sessions, C \in SUBSET Calls : HardenAndAck(S, C)
  \/ RCrash

RSpec == RInit /\ [][RNext]_rvars
=============================================================================
