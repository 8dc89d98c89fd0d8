------------------------- MODULE PrivateEnvironments -------------------------
(***************************************************************************)
(* What the environment service promises to the rollouts that share it:    *)
(* every client has, while its episode is open, an environment of its own. *)
(* The observation it holds belongs to the task it asked for, in the goal  *)
(* that is scored as well as in the page that is shown, and counts exactly *)
(* the actions it took itself.                                             *)
(***************************************************************************)
EXTENDS Naturals

CONSTANTS Clients, Tasks,
          NoEpisode  \* a client without an environment

VARIABLE episode     \* per client: the task it asked for and what it last observed

Init == episode = [c \in Clients |-> NoEpisode]

Open(c, t) ==
  /\ episode[c] = NoEpisode
  /\ episode' = [episode EXCEPT ![c] = [asked |-> t, goal |-> t, page |-> t, turn |-> 0]]

Act(c) ==
  /\ episode[c] # NoEpisode
  /\ episode' = [episode EXCEPT ![c].turn = @ + 1]

Close(c) ==
  /\ episode[c] # NoEpisode
  /\ episode' = [episode EXCEPT ![c] = NoEpisode]

Next == \E c \in Clients : Act(c) \/ Close(c) \/ \E t \in Tasks : Open(c, t)

Spec == Init /\ [][Next]_episode

=============================================================================
