----------------------------- MODULE CommandLog -----------------------------
(***************************************************************************)
(* What lockstep promises, without messages, caches or threads: there is   *)
(* one log of command lists, each for the frame it was broadcast at; every *)
(* participant's world is a frame and the prefix of the log given to it;   *)
(* and no world moves on from a frame while the log has something for that *)
(* frame, or an earlier one, that the world has not been given.            *)
(***************************************************************************)
EXTENDS Naturals, Sequences

CONSTANTS Client, Server

VARIABLES log,      \* the command lists broadcast so far
          world,    \* the command lists given to the world of each client
          at        \* the frame each world has reached

Init == /\ log = <<>>
        /\ world = [c \in Client |-> <<>>]
        /\ at = [n \in Client \cup {Server} |-> 0]

UpToDate(c) == \A i \in 1 .. Len(log) : log[i].frame <= at[c] => i <= Len(world[c])

\* The server moves one frame on, and may broadcast for the frame it is now at.
\* It may also broadcast again for the frame it stays at.
Lead ==
    /\ at' \in {at, [at EXCEPT ![Server] = @ + 1]}
    /\ \/ log' = log
       \/ /\ Len(log') = Len(log) + 1
          /\ \A i \in 1 .. Len(log) : log'[i] = log[i]
          /\ log'[Len(log')].frame = at'[Server]
    /\ UNCHANGED world

\* A client's world moves one frame on.
Move(c) ==
    /\ UpToDate(c)
    /\ at' = [at EXCEPT ![c] = @ + 1]
    /\ UNCHANGED <<log, world>>

\* The next command lists of the log are given to the world of a client, while
\* it is at the frame they were broadcast for.
Give(c) ==
    /\ \E n \in Len(world[c]) .. Len(log) :
          /\ world' = [world EXCEPT ![c] = [i \in 1 .. n |-> log[i]]]
          /\ \A i \in Len(world[c]) + 1 .. n : log[i].frame = at[c]
    /\ UNCHANGED <<log, at>>

Next == Lead \/ \E c \in Client : Move(c) \/ Give(c)

Spec == Init /\ [][Next]_<<log, world, at>>
=============================================================================
