------------------------------ MODULE Registry ------------------------------
(***************************************************************************)
(* What the commands promise of the list of servers, without files and     *)
(* processes: it is a list in the order of addition; `server add` puts a   *)
(* new name at its end, `server remove` takes one out and leaves the rest  *)
(* in place (src/workspace/config.go:38, src/cli/server.go).               *)
(*                                                                         *)
(* The promise stands while it is sound, that is until a command is killed *)
(* inside its write or two commands overlap around one; then nothing is    *)
(* promised, since nothing locks the file.                                 *)
(***************************************************************************)
EXTENDS ServerLists

VARIABLES servers, sound

-----------------------------------------------------------------------------
Init == sound = TRUE /\ DistinctNames(servers)

Add ==
    /\ Len(servers') = Len(servers) + 1
    /\ \A i \in 1..Len(servers) : servers'[i] = servers[i]
    /\ servers'[Len(servers')].name \notin NamesOf(servers)
    /\ UNCHANGED sound

Remove ==
    /\ \E n \in NamesOf(servers) : IsWithout(servers, servers', n)
    /\ UNCHANGED sound

Disturb == ~sound'

Next == ~sound \/ Add \/ Remove \/ Disturb

Spec == Init /\ [][Next]_<<servers, sound>>
=============================================================================
