------------------------------ MODULE LspCalls ------------------------------
(***************************************************************************)
(* What the language-server client (src/lspclient/client.go) promises to   *)
(* the goroutines that call Request: a call that was accepted returns      *)
(* exactly once, with the server's answer to it, or with an error once the *)
(* server is gone, or because its own context was cancelled.  Pipes, ids,  *)
(* channels and the reader goroutine do not appear here: LspClient has     *)
(* them and implements this specification.                                 *)
(***************************************************************************)
CONSTANTS Callers,      \* the goroutines that issue requests
          Cancellable   \* those that call RequestCtx with a context that can end

VARIABLES open,      \* open[c]: c has a call in progress
          answered,  \* answered[c]: the server has answered that call
          last,      \* last[c]: how the latest call of c returned
          up         \* the language server is running

callVars == <<open, answered, last, up>>

Returns == {"none", "answer", "error", "cancelled"}

CallsInit ==
    /\ open = [c \in Callers |-> FALSE]
    /\ answered = [c \in Callers |-> FALSE]
    /\ last = [c \in Callers |-> "none"]
    /\ up = TRUE

(* A call is accepted. *)
Begin(c) ==
    /\ ~open[c]
    /\ open' = [open EXCEPT ![c] = TRUE]
    /\ answered' = [answered EXCEPT ![c] = FALSE]
    /\ UNCHANGED <<last, up>>

(* A call made when the connection is known to be lost fails at once. *)
Refuse(c) ==
    /\ ~open[c] /\ ~up
    /\ last' = [last EXCEPT ![c] = "error"]
    /\ UNCHANGED <<open, answered, up>>

(* The server produces its answer. *)
Answer(c) ==
    /\ up /\ open[c] /\ ~answered[c]
    /\ answered' = [answered EXCEPT ![c] = TRUE]
    /\ UNCHANGED <<open, last, up>>

Return(c, how) ==
    /\ open[c]
    /\ open' = [open EXCEPT ![c] = FALSE]
    /\ answered' = [answered EXCEPT ![c] = FALSE]
    /\ last' = [last EXCEPT ![c] = how]
    /\ UNCHANGED up

ReturnAnswer(c)    == answered[c] /\ Return(c, "answer")
ReturnError(c)     == ~up /\ Return(c, "error")
ReturnCancelled(c) == c \in Cancellable /\ Return(c, "cancelled")

Lose == up /\ up' = FALSE /\ UNCHANGED <<open, answered, last>>

CallsNext ==
    \/ \E c \in Callers :
          \/ Begin(c) \/ Refuse(c) \/ Answer(c)
          \/ ReturnAnswer(c) \/ ReturnError(c) \/ ReturnCancelled(c)
    \/ Lose

(* Whatever the server answered is returned, and after a loss every call   *)
(* returns: the client never leaves a caller hanging by its own doing.     *)
CallsFairness ==
    \A c \in Callers : WF_callVars(ReturnAnswer(c) \/ ReturnError(c))

CallsSpec == CallsInit /\ [][CallsNext]_callVars /\ CallsFairness
=============================================================================
