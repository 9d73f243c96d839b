------------------------------ MODULE Shutdown ------------------------------
(***************************************************************************)
(* What closing an Adapter promises, without its locks, its counter, its   *)
(* list of providers or the cleanup that Closes share: once it is closed   *)
(* nobody enters; when the last call has left, and not before, providers   *)
(* are closed, each until its Close succeeds and never again; and a Close  *)
(* answers only then, and nil only when nothing is owned any more.         *)
(***************************************************************************)
EXTENDS Integers

CONSTANTS Callers, Closers, Keys, Closable, Nobody

VARIABLES
  closed,
  inside,    \* the calls in the Adapter
  uses,      \* the provider each of them works with
  owned,     \* the providers the Adapter owns
  closes,    \* how often each was closed with success
  answer     \* what each Close returned

shutdownVars == <<closed, inside, uses, owned, closes, answer>>

ShutdownInit ==
  /\ closed = FALSE /\ inside = {} /\ owned = {}
  /\ uses = [c \in Callers |-> Nobody]
  /\ closes = [p \in Keys |-> 0]
  /\ answer = [k \in Closers |-> "none"]

Arrive(c) ==
  /\ ~closed /\ c \notin inside
  /\ inside' = inside \cup {c}
  /\ UNCHANGED <<closed, uses, owned, closes, answer>>

\* A call uses a provider, one that is owned or one it adds.
Use(c, p) ==
  /\ c \in inside /\ uses[c] = Nobody
  /\ owned' = owned \cup {p}
  /\ uses' = [uses EXCEPT ![c] = p]
  /\ UNCHANGED <<closed, inside, closes, answer>>

EndUse(c) ==
  /\ uses[c] # Nobody
  /\ uses' = [uses EXCEPT ![c] = Nobody]
  /\ UNCHANGED <<closed, inside, owned, closes, answer>>

Leave(c) ==
  /\ c \in inside /\ uses[c] = Nobody
  /\ inside' = inside \ {c}
  /\ UNCHANGED <<closed, uses, owned, closes, answer>>

Shut ==
  /\ closed' = TRUE
  /\ UNCHANGED <<inside, uses, owned, closes, answer>>

Quiet == closed /\ inside = {}

Dispose(p) ==
  /\ Quiet /\ p \in owned
  /\ owned' = owned \ {p}
  /\ closes' = IF p \in Closable THEN [closes EXCEPT ![p] = @ + 1] ELSE closes
  /\ UNCHANGED <<closed, inside, uses, answer>>

Answer(k, r) ==
  /\ Quiet /\ answer[k] = "none"
  /\ r = "nil" => owned = {}
  /\ answer' = [answer EXCEPT ![k] = r]
  /\ UNCHANGED <<closed, inside, uses, owned, closes>>

ShutdownNext ==
  \/ \E c \in Callers : Arrive(c) \/ EndUse(c) \/ Leave(c) \/ \E p \in Keys : Use(c, p)
  \/ Shut
  \/ \E p \in Keys : Dispose(p)
  \/ \E k \in Closers : \E r \in {"nil", "error", "panicked"} : Answer(k, r)

ShutdownSpec == ShutdownInit /\ [][ShutdownNext]_shutdownVars
=============================================================================
