-------------------------------- MODULE ORAM --------------------------------
(***************************************************************************)
(* What the interface ORAM.h promises: a memory of blocks, one caller.     *)
(* write stores the words it is given and loads the old content into the   *)
(* caller's buffer; read loads the whole block; a block nobody wrote is    *)
(* zero.  The process may die on a failed assertion, and its memory with   *)
(* it; it never answers wrongly.                                           *)
(***************************************************************************)
EXTENDS OramData

VARIABLES
  mem,    \* mem[i]: the content of block i
  req,    \* the request being served, or the last one, with its buffer
  phase   \* "idle", "called", "served" or "crashed"

vars == <<mem, req, phase>>

Init ==
  /\ mem = [i \in Inds |-> ZeroBlock]
  /\ req \in ReadRequests
  /\ phase = "idle"

Invoke(r) ==
  /\ phase = "idle"
  /\ phase' = "called"
  /\ req' = r
  /\ UNCHANGED mem

Serve ==
  /\ phase = "called"
  /\ phase' = "served"
  /\ mem' = [mem EXCEPT ![req.ind] = Stored(req, @)]
  /\ req' = [req EXCEPT !.buf = Loaded(req, mem[req.ind])]

Return ==
  /\ phase = "served"
  /\ phase' = "idle"
  /\ UNCHANGED <<mem, req>>

Crash ==
  /\ phase \in {"called", "served"}
  /\ phase' = "crashed"
  /\ mem' = [i \in Inds |-> ZeroBlock]
  /\ UNCHANGED req

Next ==
  \/ \E r \in ReadRequests \cup WriteRequests : Invoke(r)
  \/ Serve
  \/ Return
  \/ Crash

Spec == Init /\ [][Next]_vars
=============================================================================
