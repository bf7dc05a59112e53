---------------------------- MODULE ClientRegistry ----------------------------
(***************************************************************************)
(* What CServer promises about the clients it owns: a client is registered *)
(* at most once; while the server serves, only a client that has left is   *)
(* destroyed; a client is destroyed once; and while one is being destroyed *)
(* no other is registered, leaves or is destroyed.  When the server no     *)
(* longer serves it destroys whatever is still registered.                 *)
(***************************************************************************)
CONSTANT Client

VARIABLES
    life,       \* how far each client is
    serving     \* FALSE as soon as the registry itself is being destroyed

registryVars == <<life, serving>>

Stage == {"new", "registered", "left", "ending", "destroyed"}

Init == life = [c \in Client |-> "new"] /\ serving = TRUE

NobodyEnds == \A c \in Client : life[c] # "ending"

Becomes(c, stage) == life' = [life EXCEPT ![c] = stage]

Register(c) == serving /\ NobodyEnds /\ life[c] = "new" /\ Becomes(c, "registered")

Leave(c) == serving /\ NobodyEnds /\ life[c] = "registered" /\ Becomes(c, "left")

DestructionBegins(c) ==
    /\ NobodyEnds
    /\ life[c] = "left" \/ (life[c] = "registered" /\ ~serving)
    /\ Becomes(c, "ending")

DestructionEnds(c) == life[c] = "ending" /\ Becomes(c, "destroyed")

Close == serving /\ NobodyEnds /\ serving' = FALSE /\ UNCHANGED life

Next ==
    \/ Close
    \/ \E c \in Client :
          /\ Register(c) \/ Leave(c) \/ DestructionBegins(c) \/ DestructionEnds(c)
          /\ UNCHANGED serving

Spec == Init /\ [][Next]_registryVars
=============================================================================
