----------------------------- MODULE MCWindows -----------------------------
(* The life of the windows, and the list of clients as a chain of pointers: two
   models of dwm that share no variable.  An instance is their sum, as in
   MCUtilities: each behaviour is one of a single model, named by `model`. *)
EXTENDS DwmLifecycle, DwmPointers

CONSTANTS w1, w2, w3, w4

VARIABLE model

vars == <<model, lifeVars, chainVars>>

Init == model \in {"life", "chain"} /\ LifeInit /\ ChainInit

Life  == model = "life" /\ LifeNext /\ UNCHANGED <<model, chainVars>>
Chain == model = "chain" /\ ChainNext /\ UNCHANGED <<model, lifeVars>>

Next == Life \/ Chain

\* dwm takes the next event as long as there is one; users and programs are
\* free to do nothing, and to hold a mouse button for ever.
Spec == Init /\ [][Next]_vars /\ WF_vars(Life /\ Dwm)

============================================================================
