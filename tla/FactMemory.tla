------------------------------ MODULE FactMemory ------------------------------
(***************************************************************************)
(* What a store of facts promises, however many threads use it and         *)
(* whenever its process ends: facts come and go one at a time, and a       *)
(* restart brings back what was saved last, or nothing when it is a save   *)
(* that was broken off.                                                    *)
(***************************************************************************)
CONSTANT Fact

VARIABLES
  known,
  saved,
  safe      \* the latest change is saved

fvars == <<known, saved, safe>>

Init == known \subseteq Fact /\ saved = known /\ safe \in BOOLEAN

Learn(f) ==
  f \notin known /\ known' = known \cup {f} /\ safe' = FALSE /\ UNCHANGED saved

Unlearn(f) ==
  f \in known /\ known' = known \ {f} /\ safe' = FALSE /\ UNCHANGED saved

\* Saving does away with what was saved before, and may get no further.
Discard == ~safe /\ saved' = {} /\ UNCHANGED <<known, safe>>

Save == ~safe /\ saved' = known /\ safe' = TRUE /\ UNCHANGED known

Relapse == ~safe /\ known' = saved /\ safe' \in BOOLEAN /\ UNCHANGED saved

Next ==
  Discard \/ Save \/ Relapse \/ \E f \in Fact : Learn(f) \/ Unlearn(f)

Spec == Init /\ [][Next]_fvars
==============================================================================
