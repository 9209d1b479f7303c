------------------------------ MODULE MCEvidence ------------------------------
(* The collections of a character and the phase ledger of one collection.  *)
(* They share no state, so each behaviour is about one of them: the phases *)
(* of a run whose attempts overlap, or follow each other with mishaps; or  *)
(* the runs of a character collected before with tier searches, of one     *)
(* never collected with alias edits, or of one collected before with both. *)
EXTENDS EvidencePhases, EvidenceRuns

CONSTANT Parts   \* the parts a behaviour may be about

VARIABLE part    \* the part this behaviour is about

(* No tier is searched before anything was collected.                      *)
Unpressed == INSTANCE EvidenceRuns WITH MaxPresses <- 0

MCInit ==
    /\ part \in Parts
    /\ PhasesInit /\ mishaps = IF part = "mishaps" THEN MaxMishaps ELSE 0
    /\ IF part \in {"tiers", "both"} THEN CollectedInit ELSE Unpressed!Init

(* The deliveries whose next step reads and writes nothing but their own:  *)
(* it commutes with every step of the others, and goes before them.        *)
OnItsOwn(d) ==
    IF ops[d] # <<>> THEN Todo(d) = {}
    ELSE pc[d] \in {"identity", "resolve", "begin", "scan", "providers", "provider", "retry"}

PhasesStep ==
    LET free == {d \in Deliveries : OnItsOwn(d)}
    IN  IF free = {} THEN PhasesNext ELSE DeliverySteps(First(free))

(* With mishaps an attempt follows the one before; without, they overlap   *)
(* as long as the run is active, later every write being refused, and the  *)
(* identity is asked for.                                                  *)
OneAtATime == \A d, e \in Deliveries : d < e /\ pc'[e] # "new" => pc'[d] = "over"

MCNext ==
    \/ part = "overlap" /\ open /\ PhasesStep /\ rows'[Identity] # "skipped"
       /\ UNCHANGED <<part, vars>>
    \/ part = "mishaps" /\ PhasesStep /\ OneAtATime /\ UNCHANGED <<part, vars>>
    \/ part = "tiers" /\ UNCHANGED <<part, aliasGen, phasesVars>> /\ Next
    \/ part = "aliases" /\ Next /\ run'[3].status = "absent" /\ UNCHANGED <<part, phasesVars>>
    \/ part = "both" /\ Next /\ UNCHANGED <<part, phasesVars>>

mcVars == <<part, vars, phasesVars>>

MCSpec == MCInit /\ [][MCNext]_mcVars

(* Doc: the terminal kills marks come from the aliases of today.           *)
MarksAreCurrent == part = "aliases" => MarksFollowAliases

===============================================================================
